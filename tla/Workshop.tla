------------------------------- MODULE Workshop ------------------------------
(***************************************************************************)
(* One AWS account, several participants: make bootstrap, deploy, destroy  *)
(* and wire-backend-env (Makefile, scripts/), what they leave in the files *)
(* of a checkout and in the account, and what a broker then sees of the    *)
(* legacy deal desk (services/legacy_deal_desk/app.py).                    *)
(*                                                                         *)
(* Names in the account are global, the ARNs and URLs that a deployment    *)
(* refers to are literals drawn by AWS, and agentcore.json is one file for *)
(* every participant who works in the checkout.  A make may stop after any *)
(* of its steps and be run again, and nothing keeps two makes apart that   *)
(* are started in one checkout: no script and no recipe takes a lock.      *)
(*                                                                         *)
(* Both harnesses, and both gateways, of a participant come and go         *)
(* together, so each pair is one here.                                     *)
(***************************************************************************)
EXTENDS Integers, Sequences

CONSTANTS
  Participant,  \* WORKSHOP_IDs
  Checkout,     \* copies of the repository
  Terminal,     \* where makes run, each one at a time
  First,        \* whose deal desk the canonical system prompt names
  MaxId,        \* bound: ids of one kind of a participant, in use or referred to
  MaxMakes,     \* bound: makes started
  None

ASSUME FirstAssumption == First \in Participant
ASSUME BoundAssumption == MaxId \in Nat \ {0} /\ MaxMakes \in Nat

VARIABLES
  home,     \* the checkout a participant works in
  job,      \* the make that runs in a terminal: what is left of it
  config,   \* agentcore.json with the harness directories it names: whose names
            \* they have, and what was rendered for the harnesses, if there are any
  targets,  \* aws-targets.json
  state,    \* deployed-state.json: the gateway of each target and under whose name
  env,      \* backend/.env
  cdk,      \* the account: each participant's CDK stacks, by number; 0 if none
  stack,    \* the account: AgentCore-crexiWorkshopV2-<id>
  visit,    \* the deal desk whose cookie the browser of a backend's agent holds
  torn,     \* history: participants whose deployed-state.json may name a gateway that
            \* is gone: a destroy stopped after its first step, or First's did elsewhere
  met,      \* history: terminals whose make met another one in its checkout
  crossed,  \* history: checkouts where two makes ran at a time
  makes     \* how many makes were started

files == <<config, targets, state, env>>
account == <<cdk, stack>>
history == <<torn, crossed>>
workshopVars == <<home, job, met, makes, files, account, visit, history>>

Id == 0..MaxId
Ref == Participant \X Id              \* a literal ARN or URL
Generated == [gateway : Ref, desk : Ref]
Deployed == [names : Participant, gateway : Id]
Make == {"bootstrap", "deploy", "destroy"}
StepName == {"cdk", "target", "gateways", "harnesses", "push", "delete", "untarget", "uncdk"}
Job == [who : Participant, make : Make, todo : Seq(StepName)]
Stack == [names : Participant, gateway : Id, harness : Id, made : Generated \cup {None}]

ASSUME NoneAssumption ==
  None \notin Generated /\ None \notin Deployed /\ None \notin Job /\ None \notin Stack /\ None \notin Ref

WorkshopTypeOK ==
  /\ home \in [Participant -> Checkout]
  /\ job \in [Terminal -> Job \cup {None}]
  /\ config \in [Checkout -> [names : Participant, made : Generated \cup {None}]]
  /\ targets \in [Checkout -> SUBSET Participant]
  /\ state \in [Checkout -> [Participant -> Deployed \cup {None}]]
  /\ env \in [Checkout -> [id : Participant, harness : Ref] \cup {None}]
  /\ cdk \in [Participant -> Id]
  /\ stack \in [Participant -> Stack \cup {None}]
  /\ visit \in [Checkout -> Ref \cup {None}]
  /\ torn \subseteq Participant /\ met \subseteq Terminal /\ crossed \subseteq Checkout
  /\ makes \in 0..MaxMakes

\* The checked-in files are those of First's deployment (agentcore.json,
\* aws-targets.json, .cli/deployed-state.json).  That one still runs in the
\* account or no longer; who shares a checkout is anybody's choice.
WorkshopInit ==
  /\ home \in [Participant -> Checkout]
  /\ job = [t \in Terminal |-> None] /\ makes = 0 /\ met = {} /\ crossed = {}
  /\ config = [c \in Checkout |-> [names |-> First, made |-> None]]
  /\ targets = [c \in Checkout |-> {First}]
  /\ state = [c \in Checkout |-> [w \in Participant |->
       IF w = First THEN [names |-> w, gateway |-> 1] ELSE None]]
  /\ env = [c \in Checkout |-> None] /\ visit = [c \in Checkout |-> None]
  /\ \E running \in SUBSET {First} :
       /\ cdk = [w \in Participant |-> IF w \in running THEN 1 ELSE 0]
       /\ stack = [w \in Participant |-> IF w \notin running THEN None ELSE
            [names |-> w, gateway |-> 1, harness |-> 1,
             made |-> [gateway |-> <<w, 1>>, desk |-> <<w, 1>>]]]
       /\ torn = {First} \ running

-----------------------------------------------------------------------------
\* Mutant: as in a bootstrap.
TwoPhases == <<"gateways", "push", "harnesses", "push">>
OnePhase == <<"harnesses", "push">>

Steps(make) ==
  CASE make = "bootstrap" -> <<"cdk", "target">> \o TwoPhases
    [] make = "deploy"    -> OnePhase
    [] make = "destroy"   -> <<"delete", "untarget", "uncdk">>

Who(t) == job[t].who
At(t) == home[Who(t)]

\* The makes that run in a checkout.
MakesIn(c) == {t \in Terminal : job[t] # None /\ At(t) = c}

MakeStart(t, w, make) ==
  /\ job[t] = None
  /\ makes < MaxMakes /\ makes' = makes + 1
  /\ job' = [job EXCEPT ![t] = [who |-> w, make |-> make, todo |-> Steps(make)]]
  /\ \/ MakesIn(home[w]) = {} /\ UNCHANGED <<met, crossed>>
     \/ /\ MakesIn(home[w]) # {}
        /\ met' = met \cup MakesIn(home[w]) \cup {t}
        /\ crossed' = crossed \cup {home[w]}
  /\ UNCHANGED <<home, files, account, visit, torn>>

\* The make in t does not go on.
Ends(t) == job' = [job EXCEPT ![t] = None] /\ met' = met \ {t}

\* The next step of the make; the last one ends it.
Do(t, step) ==
  LET left == Tail(job[t].todo)
  IN  /\ job[t] # None /\ Head(job[t].todo) = step
      /\ \/ left = <<>> /\ Ends(t)
         \/ left # <<>> /\ job' = [job EXCEPT ![t].todo = left] /\ UNCHANGED met

\* make stops at the first command that fails.
MakeFails(t) ==
  /\ job[t] # None /\ Ends(t)
  /\ UNCHANGED <<home, makes, files, account, visit, history>>

-----------------------------------------------------------------------------
\* AWS draws ids at random: one that nothing refers to.
Refs(field) == {config[c].made[field] : c \in {c \in Checkout : config[c].made # None}}
               \cup {stack[w].made[field] : w \in {w \in Participant : stack[w] # None /\ stack[w].made # None}}
OfRefs(w, refs) == {ref[2] : ref \in {ref \in refs : ref[1] = w}}
OfStack(w, field) == IF stack[w] = None THEN {} ELSE {stack[w][field]}

Recorded(w) == {state[c][w].gateway : c \in {c \in Checkout : state[c][w] # None}}

UsedUrls(w) == OfRefs(w, Refs("desk") \cup {visit[c] : c \in {c \in Checkout : visit[c] # None}})
UsedGateways(w) == OfRefs(w, Refs("gateway")) \cup OfStack(w, "gateway") \cup Recorded(w)
UsedHarnesses(w) == OfRefs(w, {env[c].harness : c \in {c \in Checkout : env[c] # None}}) \cup OfStack(w, "harness")

Draw(used) == CHOOSE n \in (1..MaxId) \ used : TRUE
CanDraw(used) == (1..MaxId) \ used # {}

-----------------------------------------------------------------------------
\* cdk deploy --all: tables, users, tools and the deal desk, seeded on creation.
CdkDeploy(t) ==
  LET w == Who(t)
  IN  /\ Do(t, "cdk")
      /\ \/ cdk[w] # 0 /\ UNCHANGED cdk
         \/ /\ cdk[w] = 0 /\ CanDraw(UsedUrls(w))
            /\ cdk' = [cdk EXCEPT ![w] = Draw(UsedUrls(w))]
      /\ UNCHANGED <<home, makes, files, stack, visit, history>>

\* ensure-aws-target.sh
EnsureTarget(t) ==
  /\ Do(t, "target")
  /\ targets' = [targets EXCEPT ![At(t)] = @ \cup {Who(t)}]
  /\ UNCHANGED <<home, makes, config, state, env, account, visit, history>>

\* Mutant: names without the suffix, those of the first who deployed.
PlainName(w) == First
OwnName(w) == w

\* render_agentcore_config.py <id> gateways: the Lambda ARNs are outputs of the
\* tools stack.
RenderGateways(t) ==
  LET w == Who(t)
      c == At(t)
  IN  /\ Do(t, "gateways") /\ cdk[w] # 0
      /\ config' = [config EXCEPT ![c] = [names |-> OwnName(w), made |-> None]]
      /\ UNCHANGED <<home, makes, targets, state, env, account, visit, history>>

\* Mutants: the prompt keeps its literal URL, harness.json its literal ARN; the
\* URL is lost.
NoUrl(c, w) == [gateway |-> <<w, state[c][w].gateway>>, desk |-> None]
LiteralUrl(c, w) == [gateway |-> <<w, state[c][w].gateway>>, desk |-> <<First, 1>>]
LiteralArn(c, w) == [gateway |-> <<First, 1>>, desk |-> <<w, cdk[w]>>]

\* The prompt with the deal desk's URL, harness.json with the gateways' ARNs.
Render(c, w) == [gateway |-> <<w, state[c][w].gateway>>, desk |-> <<w, cdk[w]>>]

\* render_agentcore_config.py <id> harnesses: fails without a deployed gateway of
\* the participant's name.
RenderHarnesses(t) ==
  LET w == Who(t)
      c == At(t)
  IN  /\ Do(t, "harnesses") /\ cdk[w] # 0 /\ state[c][w] # None /\ state[c][w].names = w
      /\ config' = [config EXCEPT ![c] = [names |-> OwnName(w), made |-> Render(c, w)]]
      /\ UNCHANGED <<home, makes, targets, state, env, account, visit, history>>

NameTaken(w, name) == \E x \in Participant \ {w} : stack[x] # None /\ stack[x].names = name

\* agentcore deploy --target <id>: CloudFormation keeps what has the same name,
\* makes what is new and deletes what is no longer there; it fails as a whole if a
\* name is taken.
Push(t) ==
  LET w == Who(t)
      c == At(t)
      name == config[c].names
      old == stack[w]
      same == old # None /\ old.names = name
      made == config[c].made
      gateway == IF same THEN old.gateway ELSE Draw(UsedGateways(w))
      harness == IF made = None THEN 0
                 ELSE IF same /\ old.harness # 0 THEN old.harness ELSE Draw(UsedHarnesses(w))
  IN  /\ Do(t, "push") /\ w \in targets[c] /\ ~NameTaken(w, name)
      /\ CanDraw(UsedGateways(w)) /\ CanDraw(UsedHarnesses(w))
      /\ stack' = [stack EXCEPT ![w] =
           [names |-> name, gateway |-> gateway, harness |-> harness, made |-> made]]
      /\ state' = [state EXCEPT ![c][w] = [names |-> name, gateway |-> gateway]]
      /\ torn' = IF made = None THEN torn \ {w} ELSE torn
      /\ UNCHANGED <<home, makes, config, targets, env, cdk, visit, crossed>>

-----------------------------------------------------------------------------
\* destroy: the AgentCore stack, the target (remove-aws-target.sh), the CDK stacks.
DeleteStack(t) ==
  LET w == Who(t)
  IN  /\ Do(t, "delete")
      /\ stack' = [stack EXCEPT ![w] = None]
      /\ torn' = torn \cup {w}
      /\ UNCHANGED <<home, makes, files, cdk, visit, crossed>>

\* Mutant: every target is dropped, as agentcore remove all does.
RemoveAll(c, w) == Participant
RemoveOwn(c, w) == {w}

RemoveTarget(t) ==
  LET c == At(t)
      gone == RemoveOwn(c, Who(t))
  IN  /\ Do(t, "untarget")
      /\ targets' = [targets EXCEPT ![c] = @ \ gone]
      /\ state' = [state EXCEPT ![c] = [x \in Participant |-> IF x \in gone THEN None ELSE @[x]]]
      /\ torn' = torn \ {Who(t)}
      /\ UNCHANGED <<home, makes, config, env, account, visit, crossed>>

CdkDestroy(t) ==
  /\ Do(t, "uncdk")
  /\ cdk' = [cdk EXCEPT ![Who(t)] = 0]
  /\ UNCHANGED <<home, makes, files, stack, visit, history>>

\* wire-backend-env.sh, and make dev with what it wrote.
WireBackend(w) ==
  LET c == home[w]
  IN  /\ state[c][w] # None /\ cdk[w] # 0
      /\ stack[w] # None /\ stack[w].harness # 0
      /\ env' = [env EXCEPT ![c] = [id |-> w, harness |-> <<w, stack[w].harness>>]]
      /\ visit' = [visit EXCEPT ![c] = None]
      /\ UNCHANGED <<home, job, met, makes, config, targets, state, account, history>>

-----------------------------------------------------------------------------
\* The broker's agent at the deal desk that its prompt names.
Alive(c) ==
  /\ env[c] # None
  /\ stack[env[c].harness[1]] # None
  /\ stack[env[c].harness[1]].harness = env[c].harness[2]

Prompt(c) == stack[env[c].harness[1]].made.desk

Reachable(url) == url[2] # 0 /\ cdk[url[1]] = url[2]

\* With the credentials of get_legacy_credentials, from the table of the
\* backend's own id.  At another participant's desk they may match too, if the
\* two were seeded from one secret.
DeskLogin(c) ==
  /\ Alive(c) /\ cdk[env[c].id] # 0 /\ Reachable(Prompt(c))
  /\ visit' = [visit EXCEPT ![c] = Prompt(c)]
  /\ UNCHANGED <<home, job, met, makes, files, account, history>>

\* /logout, or _COOKIE_TTL_SECONDS: an old cookie counts as none.
CookieGone(c) ==
  /\ visit[c] # None /\ visit' = [visit EXCEPT ![c] = None]
  /\ UNCHANGED <<home, job, met, makes, files, account, history>>

\* ?listing= gets records of the desk's own table, not the login page.
Serves(c) == Alive(c) /\ Reachable(Prompt(c)) /\ visit[c] = Prompt(c)

WorkshopNext ==
  \/ \E w \in Participant :
       \/ WireBackend(w)
       \/ \E t \in Terminal, make \in Make : MakeStart(t, w, make)
  \/ \E t \in Terminal :
       \/ CdkDeploy(t) \/ EnsureTarget(t) \/ RenderGateways(t) \/ RenderHarnesses(t) \/ Push(t)
       \/ DeleteStack(t) \/ RemoveTarget(t) \/ CdkDestroy(t) \/ MakeFails(t)
  \/ \E c \in Checkout : DeskLogin(c) \/ CookieGone(c)

WorkshopSpec == WorkshopInit /\ [][WorkshopNext]_workshopVars

-----------------------------------------------------------------------------
\* "Participants never collide" (Makefile:30-31), where it is so: in a checkout in
\* which no two makes have ever run at a time, a stack holds only names of its own
\* participant and no deployment fails on a name, although one agentcore.json serves
\* all who work there, and whatever makes were broken off.  In one where two did,
\* a stack may hold the names of another participant of that checkout (README.md:
\* 163-165), of nobody else.
OwnNames ==
  /\ \A w \in Participant : stack[w] # None =>
       /\ home[stack[w].names] = home[w]
       /\ home[w] \notin crossed => stack[w].names = w
  /\ \A t \in Terminal :
       job[t] # None /\ Head(job[t].todo) = "push" /\ At(t) \notin crossed =>
         ~NameTaken(Who(t), config[At(t)].names)

\* A broker sees records of the own workshop only, through render, deploy and
\* wiring, with destroys and new bootstraps between any two
\* (render_agentcore_config.py:37-44), unless two makes have run at a time in the
\* checkout: then they may be those of another participant who works in it, of
\* nobody else.
PageIsOwn ==
  \A c \in Checkout : Serves(c) =>
    /\ home[Prompt(c)[1]] = home[env[c].id]
    /\ home[env[c].id] \notin crossed => Prompt(c)[1] = env[c].id

\* The literal gatewayArn of a harness is that of its own stack's gateway
\* (Makefile:33-38).  Two things may make it another's or a dead one: makes that
\* ran at a time in the checkout; and a deployed-state.json that was left behind by
\* a destroy that was broken off, or came with the repository (a deploy after that,
\* before a bootstrap has made new gateways, renders the ARN of one that is gone).
GatewaysLive ==
  \A w \in Participant :
    stack[w] # None /\ stack[w].harness # 0 /\ w \notin torn /\ home[w] \notin crossed =>
      stack[w].made.gateway = <<w, stack[w].gateway>>

\* A bootstrap that comes to its end and was the only make in its checkout repairs
\* whatever earlier makes left, broken off or run at a time: the harness has its own
\* names and refers to the gateway and the deal desk there are now.
BootstrapRepairs ==
  [][\A t \in Terminal :
       Push(t) /\ job[t].make = "bootstrap" /\ job'[t] = None /\ t \notin met =>
         LET w == Who(t)
         IN  /\ stack'[w].names = w
             /\ stack'[w].made = [gateway |-> <<w, stack'[w].gateway>>, desk |-> <<w, cdk[w]>>]
    ]_workshopVars

\* "This removes only your own resources" (README.md:123): a destroy takes nothing
\* from others in the account; nor, if it was the only make in its checkout, from
\* the files, and at its end nothing of its own is left.
DestroyIsOwn ==
  [][\A t \in Terminal :
       (DeleteStack(t) \/ RemoveTarget(t) \/ CdkDestroy(t)) =>
         LET w == Who(t)
             c == At(t)
         IN  /\ \A x \in Participant \ {w} : stack'[x] = stack[x] /\ cdk'[x] = cdk[x]
             /\ t \notin met =>
                  /\ \A x \in Participant \ {w}, d \in Checkout :
                       state'[d][x] = state[d][x] /\ (x \in targets[d] => x \in targets'[d])
                  /\ job'[t] = None =>
                       stack'[w] = None /\ cdk'[w] = 0 /\ w \notin targets'[c] /\ state'[c][w] = None
    ]_workshopVars

\* "Redeploy just the harness layer": a deploy in a checkout where no two makes have
\* run at a time leaves every wired backend with the harness it has.
DeployKeepsBackends ==
  [][\A t \in Terminal :
       Push(t) /\ job[t].make = "deploy" /\ At(t) \notin crossed =>
         \A d \in Checkout : Alive(d) => Alive(d)'
    ]_workshopVars

\* "Participants never collide", in full: with one account, shared checkouts and
\* files, and makes that stop anywhere, everyone's deployment goes the way it would
\* if there were nobody else (Makefile:30-38), but for those who work in a checkout
\* where two makes have run at a time; they disturb each other and nobody else.
Muddled == {w \in Participant : home[w] \in crossed}
Copies == INSTANCE OwnCopies WITH Backend <- Checkout, desk <- cdk, muddled <- Muddled
ImplementsCopies == Copies!Spec
==============================================================================
