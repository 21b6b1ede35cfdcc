---------------------------- MODULE Workshop_proofs ----------------------------
(***************************************************************************)
(* Theorems about Workshop, for any number of participants, checkouts and  *)
(* makes.                                                                  *)
(***************************************************************************)
EXTENDS Workshop, SequenceTheorems, TLAPS

USE FirstAssumption, BoundAssumption, NoneAssumption

-----------------------------------------------------------------------------
\* What may be left of a make.
Left(make) ==
  CASE make = "bootstrap" -> {<<"cdk", "target", "gateways", "push", "harnesses", "push">>,
                              <<"target", "gateways", "push", "harnesses", "push">>,
                              <<"gateways", "push", "harnesses", "push">>,
                              <<"push", "harnesses", "push">>,
                              <<"harnesses", "push">>, <<"push">>}
    [] make = "deploy"    -> {<<"harnesses", "push">>, <<"push">>}
    [] make = "destroy"   -> {<<"delete", "untarget", "uncdk">>, <<"untarget", "uncdk">>, <<"uncdk">>}

\* Their heads and tails, one by one.
LEMMA Heads ==
  /\ Head(<<"cdk", "target", "gateways", "push", "harnesses", "push">>) = "cdk"
  /\ Head(<<"target", "gateways", "push", "harnesses", "push">>) = "target"
  /\ Head(<<"gateways", "push", "harnesses", "push">>) = "gateways"
  /\ Head(<<"push", "harnesses", "push">>) = "push"
  /\ Head(<<"harnesses", "push">>) = "harnesses"
  /\ Head(<<"push">>) = "push"
  /\ Head(<<"delete", "untarget", "uncdk">>) = "delete"
  /\ Head(<<"untarget", "uncdk">>) = "untarget"
  /\ Head(<<"uncdk">>) = "uncdk"
  OBVIOUS

LEMMA Tails ==
  /\ Tail(<<"cdk", "target", "gateways", "push", "harnesses", "push">>)
       = <<"target", "gateways", "push", "harnesses", "push">>
  /\ Tail(<<"target", "gateways", "push", "harnesses", "push">>)
       = <<"gateways", "push", "harnesses", "push">>
  /\ Tail(<<"gateways", "push", "harnesses", "push">>) = <<"push", "harnesses", "push">>
  /\ Tail(<<"push", "harnesses", "push">>) = <<"harnesses", "push">>
  /\ Tail(<<"harnesses", "push">>) = <<"push">>
  /\ Tail(<<"push">>) = <<>>
  /\ Tail(<<"delete", "untarget", "uncdk">>) = <<"untarget", "uncdk">>
  /\ Tail(<<"untarget", "uncdk">>) = <<"uncdk">>
  /\ Tail(<<"uncdk">>) = <<>>
  OBVIOUS

LEMMA StepsOf ==
  /\ Steps("bootstrap") = <<"cdk", "target", "gateways", "push", "harnesses", "push">>
  /\ Steps("deploy") = <<"harnesses", "push">>
  /\ Steps("destroy") = <<"delete", "untarget", "uncdk">>
  <1>1. Steps("bootstrap") = <<"cdk", "target", "gateways", "push", "harnesses", "push">>
    <2> DEFINE a == <<"cdk", "target">>
               b == <<"gateways", "push", "harnesses", "push">>
               c == <<"cdk", "target", "gateways", "push", "harnesses", "push">>
    <2>1. a \in Seq(StepName) /\ b \in Seq(StepName) /\ c \in Seq(StepName)
      BY DEF StepName
    <2>2. Len(a) = 2 /\ Len(b) = 4 /\ Len(c) = 6
      OBVIOUS
    <2>3. \A i \in 1..6 : (a \o b)[i] = c[i]
      OBVIOUS
    <2>4. a \o b \in Seq(StepName) /\ Len(a \o b) = 6
      BY <2>1, <2>2, ConcatProperties
    <2>5. a \o b = c
      <3> HIDE DEF a, b, c
      <3> QED
        BY <2>1, <2>2, <2>3, <2>4, SeqEqual
    <2> QED
      BY <2>5 DEF Steps, TwoPhases
  <1>2. Steps("deploy") = <<"harnesses", "push">>
    BY DEF Steps, OnePhase
  <1>3. Steps("destroy") = <<"delete", "untarget", "uncdk">>
    BY DEF Steps
  <1> QED
    BY <1>1, <1>2, <1>3

LEMMA StepsAreLeft ==
  ASSUME NEW make \in Make
  PROVE  Steps(make) \in Left(make)
  BY StepsOf, Zenon DEF Left, Make

LEMMA LeftTypes ==
  ASSUME NEW make \in Make, NEW todo \in Left(make)
  PROVE  todo \in Seq(StepName) /\ todo # <<>>
  <1>1. /\ <<"cdk", "target", "gateways", "push", "harnesses", "push">> \in Seq(StepName)
        /\ <<"target", "gateways", "push", "harnesses", "push">> \in Seq(StepName)
        /\ <<"gateways", "push", "harnesses", "push">> \in Seq(StepName)
        /\ <<"push", "harnesses", "push">> \in Seq(StepName)
        /\ <<"harnesses", "push">> \in Seq(StepName)
        /\ <<"push">> \in Seq(StepName)
        /\ <<"delete", "untarget", "uncdk">> \in Seq(StepName)
        /\ <<"untarget", "uncdk">> \in Seq(StepName)
        /\ <<"uncdk">> \in Seq(StepName)
    BY DEF StepName
  <1>2. /\ <<"cdk", "target", "gateways", "push", "harnesses", "push">> # <<>>
        /\ <<"target", "gateways", "push", "harnesses", "push">> # <<>>
        /\ <<"gateways", "push", "harnesses", "push">> # <<>>
        /\ <<"push", "harnesses", "push">> # <<>>
        /\ <<"harnesses", "push">> # <<>>
        /\ <<"push">> # <<>>
        /\ <<"delete", "untarget", "uncdk">> # <<>>
        /\ <<"untarget", "uncdk">> # <<>>
        /\ <<"uncdk">> # <<>>
    OBVIOUS
  <1> QED
    BY <1>1, <1>2, Zenon DEF Left, Make

LEMMA LeftGoesOn ==
  ASSUME NEW make \in Make, NEW todo \in Left(make)
  PROVE  /\ Tail(todo) = <<>> \/ Tail(todo) \in Left(make)
         /\ Head(todo) = "delete" => Tail(todo) = <<"untarget", "uncdk">>
         /\ Head(todo) = "untarget" => todo = <<"untarget", "uncdk">> /\ Tail(todo) = <<"uncdk">>
         /\ Head(todo) = "uncdk" => todo = <<"uncdk">> /\ make = "destroy" /\ Tail(todo) = <<>>
         /\ Head(todo) = "cdk" => Tail(todo) = <<"target", "gateways", "push", "harnesses", "push">>
         /\ Head(todo) = "target" => Tail(todo) = <<"gateways", "push", "harnesses", "push">>
         /\ Head(todo) = "gateways" => Tail(todo) = <<"push", "harnesses", "push">>
         /\ Head(todo) = "harnesses" => todo = <<"harnesses", "push">> /\ Tail(todo) = <<"push">>
         /\ Head(todo) = "push" =>
              \/ /\ make = "bootstrap" /\ todo = <<"push", "harnesses", "push">>
                 /\ Tail(todo) = <<"harnesses", "push">>
              \/ make \in {"bootstrap", "deploy"} /\ todo = <<"push">> /\ Tail(todo) = <<>>
         /\ make = "destroy" => Head(todo) \in {"delete", "untarget", "uncdk"}
         /\ Head(todo) \in {"delete", "untarget", "uncdk"} => make = "destroy"
  <1>1. CASE make = "bootstrap"
    <2>1. CASE todo = <<"push">>
      BY <1>1, <2>1, Heads, Tails, Zenon DEF Left
    <2>2. CASE todo = <<"push", "harnesses", "push">>
      <3>1. <<"push", "harnesses", "push">> # <<"push">>
        OBVIOUS
      <3> QED
        BY <1>1, <2>2, <3>1, Heads, Tails DEF Left
    <2>3. CASE todo \notin {<<"push">>, <<"push", "harnesses", "push">>}
      <3>1. todo \in {<<"cdk", "target", "gateways", "push", "harnesses", "push">>,
                      <<"target", "gateways", "push", "harnesses", "push">>,
                      <<"gateways", "push", "harnesses", "push">>, <<"harnesses", "push">>}
        BY <1>1, <2>3, Zenon DEF Left
      <3> QED
        BY <1>1, <3>1, Heads, Tails DEF Left
    <2> QED
      BY <2>1, <2>2, <2>3
  <1>2. CASE make = "deploy"
    BY <1>2, Heads, Tails, Zenon DEF Left
  <1>3. CASE make = "destroy"
    BY <1>3, Heads, Tails, Zenon DEF Left
  <1> QED
    BY <1>1, <1>2, <1>3, Zenon DEF Make

-----------------------------------------------------------------------------
\* How far a make has come that was the only one in its checkout.
Prepared(c, w, make, todo) ==
  /\ Head(todo) = "push" => config[c].names = w
  /\ todo = <<"push", "harnesses", "push">> => config[c].made = None
  /\ todo = <<"push">> => state[c][w] # None /\ config[c].made = Render(c, w)
  /\ make = "bootstrap" /\ todo \in {<<"harnesses", "push">>, <<"push">>} =>
       /\ stack[w] # None /\ stack[w].names = w
       /\ state[c][w] # None /\ stack[w].gateway = state[c][w].gateway
  /\ todo \in {<<"untarget", "uncdk">>, <<"uncdk">>} => stack[w] = None
  /\ todo = <<"uncdk">> => w \notin targets[c] /\ state[c][w] = None

Jobs ==
  \A t \in Terminal : job[t] # None =>
    /\ job[t].todo \in Left(job[t].make)
    /\ t \notin met => Prepared(At(t), Who(t), job[t].make, job[t].todo)
    /\ Head(job[t].todo) = "push" => home[config[At(t)].names] = At(t)

\* Makes that run in one checkout know of it, and so does the checkout.
Meet ==
  /\ \A s, t \in Terminal :
       s # t /\ job[s] # None /\ job[t] # None /\ At(s) = At(t) => s \in met
  /\ \A t \in met : job[t] # None /\ At(t) \in crossed

\* A stack is its participant's own, the deal desk of its prompt included.
OwnStack(w) ==
  stack[w] # None =>
    /\ stack[w].names = w
    /\ stack[w].made # None => stack[w].made.desk[1] = w

\* The checkout knows the gateway there is, but for those in torn, and the
\* harness was given it.
Known(w) ==
  w \notin torn =>
    /\ state[home[w]][w] = IF stack[w] = None THEN None
                           ELSE [names |-> w, gateway |-> stack[w].gateway]
    /\ stack[w] # None /\ stack[w].harness # 0 =>
         stack[w].made.gateway = <<w, stack[w].gateway>>

\* However makes cross, a stack is of somebody of the same checkout.
Within(w) ==
  stack[w] # None =>
    /\ home[stack[w].names] = home[w]
    /\ stack[w].harness # 0 => stack[w].made # None
    /\ stack[w].made # None => home[stack[w].made.desk[1]] = home[w]

Rendered(c) == config[c].made # None => home[config[c].made.desk[1]] = c

\* A backend is wired to a harness of its own participant.
Wired(c) == env[c] # None => env[c].harness[1] = env[c].id /\ env[c].harness[2] # 0

WInv ==
  /\ WorkshopTypeOK /\ Jobs /\ Meet
  /\ \A w \in Participant : Within(w) /\ (home[w] \notin crossed => OwnStack(w) /\ Known(w))
  /\ \A c \in Checkout : Rendered(c) /\ Wired(c)

MakeStep(t) ==
  \/ CdkDeploy(t) \/ EnsureTarget(t) \/ RenderGateways(t) \/ RenderHarnesses(t) \/ Push(t)
  \/ DeleteStack(t) \/ RemoveTarget(t) \/ CdkDestroy(t)

\* A make touches the files of its checkout, in them the entries of its
\* participant, and what that one has in the account.
LEMMA StepIsLocal ==
  ASSUME WorkshopTypeOK, NEW t \in Terminal, NEW w \in Participant, NEW c \in Checkout,
         job[t].who = w, home[w] = c, MakeStep(t)
  PROVE  /\ home' = home /\ makes' = makes /\ env' = env /\ visit' = visit /\ crossed' = crossed
         /\ \A s \in Terminal \ {t} : job'[s] = job[s] /\ (s \in met' <=> s \in met)
         /\ \A d \in Checkout \ {c} : /\ config'[d] = config[d]
                                      /\ targets'[d] = targets[d] /\ state'[d] = state[d]
         /\ config'[c].names \in {config[c].names, w}
         /\ \A x \in Participant \ {w} : /\ stack'[x] = stack[x] /\ cdk'[x] = cdk[x]
                                         /\ state'[c][x] = state[c][x] /\ (x \in torn' <=> x \in torn)
  <1>1. PICK step : Do(t, step)
    BY DEF MakeStep, CdkDeploy, EnsureTarget, RenderGateways, RenderHarnesses, Push, DeleteStack,
           RemoveTarget, CdkDestroy
  <1>2. \A s \in Terminal \ {t} : job'[s] = job[s] /\ (s \in met' <=> s \in met)
    BY <1>1 DEF Do, Ends, WorkshopTypeOK
  <1>3. CASE CdkDeploy(t)
    BY <1>2, <1>3 DEF CdkDeploy, files, history, Who, WorkshopTypeOK
  <1>4. CASE EnsureTarget(t)
    BY <1>2, <1>4 DEF EnsureTarget, account, history, Who, At, WorkshopTypeOK
  <1>5. CASE RenderGateways(t)
    BY <1>2, <1>5 DEF RenderGateways, OwnName, account, history, Who, At, WorkshopTypeOK
  <1>6. CASE RenderHarnesses(t)
    BY <1>2, <1>6 DEF RenderHarnesses, OwnName, account, history, Who, At, WorkshopTypeOK
  <1>7. CASE Push(t)
    BY <1>2, <1>7 DEF Push, Who, At, WorkshopTypeOK
  <1>8. CASE DeleteStack(t)
    BY <1>2, <1>8 DEF DeleteStack, files, Who, WorkshopTypeOK
  <1>9. CASE RemoveTarget(t)
    BY <1>2, <1>9 DEF RemoveTarget, RemoveOwn, account, Who, At, WorkshopTypeOK
  <1>10. CASE CdkDestroy(t)
    BY <1>2, <1>10 DEF CdkDestroy, files, history, Who, WorkshopTypeOK
  <1> QED
    BY <1>3, <1>4, <1>5, <1>6, <1>7, <1>8, <1>9, <1>10 DEF MakeStep

\* A make of w in t and its checkout c that has todo before it takes the first step
\* of it.
Moves(t, c, w, make, todo, left) ==
  /\ job[t] = [who |-> w, make |-> make, todo |-> todo] /\ job[t] # None
  /\ home[w] = c /\ (c \notin crossed => t \notin met)
  /\ t \notin met => Prepared(c, w, make, todo)
  /\ Head(todo) = "push" => home[config[c].names] = c
  /\ todo \in Left(make) /\ left = Tail(todo)
  /\ \/ left = <<>> /\ job'[t] = None /\ t \notin met'
     \/ /\ left \in Left(make) /\ job'[t] = [who |-> w, make |-> make, todo |-> left]
        /\ job'[t] # None /\ (t \in met' <=> t \in met)

LEMMA JobIs ==
  ASSUME WInv, NEW t \in Terminal, job[t] # None
  PROVE  \E w \in Participant, make \in Make, todo \in Seq(StepName) :
           job[t] = [who |-> w, make |-> make, todo |-> todo]
  BY DEF WInv, WorkshopTypeOK, Job

LEMMA JobGoesOn ==
  ASSUME WInv, NEW t \in Terminal, NEW step, Do(t, step)
  PROVE  \E c \in Checkout, w \in Participant, make \in Make,
            todo \in Seq(StepName), left \in Seq(StepName) :
           Moves(t, c, w, make, todo, left) /\ Head(todo) = step
  <1>1. job[t] # None
    BY DEF Do
  <1>2. PICK w \in Participant, make \in Make, todo \in Seq(StepName) :
          job[t] = [who |-> w, make |-> make, todo |-> todo]
    BY <1>1, JobIs
  <1>3. PICK c \in Checkout : c = home[w]
    BY DEF WInv, WorkshopTypeOK
  <1>4. /\ todo \in Left(make)
        /\ t \notin met => Prepared(c, w, make, todo)
        /\ Head(todo) = "push" => home[config[c].names] = c
    <2>1. Who(t) = w /\ At(t) = c /\ job[t].make = make /\ job[t].todo = todo
      BY <1>2, <1>3 DEF Who, At
    <2>2. /\ job[t].todo \in Left(job[t].make)
          /\ t \notin met => Prepared(At(t), Who(t), job[t].make, job[t].todo)
          /\ Head(job[t].todo) = "push" => home[config[At(t)].names] = At(t)
      BY <1>1, Zenon DEF WInv, Jobs
    <2> QED
      BY <2>1, <2>2, Zenon
  <1>5. c \notin crossed => t \notin met
    BY <1>2, <1>3 DEF WInv, Meet, Who, At
  <1>6. PICK left : left = Tail(todo)
    OBVIOUS
  <1>7. left = <<>> \/ left \in Left(make)
    BY <1>4, <1>6, LeftGoesOn, Zenon
  <1>8. left \in Seq(StepName)
    <2>1. <<>> \in Seq(StepName)
      OBVIOUS
    <2> QED
      BY <1>7, <2>1, LeftTypes, Zenon
  <1>9. job[t].todo = todo /\ [job[t] EXCEPT !.todo = left] = [who |-> w, make |-> make, todo |-> left]
    BY <1>2
  <1>10. [who |-> w, make |-> make, todo |-> left] # None
    BY <1>8 DEF Job
  <1>11. \/ left = <<>> /\ job'[t] = None /\ t \notin met'
         \/ /\ left \in Left(make) /\ job'[t] = [who |-> w, make |-> make, todo |-> left]
            /\ job'[t] # None /\ (t \in met' <=> t \in met)
    <2>1. CASE left = <<>>
      BY <1>6, <1>9, <2>1 DEF Do, Ends, WInv, WorkshopTypeOK
    <2>2. CASE left # <<>>
      <3>1. job' = [job EXCEPT ![t] = [job[t] EXCEPT !.todo = left]] /\ met' = met
        BY <1>6, <1>9, <2>2, Zenon DEF Do
      <3> QED
        BY <1>7, <1>9, <1>10, <2>2, <3>1 DEF WInv, WorkshopTypeOK
    <2> QED
      BY <2>1, <2>2
  <1>12. Head(todo) = step
    BY <1>9 DEF Do
  <1> QED
    BY <1>1, <1>2, <1>3, <1>4, <1>5, <1>6, <1>8, <1>11, <1>12, Zenon DEF Moves

LEMMA JobType ==
  ASSUME WInv, NEW t \in Terminal, NEW step, Do(t, step)
  PROVE  job' \in [Terminal -> Job \cup {None}] /\ met' \subseteq Terminal
  <1>1. PICK c \in Checkout, w \in Participant, make \in Make,
             todo \in Seq(StepName), left \in Seq(StepName) :
          Moves(t, c, w, make, todo, left)
    BY JobGoesOn
  <1>2. job'[t] \in {None, [who |-> w, make |-> make, todo |-> left]}
    BY <1>1, Zenon DEF Moves
  <1>3. job'[t] \in Job \cup {None}
    BY <1>2 DEF Job
  <1>4. \E v : job' = [job EXCEPT ![t] = v]
    BY DEF Do, Ends
  <1>5. met' \subseteq Terminal
    BY DEF Do, Ends, WInv, WorkshopTypeOK
  <1> QED
    BY <1>3, <1>4, <1>5 DEF WInv, WorkshopTypeOK

LEMMA JobKeeps ==
  ASSUME NEW c, NEW w, NEW make, NEW todo, Prepared(c, w, make, todo),
         config'[c] = config[c], state'[c][w] = state[c][w], targets'[c] = targets[c],
         stack'[w] = stack[w], cdk'[w] = cdk[w]
  PROVE  Prepared(c, w, make, todo)'
  BY DEF Prepared, Render

\* So what remains to be shown of a step is what it does to its own.
LEMMA OthersKeep ==
  ASSUME WInv, WorkshopTypeOK', NEW t \in Terminal, MakeStep(t),
         NEW c \in Checkout, NEW w \in Participant, NEW make \in Make, NEW todo, NEW left,
         Moves(t, c, w, make, todo, left),
         left \in Left(make) /\ t \notin met => Prepared(c, w, make, left)',
         left \in Left(make) /\ Head(left) = "push" => config'[c].names = w,
         Within(w)', Rendered(c)', c \notin crossed => OwnStack(w)' /\ Known(w)'
  PROVE  WInv'
  <1>1. /\ home' = home /\ env' = env /\ crossed' = crossed
        /\ \A s \in Terminal \ {t} : job'[s] = job[s] /\ (s \in met' <=> s \in met)
        /\ \A d \in Checkout \ {c} : /\ config'[d] = config[d]
                                     /\ targets'[d] = targets[d] /\ state'[d] = state[d]
        /\ config'[c].names \in {config[c].names, w}
        /\ \A x \in Participant \ {w} : /\ stack'[x] = stack[x] /\ cdk'[x] = cdk[x]
                                        /\ state'[c][x] = state[c][x] /\ (x \in torn' <=> x \in torn)
    <2>1. job[t].who = w /\ home[w] = c
      BY DEF Moves
    <2> QED
      BY <2>1, StepIsLocal DEF WInv
  <1>2. /\ home[w] = c /\ job[t] # None /\ At(t) = c
        /\ \/ job'[t] = None
           \/ job'[t] = [who |-> w, make |-> make, todo |-> left] /\ left \in Left(make)
        /\ t \in met' => t \in met
    BY DEF Moves, At, Who
  <1>3. Jobs'
    <2> SUFFICES ASSUME NEW s \in Terminal, job'[s] # None
                 PROVE  /\ job'[s].todo \in Left(job'[s].make)
                        /\ s \notin met' => Prepared(At(s), Who(s), job[s].make, job[s].todo)'
                        /\ Head(job'[s].todo) = "push" => home'[config'[At(s)'].names] = At(s)'
      BY DEF Jobs
    <2>1. CASE s = t
      <3>1. job'[s].who = w /\ job'[s].make = make /\ job'[s].todo = left /\ left \in Left(make)
        BY <1>2, <2>1
      <3>2. At(s)' = c /\ Who(s)' = w
        BY <1>1, <1>2, <3>1 DEF At, Who
      <3>3. t \notin met' => t \notin met
        BY <2>1, Zenon DEF Moves
      <3> QED
        BY <1>1, <1>2, <2>1, <3>1, <3>2, <3>3, Zenon
    <2>2. CASE s # t
      <3>1. job[s] # None /\ job'[s] = job[s] /\ (s \in met' <=> s \in met)
        BY <1>1, <2>2
      <3>2. PICK x \in Participant, m \in Make, rest \in Seq(StepName) :
              job[s] = [who |-> x, make |-> m, todo |-> rest]
        BY <3>1, JobIs
      <3>3. PICK d \in Checkout : d = home[x]
        BY DEF WInv, WorkshopTypeOK
      <3>4. At(s) = d /\ Who(s) = x /\ At(s)' = d /\ Who(s)' = x
        BY <1>1, <3>1, <3>2, <3>3 DEF At, Who
      <3>5. rest \in Left(m) /\ (s \notin met => Prepared(d, x, m, rest))
            /\ (Head(rest) = "push" => home[config[d].names] = d)
        BY <3>1, <3>2, <3>4 DEF WInv, Jobs
      <3>6. s \notin met => d # c
        BY <1>2, <2>2, <3>1, <3>4 DEF WInv, Meet
      <3>7. s \notin met' => Prepared(d, x, m, rest)'
        BY <1>1, <1>2, <3>1, <3>3, <3>5, <3>6, JobKeeps
      <3>8. config'[d].names \in {config[d].names, w} /\ (d # c => config'[d].names = config[d].names)
        BY <1>1
      <3>9. Head(rest) = "push" => home'[config'[d].names] = d
        BY <1>1, <1>2, <3>5, <3>8
      <3>10. job'[s].make = m /\ job'[s].todo = rest
        BY <3>1, <3>2
      <3> QED
        BY <3>4, <3>5, <3>7, <3>9, <3>10, Zenon
    <2> QED
      BY <2>1, <2>2
  <1>4. Meet'
    <2>1. \A s \in Terminal : job'[s] # None => job[s] # None /\ At(s)' = At(s)
      BY <1>1, <1>2 DEF At, Who
    <2>2. \A s \in Terminal : job'[s] # None /\ s \in met => s \in met'
      BY <1>1, <1>2 DEF Moves
    <2>3. \A s \in Terminal : s \in met' => job'[s] # None /\ s \in met
      BY <1>1, <1>2 DEF Moves, WInv, Meet
    <2>4. met' \subseteq Terminal
      BY DEF WorkshopTypeOK
    <2>5. ASSUME NEW s \in Terminal, NEW u \in Terminal, s # u, job'[s] # None, job'[u] # None,
                 At(s)' = At(u)'
          PROVE  s \in met'
      BY <2>1, <2>2, <2>5 DEF WInv, Meet
    <2>6. ASSUME NEW s \in met' PROVE job'[s] # None /\ At(s)' \in crossed'
      <3>1. s \in Terminal /\ s \in met /\ job'[s] # None
        BY <2>3, <2>4, <2>6
      <3>2. At(s) \in crossed
        BY <3>1 DEF WInv, Meet
      <3> QED
        BY <1>1, <2>1, <3>1, <3>2
    <2> QED
      BY <2>5, <2>6 DEF Meet
  <1>5. ASSUME NEW x \in Participant
        PROVE  Within(x)' /\ (home'[x] \notin crossed' => OwnStack(x)' /\ Known(x)')
    <2>1. CASE x = w
      BY <1>1, <1>2, <2>1, Zenon
    <2>2. CASE x # w
      <3>1. home[x] \in Checkout
        BY DEF WInv, WorkshopTypeOK
      <3>2. state'[home'[x]][x] = state[home[x]][x] /\ stack'[x] = stack[x]
        BY <1>1, <2>2, <3>1
      <3>3. x \in torn' <=> x \in torn
        BY <1>1, <2>2
      <3> QED
        BY <1>1, <3>2, <3>3 DEF WInv, OwnStack, Known, Within
    <2> QED
      BY <2>1, <2>2
  <1>6. ASSUME NEW d \in Checkout PROVE Rendered(d)' /\ Wired(d)'
    <2>1. Wired(d)'
      BY <1>1 DEF WInv, Wired
    <2>2. Rendered(d)'
      <3>1. CASE d = c
        BY <3>1
      <3>2. CASE d # c
        BY <1>1, <3>2 DEF WInv, Rendered
      <3> QED
        BY <3>1, <3>2
    <2> QED
      BY <2>1, <2>2
  <1> QED
    BY <1>3, <1>4, <1>5, <1>6 DEF WInv

-----------------------------------------------------------------------------
\* What is left of a make is told by its first step, but for a push.
LEMMA Apart ==
  /\ <<"push", "harnesses", "push">> # <<"push">>
  /\ \A left : Head(left) # "push" => left \notin {<<"push">>, <<"push", "harnesses", "push">>}
  /\ \A left : Head(left) # "harnesses" => left # <<"harnesses", "push">>
  /\ \A left : Head(left) # "untarget" => left # <<"untarget", "uncdk">>
  /\ \A left : Head(left) # "uncdk" => left # <<"uncdk">>
  <1>1. <<"push", "harnesses", "push">> # <<"push">>
    OBVIOUS
  <1> QED
    BY <1>1, Heads, Zenon

LEMMA Drawn ==
  ASSUME NEW used, CanDraw(used)
  PROVE  Draw(used) \in 1..MaxId /\ Draw(used) \in Id /\ Draw(used) # 0
  BY DEF CanDraw, Draw, Id

LEMMA OfMake ==
  ASSUME NEW t, NEW c, NEW w, NEW make, NEW todo, NEW left, Moves(t, c, w, make, todo, left)
  PROVE  Who(t) = w /\ At(t) = c /\ job[t].make = make /\ job[t].todo = todo
  BY DEF Moves, Who, At

\* What a make leaves alone stays as good as it was.
LEMMA StackKeeps ==
  ASSUME WInv, NEW w \in Participant, home' = home, stack'[w] = stack[w]
  PROVE  /\ Within(w)'
         /\ home[w] \notin crossed => OwnStack(w)'
         /\ home[w] \notin crossed /\ state'[home[w]][w] = state[home[w]][w]
              /\ (w \in torn' <=> w \in torn) => Known(w)'
  BY DEF WInv, Within, OwnStack, Known

LEMMA RenderedKeeps ==
  ASSUME WInv, NEW c \in Checkout, home' = home, config'[c] = config[c]
  PROVE  Rendered(c)'
  BY DEF WInv, Rendered

\* cdk deploy: nothing that is kept track of refers to the deal desk yet.
LEMMA CdkDeployKeeps ==
  ASSUME WInv, NEW t \in Terminal, CdkDeploy(t)
  PROVE  WInv'
  <1>1. Do(t, "cdk")
    BY DEF CdkDeploy
  <1>2. PICK c \in Checkout, w \in Participant, make \in Make,
             todo \in Seq(StepName), left \in Seq(StepName) :
          Moves(t, c, w, make, todo, left) /\ Head(todo) = "cdk"
    BY <1>1, JobGoesOn
  <1>3. Head(left) = "target"
    BY <1>2, LeftGoesOn, Heads, Zenon DEF Moves
  <1>4. UNCHANGED <<home, makes, config, targets, state, env, stack, visit, torn, crossed>>
    BY DEF CdkDeploy, files, history
  <1>5. WorkshopTypeOK'
    <2>1. cdk' \in [Participant -> Id]
      <3>1. cdk' = cdk \/ \E n \in Id : cdk' = [cdk EXCEPT ![Who(t)] = n]
        BY Drawn, Zenon DEF CdkDeploy
      <3> QED
        BY <3>1 DEF WInv, WorkshopTypeOK
    <2>2. job' \in [Terminal -> Job \cup {None}] /\ met' \subseteq Terminal
      BY <1>1, JobType
    <2> QED
      BY <1>4, <2>1, <2>2 DEF WInv, WorkshopTypeOK
  <1>6. Prepared(c, w, make, left)' /\ Head(left) # "push"
    BY <1>3, Apart, Zenon DEF Prepared
  <1>7. Within(w)' /\ Rendered(c)' /\ (c \notin crossed => OwnStack(w)' /\ Known(w)')
    BY <1>2, <1>4, StackKeeps, RenderedKeeps DEF Moves
  <1> QED
    BY <1>2, <1>5, <1>6, <1>7, OthersKeep DEF MakeStep

\* ensure-aws-target.sh.
LEMMA EnsureTargetKeeps ==
  ASSUME WInv, NEW t \in Terminal, EnsureTarget(t)
  PROVE  WInv'
  <1>1. Do(t, "target")
    BY DEF EnsureTarget
  <1>2. PICK c \in Checkout, w \in Participant, make \in Make,
             todo \in Seq(StepName), left \in Seq(StepName) :
          Moves(t, c, w, make, todo, left) /\ Head(todo) = "target"
    BY <1>1, JobGoesOn
  <1>3. Head(left) = "gateways"
    BY <1>2, LeftGoesOn, Heads, Zenon DEF Moves
  <1>4. UNCHANGED <<home, makes, config, state, env, cdk, stack, visit, torn, crossed>>
    BY DEF EnsureTarget, account, history
  <1>5. WorkshopTypeOK'
    <2>1. targets' = [targets EXCEPT ![c] = @ \cup {w}]
      BY <1>2, OfMake, Zenon DEF EnsureTarget
    <2>2. targets' \in [Checkout -> SUBSET Participant]
      BY <2>1 DEF WInv, WorkshopTypeOK
    <2>3. job' \in [Terminal -> Job \cup {None}] /\ met' \subseteq Terminal
      BY <1>1, JobType
    <2> QED
      BY <1>4, <2>2, <2>3 DEF WInv, WorkshopTypeOK
  <1>6. Prepared(c, w, make, left)' /\ Head(left) # "push"
    BY <1>3, Apart, Zenon DEF Prepared
  <1>7. Within(w)' /\ Rendered(c)' /\ (c \notin crossed => OwnStack(w)' /\ Known(w)')
    BY <1>2, <1>4, StackKeeps, RenderedKeeps DEF Moves
  <1> QED
    BY <1>2, <1>5, <1>6, <1>7, OthersKeep DEF MakeStep

\* render_agentcore_config.py <id> gateways: no harness is left in the file.
LEMMA RenderGatewaysKeeps ==
  ASSUME WInv, NEW t \in Terminal, RenderGateways(t)
  PROVE  WInv'
  <1>1. Do(t, "gateways")
    BY DEF RenderGateways
  <1>2. PICK c \in Checkout, w \in Participant, make \in Make,
             todo \in Seq(StepName), left \in Seq(StepName) :
          Moves(t, c, w, make, todo, left) /\ Head(todo) = "gateways"
    BY <1>1, JobGoesOn
  <1>3. Who(t) = w /\ At(t) = c /\ home[w] = c
    BY <1>2, OfMake DEF Moves
  <1>4. left = <<"push", "harnesses", "push">>
    BY <1>2, LeftGoesOn, Zenon DEF Moves
  <1>5. config' = [config EXCEPT ![c] = [names |-> w, made |-> None]]
    BY <1>3, Zenon DEF RenderGateways, OwnName
  <1>6. UNCHANGED <<home, makes, targets, state, env, cdk, stack, visit, torn, crossed>>
    BY DEF RenderGateways, account, history
  <1>7. config'[c].names = w /\ config'[c].made = None
    BY <1>5 DEF WInv, WorkshopTypeOK
  <1>8. WorkshopTypeOK'
    <2>1. config' \in [Checkout -> [names : Participant, made : Generated \cup {None}]]
      BY <1>5 DEF WInv, WorkshopTypeOK
    <2>3. job' \in [Terminal -> Job \cup {None}] /\ met' \subseteq Terminal
      BY <1>1, JobType
    <2> QED
      BY <1>6, <2>1, <2>3 DEF WInv, WorkshopTypeOK
  <1>9. Prepared(c, w, make, left)'
    <2>1. Head(left) = "push" /\ left # <<"push">> /\ "push" \notin {"harnesses", "untarget", "uncdk"}
      BY <1>4, Heads, Apart
    <2> QED
      BY <1>7, <2>1, Apart, Zenon DEF Prepared
  <1>10. Within(w)' /\ Rendered(c)' /\ (c \notin crossed => OwnStack(w)' /\ Known(w)')
    BY <1>3, <1>6, <1>7, StackKeeps DEF Rendered
  <1> QED
    BY <1>2, <1>7, <1>8, <1>9, <1>10, OthersKeep DEF MakeStep

\* render_agentcore_config.py <id> harnesses: with what there is at that moment.
LEMMA RenderHarnessesKeeps ==
  ASSUME WInv, NEW t \in Terminal, RenderHarnesses(t)
  PROVE  WInv'
  <1>1. Do(t, "harnesses")
    BY DEF RenderHarnesses
  <1>2. PICK c \in Checkout, w \in Participant, make \in Make,
             todo \in Seq(StepName), left \in Seq(StepName) :
          Moves(t, c, w, make, todo, left) /\ Head(todo) = "harnesses"
    BY <1>1, JobGoesOn
  <1>3. Who(t) = w /\ At(t) = c /\ home[w] = c
    BY <1>2, OfMake DEF Moves
  <1>4. todo = <<"harnesses", "push">> /\ left = <<"push">>
    BY <1>2, LeftGoesOn, Zenon DEF Moves
  <1>5. config' = [config EXCEPT ![c] = [names |-> w, made |-> Render(c, w)]] /\ state[c][w] # None
    BY <1>3, Zenon DEF RenderHarnesses, OwnName
  <1>6. UNCHANGED <<home, makes, targets, state, env, cdk, stack, visit, torn, crossed>>
    BY DEF RenderHarnesses, account, history
  <1>7. config'[c].names = w /\ config'[c].made = Render(c, w)
    BY <1>5 DEF WInv, WorkshopTypeOK
  <1>8. WorkshopTypeOK'
    <2>1. state[c][w] \in Deployed /\ cdk[w] \in Id
      BY <1>5 DEF WInv, WorkshopTypeOK
    <2>2. Render(c, w) \in Generated
      BY <2>1 DEF Render, Generated, Ref, Deployed
    <2>4. config' \in [Checkout -> [names : Participant, made : Generated \cup {None}]]
      BY <1>5, <2>2 DEF WInv, WorkshopTypeOK
    <2>3. job' \in [Terminal -> Job \cup {None}] /\ met' \subseteq Terminal
      BY <1>1, JobType
    <2> QED
      BY <1>6, <2>4, <2>3 DEF WInv, WorkshopTypeOK
  <1>9. t \notin met => Prepared(c, w, make, left)'
    <2> SUFFICES ASSUME t \notin met PROVE Prepared(c, w, make, left)'
      OBVIOUS
    <2>1. Render(c, w)' = Render(c, w)
      BY <1>6 DEF Render
    <2>2. make = "bootstrap" => stack[w] # None /\ stack[w].names = w /\ stack[w].gateway = state[c][w].gateway
      BY <1>2, <1>4, Zenon DEF Prepared, Moves
    <2>3. Head(left) = "push" /\ left # <<"push", "harnesses", "push">>
          /\ "push" \notin {"harnesses", "untarget", "uncdk"}
      BY <1>4, Heads, Apart
    <2> QED
      BY <1>5, <1>6, <1>7, <2>1, <2>2, <2>3, Apart, Zenon DEF Prepared
  <1>10. Rendered(c)'
    <2>1. config'[c].made.desk[1] = w
      BY <1>7 DEF Render
    <2> QED
      BY <1>3, <1>6, <2>1 DEF Rendered
  <1>11. Within(w)' /\ (c \notin crossed => OwnStack(w)' /\ Known(w)')
    BY <1>3, <1>6, StackKeeps
  <1> QED
    BY <1>2, <1>7, <1>8, <1>9, <1>10, <1>11, OthersKeep DEF MakeStep

\* delete-stack: from here on deployed-state.json names gateways that are gone.
LEMMA DeleteStackKeeps ==
  ASSUME WInv, NEW t \in Terminal, DeleteStack(t)
  PROVE  WInv'
  <1>1. Do(t, "delete")
    BY DEF DeleteStack
  <1>2. PICK c \in Checkout, w \in Participant, make \in Make,
             todo \in Seq(StepName), left \in Seq(StepName) :
          Moves(t, c, w, make, todo, left) /\ Head(todo) = "delete"
    BY <1>1, JobGoesOn
  <1>3. Who(t) = w /\ At(t) = c /\ home[w] = c
    BY <1>2, OfMake DEF Moves
  <1>4. left = <<"untarget", "uncdk">>
    BY <1>2, LeftGoesOn, Zenon DEF Moves
  <1>5. stack' = [stack EXCEPT ![w] = None] /\ torn' = torn \cup {w}
    BY <1>3, Zenon DEF DeleteStack
  <1>6. UNCHANGED <<home, makes, config, targets, state, env, cdk, visit, crossed>>
    BY DEF DeleteStack, files
  <1>7. stack'[w] = None /\ w \in torn'
    BY <1>5 DEF WInv, WorkshopTypeOK
  <1>8. WorkshopTypeOK'
    <2>1. stack' \in [Participant -> Stack \cup {None}] /\ torn' \subseteq Participant
      BY <1>5 DEF WInv, WorkshopTypeOK
    <2>3. job' \in [Terminal -> Job \cup {None}] /\ met' \subseteq Terminal
      BY <1>1, JobType
    <2> QED
      BY <1>6, <2>1, <2>3 DEF WInv, WorkshopTypeOK
  <1>9. Head(left) = "untarget" /\ "untarget" \notin {"push", "harnesses", "uncdk"}
    BY <1>4, Heads
  <1>10. Prepared(c, w, make, left)'
    BY <1>7, <1>9, Apart, Zenon DEF Prepared
  <1>11. Within(w)' /\ OwnStack(w)' /\ Known(w)' /\ Rendered(c)'
    BY <1>6, <1>7, RenderedKeeps DEF Within, OwnStack, Known
  <1> QED
    BY <1>2, <1>8, <1>9, <1>10, <1>11, OthersKeep DEF MakeStep

\* remove-aws-target.sh.
LEMMA RemoveTargetKeeps ==
  ASSUME WInv, NEW t \in Terminal, RemoveTarget(t)
  PROVE  WInv'
  <1>1. Do(t, "untarget")
    BY DEF RemoveTarget
  <1>2. PICK c \in Checkout, w \in Participant, make \in Make,
             todo \in Seq(StepName), left \in Seq(StepName) :
          Moves(t, c, w, make, todo, left) /\ Head(todo) = "untarget"
    BY <1>1, JobGoesOn
  <1>3. Who(t) = w /\ At(t) = c /\ home[w] = c
    BY <1>2, OfMake DEF Moves
  <1>4. todo = <<"untarget", "uncdk">> /\ left = <<"uncdk">>
    BY <1>2, LeftGoesOn, Zenon DEF Moves
  <1>5. /\ targets' = [targets EXCEPT ![c] = @ \ {w}]
        /\ state' = [state EXCEPT ![c] =
                       [x \in Participant |-> IF x \in {w} THEN None ELSE state[c][x]]]
        /\ torn' = torn \ {w}
    BY <1>3, Zenon DEF RemoveTarget, RemoveOwn
  <1>6. UNCHANGED <<home, makes, config, env, cdk, stack, visit, crossed>>
    BY DEF RemoveTarget, account
  <1>7. state'[c][w] = None /\ w \notin targets'[c]
    BY <1>5 DEF WInv, WorkshopTypeOK
  <1>8. WorkshopTypeOK'
    <2>1. targets' \in [Checkout -> SUBSET Participant] /\ torn' \subseteq Participant
      BY <1>5 DEF WInv, WorkshopTypeOK
    <2>2. state' \in [Checkout -> [Participant -> Deployed \cup {None}]]
      <3> DEFINE row == [x \in Participant |-> IF x \in {w} THEN None ELSE state[c][x]]
      <3>1. state \in [Checkout -> [Participant -> Deployed \cup {None}]]
        BY DEF WInv, WorkshopTypeOK
      <3>2. row \in [Participant -> Deployed \cup {None}]
        BY <3>1
      <3>3. state' = [state EXCEPT ![c] = row]
        BY <1>5
      <3> HIDE DEF row
      <3> QED
        BY <3>1, <3>2, <3>3
    <2>3. job' \in [Terminal -> Job \cup {None}] /\ met' \subseteq Terminal
      BY <1>1, JobType
    <2> QED
      BY <1>6, <2>1, <2>2, <2>3 DEF WInv, WorkshopTypeOK
  <1>9. t \notin met => stack[w] = None
    BY <1>2, <1>4, Zenon DEF Prepared, Moves
  <1>10. Head(left) = "uncdk" /\ "uncdk" \notin {"push", "harnesses", "untarget"}
    BY <1>4, Heads
  <1>11. t \notin met => Prepared(c, w, make, left)'
    BY <1>6, <1>7, <1>9, <1>10, Apart, Zenon DEF Prepared
  <1>12. c \notin crossed => OwnStack(w)' /\ Known(w)'
    <2>1. c \notin crossed => stack[w] = None
      BY <1>2, <1>9, Zenon DEF Moves
    <2> QED
      BY <1>3, <1>6, <1>7, <2>1 DEF OwnStack, Known
  <1>13. Within(w)' /\ Rendered(c)'
    BY <1>6, StackKeeps, RenderedKeeps
  <1> QED
    BY <1>2, <1>8, <1>10, <1>11, <1>12, <1>13, OthersKeep DEF MakeStep

\* cdk destroy ends the make.
LEMMA CdkDestroyKeeps ==
  ASSUME WInv, NEW t \in Terminal, CdkDestroy(t)
  PROVE  WInv'
  <1>1. Do(t, "uncdk")
    BY DEF CdkDestroy
  <1>2. PICK c \in Checkout, w \in Participant, make \in Make,
             todo \in Seq(StepName), left \in Seq(StepName) :
          Moves(t, c, w, make, todo, left) /\ Head(todo) = "uncdk"
    BY <1>1, JobGoesOn
  <1>3. Who(t) = w /\ At(t) = c /\ home[w] = c
    BY <1>2, OfMake DEF Moves
  <1>4. left \notin Left(make)
    <2>1. left = <<>>
      BY <1>2, LeftGoesOn, Zenon DEF Moves
    <2> QED
      BY <2>1, LeftTypes, Zenon
  <1>6. UNCHANGED <<home, makes, config, targets, state, env, stack, visit, torn, crossed>>
    BY DEF CdkDestroy, files, history
  <1>8. WorkshopTypeOK'
    <2>1. 0 \in Id
      BY DEF Id
    <2>2. cdk' \in [Participant -> Id]
      BY <2>1 DEF CdkDestroy, WInv, WorkshopTypeOK
    <2>3. job' \in [Terminal -> Job \cup {None}] /\ met' \subseteq Terminal
      BY <1>1, JobType
    <2> QED
      BY <1>6, <2>2, <2>3 DEF WInv, WorkshopTypeOK
  <1>9. Within(w)' /\ Rendered(c)' /\ (c \notin crossed => OwnStack(w)' /\ Known(w)')
    BY <1>3, <1>6, StackKeeps, RenderedKeeps
  <1> QED
    BY <1>2, <1>4, <1>8, <1>9, OthersKeep DEF MakeStep

\* agentcore deploy: what it makes of the stack, and what it makes it from.
Pushed(names, gateway, harness, made) ==
  [names |-> names, gateway |-> gateway, harness |-> harness, made |-> made]

LEMMA PushMakes ==
  ASSUME WInv, NEW t \in Terminal, NEW c \in Checkout, NEW w \in Participant, NEW make, NEW todo,
         NEW left, Push(t), Moves(t, c, w, make, todo, left),
         NEW name, name = config[c].names, NEW made, made = config[c].made
  PROVE  /\ name \in Participant /\ made \in Generated \cup {None}
         /\ torn' = IF made = None THEN torn \ {w} ELSE torn
         /\ UNCHANGED <<home, makes, config, targets, env, cdk, visit, crossed>>
         /\ \E gateway \in Id, harness \in Id :
              /\ stack' = [stack EXCEPT ![w] = Pushed(name, gateway, harness, made)]
              /\ state' = [state EXCEPT ![c][w] = [names |-> name, gateway |-> gateway]]
              /\ made = None <=> harness = 0
              /\ stack[w] # None /\ stack[w].names = name => gateway = stack[w].gateway
              /\ stack[w] = None => gateway # 0
              /\ stack[w] # None /\ stack[w].names = name /\ stack[w].harness # 0 /\ made # None =>
                   harness = stack[w].harness
  <1>1. Who(t) = w /\ At(t) = c
    BY OfMake
  <1>2. made \in Generated \cup {None} /\ name \in Participant /\ stack[w] \in Stack \cup {None}
    BY DEF WInv, WorkshopTypeOK
  <1>3. stack[w] # None => stack[w].gateway \in Id /\ stack[w].harness \in Id
    BY <1>2 DEF Stack
  <1> DEFINE same == stack[w] # None /\ stack[w].names = name
             drawn == Draw(UsedGateways(w))
             another == Draw(UsedHarnesses(w))
  <1>4. drawn \in Id /\ drawn # 0 /\ another \in Id /\ another # 0 /\ 0 \in Id
    BY <1>1, Drawn DEF Push, Id
  <1> DEFINE gateway == IF same THEN stack[w].gateway ELSE drawn
             harness == IF made = None THEN 0
                        ELSE IF same /\ stack[w].harness # 0 THEN stack[w].harness ELSE another
  <1>5. /\ stack' = [stack EXCEPT ![w] = Pushed(name, gateway, harness, made)]
        /\ state' = [state EXCEPT ![c][w] = [names |-> name, gateway |-> gateway]]
    BY <1>1, Zenon DEF Push, Pushed
  <1>6. torn' = IF made = None THEN torn \ {w} ELSE torn
    BY <1>1, Zenon DEF Push
  <1>7. UNCHANGED <<home, makes, config, targets, env, cdk, visit, crossed>>
    BY DEF Push
  <1>8. gateway \in Id /\ harness \in Id
    BY <1>3, <1>4
  <1>9. /\ made = None <=> harness = 0
        /\ stack[w] # None /\ stack[w].names = name => gateway = stack[w].gateway
        /\ stack[w] = None => gateway # 0
        /\ stack[w] # None /\ stack[w].names = name /\ stack[w].harness # 0 /\ made # None =>
             harness = stack[w].harness
    BY <1>4
  <1> HIDE DEF gateway, harness
  <1> QED
    BY <1>2, <1>5, <1>6, <1>7, <1>8, <1>9, Zenon

LEMMA PushKeeps ==
  ASSUME WInv, NEW t \in Terminal, Push(t)
  PROVE  WInv'
  <1>1. Do(t, "push")
    BY DEF Push
  <1>2. PICK c \in Checkout, w \in Participant, make \in Make,
             todo \in Seq(StepName), left \in Seq(StepName) :
          Moves(t, c, w, make, todo, left) /\ Head(todo) = "push"
    BY <1>1, JobGoesOn
  <1>3. Who(t) = w /\ At(t) = c /\ home[w] = c
    BY <1>2, OfMake DEF Moves
  <1>0. PICK name, made : name = config[c].names /\ made = config[c].made
    OBVIOUS
  <1>15. /\ name \in Participant /\ made \in Generated \cup {None}
         /\ torn' = IF made = None THEN torn \ {w} ELSE torn
         /\ UNCHANGED <<home, makes, config, targets, env, cdk, visit, crossed>>
    BY <1>0, <1>2, PushMakes
  <1>16. PICK gateway \in Id, harness \in Id :
          /\ stack' = [stack EXCEPT ![w] = Pushed(name, gateway, harness, made)]
          /\ state' = [state EXCEPT ![c][w] = [names |-> name, gateway |-> gateway]]
          /\ made = None <=> harness = 0
          /\ stack[w] # None /\ stack[w].names = name => gateway = stack[w].gateway
    BY <1>0, <1>2, PushMakes
  <1>4. /\ name = config[c].names /\ made = config[c].made
        /\ name \in Participant /\ made \in Generated \cup {None}
        /\ torn' = IF made = None THEN torn \ {w} ELSE torn
        /\ UNCHANGED <<home, makes, config, targets, env, cdk, visit, crossed>>
        /\ stack' = [stack EXCEPT ![w] = Pushed(name, gateway, harness, made)]
        /\ state' = [state EXCEPT ![c][w] = [names |-> name, gateway |-> gateway]]
        /\ made = None <=> harness = 0
        /\ stack[w] # None /\ stack[w].names = name => gateway = stack[w].gateway
    BY <1>0, <1>15, <1>16
  <1>5. PICK new : new = Pushed(name, gateway, harness, made)
    OBVIOUS
  <1>6. new \in Stack /\ [names |-> name, gateway |-> gateway] \in Deployed
    BY <1>4, <1>5 DEF Pushed, Stack, Deployed
  <1>7. /\ stack'[w] = new /\ new # None /\ new.names = name
        /\ new.gateway = gateway /\ new.harness = harness /\ new.made = made
        /\ state'[c][w] = [names |-> name, gateway |-> gateway] /\ state'[c][w] # None
    <2>1. stack'[w] = new /\ state'[c][w] = [names |-> name, gateway |-> gateway]
      BY <1>4, <1>5, <1>6 DEF WInv, WorkshopTypeOK
    <2>2. new.names = name /\ new.gateway = gateway /\ new.harness = harness /\ new.made = made
      BY <1>5 DEF Pushed
    <2> QED
      BY <1>6, <2>1, <2>2
  <1>8. WorkshopTypeOK'
    <2>1. stack' \in [Participant -> Stack \cup {None}]
      BY <1>4, <1>5, <1>6 DEF WInv, WorkshopTypeOK
    <2>2. state' \in [Checkout -> [Participant -> Deployed \cup {None}]] /\ torn' \subseteq Participant
      BY <1>4, <1>6 DEF WInv, WorkshopTypeOK
    <2>3. job' \in [Terminal -> Job \cup {None}] /\ met' \subseteq Terminal
      BY <1>1, JobType
    <2> QED
      BY <1>4, <2>1, <2>2, <2>3 DEF WInv, WorkshopTypeOK
  <1>9. t \notin met => name = w
    BY <1>2, <1>4, Zenon DEF Prepared, Moves
  <1>10. left \in Left(make) => left = <<"harnesses", "push">>
    BY <1>2, LeftGoesOn, LeftTypes, Zenon DEF Moves
  <1>11. left \in Left(make) => Head(left) = "harnesses" /\ "harnesses" \notin {"push", "untarget", "uncdk"}
    BY <1>10, Heads
  <1>12. left \in Left(make) /\ t \notin met => Prepared(c, w, make, left)'
    <2> SUFFICES ASSUME left \in Left(make), t \notin met PROVE Prepared(c, w, make, left)'
      OBVIOUS
    <2>1. stack'[w].gateway = state'[c][w].gateway /\ stack'[w].names = w /\ stack'[w] # None
      BY <1>7, <1>9
    <2> QED
      BY <1>7, <1>11, <2>1, Apart, Zenon DEF Prepared
  <1>13. Within(w)' /\ Rendered(c)'
    <2>1. home[name] = c /\ (made # None => home[made.desk[1]] = c)
      <3>1. home[name] = c
        BY <1>2, <1>4, Zenon DEF Moves
      <3>2. made # None => home[made.desk[1]] = c
        BY <1>4 DEF WInv, Rendered
      <3> QED
        BY <3>1, <3>2
    <2>2. Rendered(c)'
      BY <1>4, RenderedKeeps
    <2> QED
      BY <1>3, <1>4, <1>7, <2>1, <2>2 DEF Within
  <1>14. ASSUME c \notin crossed PROVE OwnStack(w)' /\ Known(w)'
    <2>1. t \notin met /\ name = w
      BY <1>2, <1>9, <1>14 DEF Moves
    <2>2. made # None => state[c][w] # None /\ made = Render(c, w)
      <3>1. todo = <<"push">> \/ todo = <<"push", "harnesses", "push">>
        BY <1>2, LeftGoesOn, Zenon DEF Moves
      <3> QED
        BY <1>2, <1>4, <2>1, <3>1, Zenon DEF Prepared, Moves
    <2>3. OwnStack(w)'
      BY <1>7, <2>1, <2>2 DEF OwnStack, Render
    <2>4. ASSUME w \notin torn', harness # 0 PROVE made.gateway = <<w, gateway>>
      <3>1. w \notin torn /\ made = Render(c, w) /\ state[c][w] # None
        BY <1>4, <2>2, <2>4
      <3>2. stack[w] # None /\ state[c][w] = [names |-> w, gateway |-> stack[w].gateway]
        BY <1>3, <1>14, <3>1 DEF WInv, Known
      <3>3. stack[w].names = w
        BY <1>3, <1>14, <3>2 DEF WInv, OwnStack
      <3> QED
        BY <1>4, <2>1, <3>1, <3>2, <3>3 DEF Render
    <2>5. Known(w)'
      BY <1>3, <1>4, <1>7, <2>1, <2>4 DEF Known
    <2> QED
      BY <2>3, <2>5
  <1> QED
    BY <1>2, <1>8, <1>11, <1>12, <1>13, <1>14, OthersKeep DEF MakeStep

-----------------------------------------------------------------------------
\* The files as they were checked in, and First's deployment if it still runs.
LEMMA WInvInit == WorkshopInit => WInv
  <1> SUFFICES ASSUME WorkshopInit PROVE WInv
    OBVIOUS
  <1>1. PICK running \in SUBSET {First} :
          /\ cdk = [w \in Participant |-> IF w \in running THEN 1 ELSE 0]
          /\ stack = [w \in Participant |-> IF w \notin running THEN None ELSE
               [names |-> w, gateway |-> 1, harness |-> 1,
                made |-> [gateway |-> <<w, 1>>, desk |-> <<w, 1>>]]]
          /\ torn = {First} \ running
    BY DEF WorkshopInit
  <1>2. 0 \in Id /\ 1 \in Id /\ 1 # 0
    BY DEF Id
  <1>3. \A w \in Participant :
          [names |-> w, gateway |-> 1, harness |-> 1,
           made |-> [gateway |-> <<w, 1>>, desk |-> <<w, 1>>]] \in Stack
    <2>1. \A w \in Participant : [gateway |-> <<w, 1>>, desk |-> <<w, 1>>] \in Generated
      BY <1>2 DEF Generated, Ref
    <2> QED
      BY <1>2, <2>1 DEF Stack
  <1>4. \A w \in Participant : [names |-> w, gateway |-> 1] \in Deployed
    BY <1>2 DEF Deployed
  <1>5. WorkshopTypeOK
    <2>1. stack \in [Participant -> Stack \cup {None}] /\ cdk \in [Participant -> Id]
      BY <1>1, <1>2, <1>3
    <2>2. state \in [Checkout -> [Participant -> Deployed \cup {None}]]
      BY <1>4 DEF WorkshopInit
    <2>3. torn \subseteq Participant /\ makes \in 0..MaxMakes
      BY <1>1 DEF WorkshopInit
    <2> QED
      BY <2>1, <2>2, <2>3 DEF WorkshopTypeOK, WorkshopInit
  <1>6. ASSUME NEW w \in Participant PROVE OwnStack(w) /\ Known(w) /\ Within(w)
    <2>1. /\ home[w] \in Checkout
          /\ state[home[w]][w] = IF w = First THEN [names |-> w, gateway |-> 1] ELSE None
      BY DEF WorkshopInit
    <2>2. CASE w \in running
      <3>1. stack[w] = [names |-> w, gateway |-> 1, harness |-> 1,
                        made |-> [gateway |-> <<w, 1>>, desk |-> <<w, 1>>]]
        BY <1>1, <2>2
      <3>2. stack[w] # None /\ w = First
        BY <1>3, <2>2, <3>1
      <3>3. /\ stack[w].names = w /\ stack[w].gateway = 1 /\ stack[w].harness = 1
            /\ stack[w].made.desk[1] = w /\ stack[w].made.gateway = <<w, 1>>
        BY <3>1
      <3>4. [gateway |-> <<w, 1>>, desk |-> <<w, 1>>] # None
        BY <1>2 DEF Generated, Ref
      <3>5. stack[w].made # None
        BY <3>1, <3>4
      <3> QED
        BY <2>1, <3>2, <3>3, <3>5 DEF OwnStack, Known, Within
    <2>3. CASE w \notin running
      BY <1>1, <2>1, <2>3 DEF OwnStack, Known, Within
    <2> QED
      BY <2>2, <2>3
  <1>7. Jobs /\ Meet
    BY DEF Jobs, Meet, WorkshopInit
  <1>8. \A c \in Checkout : Rendered(c) /\ Wired(c)
    BY DEF Rendered, Wired, WorkshopInit
  <1> QED
    BY <1>5, <1>6, <1>7, <1>8 DEF WInv

\* A make begins, and is no longer, nor leaves another one, the only one there.
LEMMA MakeStartKeeps ==
  ASSUME WInv, NEW t \in Terminal, NEW w \in Participant, NEW make \in Make, MakeStart(t, w, make)
  PROVE  WInv'
  <1>1. PICK todo : todo = Steps(make)
    OBVIOUS
  <1>2. todo \in Left(make) /\ todo \in Seq(StepName)
    BY <1>1, StepsAreLeft, LeftTypes
  <1>3. PICK c \in Checkout : c = home[w]
    BY DEF WInv, WorkshopTypeOK
  <1>4. PICK new : new = [who |-> w, make |-> make, todo |-> todo]
    OBVIOUS
  <1>5. new \in Job /\ new # None
    BY <1>2, <1>4 DEF Job
  <1>6. /\ job[t] = None /\ job' = [job EXCEPT ![t] = new]
        /\ makes < MaxMakes /\ makes' = makes + 1
        /\ UNCHANGED <<home, config, targets, state, env, cdk, stack, visit, torn>>
    BY <1>1, <1>4 DEF MakeStart, files, account
  <1>7. \/ MakesIn(c) = {} /\ met' = met /\ crossed' = crossed
        \/ MakesIn(c) # {} /\ met' = met \cup MakesIn(c) \cup {t} /\ crossed' = crossed \cup {c}
    BY <1>3 DEF MakeStart
  <1>8. WorkshopTypeOK'
    <2>1. job' \in [Terminal -> Job \cup {None}]
      BY <1>5, <1>6 DEF WInv, WorkshopTypeOK
    <2>2. makes' \in 0..MaxMakes
      BY <1>6 DEF WInv, WorkshopTypeOK
    <2>3. met' \subseteq Terminal /\ crossed' \subseteq Checkout
      BY <1>7 DEF MakesIn, WInv, WorkshopTypeOK
    <2> QED
      BY <1>6, <2>1, <2>2, <2>3 DEF WInv, WorkshopTypeOK
  <1>9. job'[t] = new /\ At(t)' = c /\ Who(t)' = w /\ new.make = make /\ new.todo = todo
    <2>1. job'[t] = new
      BY <1>6 DEF WInv, WorkshopTypeOK
    <2> QED
      BY <1>3, <1>4, <1>6, <2>1 DEF At, Who
  <1>10. \A s \in Terminal \ {t} : job'[s] = job[s] /\ At(s)' = At(s) /\ Who(s)' = Who(s)
    BY <1>6 DEF At, Who, WInv, WorkshopTypeOK
  <1>11. Prepared(c, w, make, todo)' /\ Head(todo) # "push"
    <2>1. \/ make = "bootstrap" /\ todo = <<"cdk", "target", "gateways", "push", "harnesses", "push">>
          \/ make = "deploy" /\ todo = <<"harnesses", "push">>
          \/ make = "destroy" /\ todo = <<"delete", "untarget", "uncdk">>
      BY <1>1, StepsOf, Zenon DEF Make
    <2>2. \/ make = "bootstrap" /\ Head(todo) = "cdk"
          \/ make = "deploy" /\ Head(todo) = "harnesses"
          \/ make = "destroy" /\ Head(todo) = "delete"
      BY <2>1, Heads, Zenon
    <2>3. Head(todo) \notin {"push", "untarget", "uncdk"}
      BY <2>2
    <2>4. make # "bootstrap" \/ Head(todo) # "harnesses"
      BY <2>2
    <2> QED
      BY <2>3, <2>4, Apart, Zenon DEF Prepared
  <1>12. met \subseteq met' /\ crossed \subseteq crossed'
    BY <1>7
  <1>13. Jobs'
    <2> SUFFICES ASSUME NEW s \in Terminal, job'[s] # None
                 PROVE  /\ job'[s].todo \in Left(job'[s].make)
                        /\ s \notin met' => Prepared(At(s), Who(s), job[s].make, job[s].todo)'
                        /\ Head(job'[s].todo) = "push" => home'[config'[At(s)'].names] = At(s)'
      BY DEF Jobs
    <2>1. CASE s = t
      BY <1>2, <1>9, <1>11, <2>1, Zenon
    <2>2. CASE s # t
      <3>1. job[s] # None /\ job'[s] = job[s] /\ At(s)' = At(s) /\ Who(s)' = Who(s)
        BY <1>10, <2>2
      <3>2. /\ job[s].todo \in Left(job[s].make)
            /\ s \notin met => Prepared(At(s), Who(s), job[s].make, job[s].todo)
            /\ Head(job[s].todo) = "push" => home[config[At(s)].names] = At(s)
        BY <3>1 DEF WInv, Jobs
      <3>3. ASSUME s \notin met' PROVE Prepared(At(s), Who(s), job[s].make, job[s].todo)'
        <4>1. Prepared(At(s), Who(s), job[s].make, job[s].todo)
          BY <1>12, <3>2, <3>3
        <4>2. PICK d, x, m, rest : d = At(s) /\ x = Who(s) /\ m = job[s].make /\ rest = job[s].todo
          OBVIOUS
        <4>3. Prepared(d, x, m, rest)
          BY <4>1, <4>2
        <4>4. Prepared(d, x, m, rest)'
          BY <1>6, <4>3, JobKeeps
        <4>5. d = At(s)' /\ x = Who(s)' /\ m = job'[s].make /\ rest = job'[s].todo
          BY <3>1, <4>2
        <4> QED
          BY <4>4, <4>5, Zenon
      <3> QED
        BY <1>6, <3>1, <3>2, <3>3, Zenon
    <2> QED
      BY <2>1, <2>2
  <1>14. Meet'
    <2>1. t \notin met
      BY <1>6 DEF WInv, Meet
    <2>2. ASSUME NEW s \in Terminal, NEW u \in Terminal, s # u, job'[s] # None, job'[u] # None,
                 At(s)' = At(u)'
          PROVE  s \in met'
      <3>1. CASE s # t /\ u # t
        BY <1>10, <1>12, <2>2, <3>1 DEF WInv, Meet
      <3>2. CASE s = t
        <4>1. u \in MakesIn(c)
          BY <1>9, <1>10, <2>2, <3>2 DEF MakesIn
        <4> QED
          BY <1>7, <3>2, <4>1
      <3>3. CASE u = t
        <4>1. s \in MakesIn(c)
          BY <1>9, <1>10, <2>2, <3>3 DEF MakesIn
        <4> QED
          BY <1>7, <4>1
      <3> QED
        BY <3>1, <3>2, <3>3
    <2>3. ASSUME NEW s \in met' PROVE job'[s] # None /\ At(s)' \in crossed'
      <3>0. s \in Terminal
        BY <1>8 DEF WorkshopTypeOK
      <3>1. CASE s = t
        BY <1>5, <1>7, <1>9, <2>1, <2>3, <3>1
      <3>2. CASE s # t
        <4>1. job'[s] = job[s] /\ At(s)' = At(s)
          BY <1>10, <3>0, <3>2
        <4>2. s \in met \/ (s \in MakesIn(c) /\ c \in crossed')
          BY <1>7, <2>3, <3>2
        <4>3. s \in met => job[s] # None /\ At(s) \in crossed
          BY DEF WInv, Meet
        <4>4. s \in MakesIn(c) => job[s] # None /\ At(s) = c
          BY DEF MakesIn
        <4> QED
          BY <1>12, <4>1, <4>2, <4>3, <4>4
      <3> QED
        BY <3>1, <3>2
    <2> QED
      BY <2>2, <2>3 DEF Meet
  <1>15. \A x \in Participant : Within(x)' /\ (home'[x] \notin crossed' => OwnStack(x)' /\ Known(x)')
    <2> SUFFICES ASSUME NEW x \in Participant
                 PROVE  Within(x)' /\ (home'[x] \notin crossed' => OwnStack(x)' /\ Known(x)')
      OBVIOUS
    <2>1. home'[x] \notin crossed' => home[x] \notin crossed
      BY <1>6, <1>12
    <2> QED
      BY <1>6, <2>1, StackKeeps
  <1>16. \A d \in Checkout : Rendered(d)' /\ Wired(d)'
    BY <1>6 DEF WInv, Rendered, Wired
  <1> QED
    BY <1>8, <1>13, <1>14, <1>15, <1>16 DEF WInv

\* A make that stops, and what is not a make.
LEMMA OtherStepsKeep ==
  ASSUME WInv, \/ \E t \in Terminal : MakeFails(t)
               \/ \E c \in Checkout : DeskLogin(c) \/ CookieGone(c)
               \/ \E w \in Participant : WireBackend(w)
               \/ UNCHANGED workshopVars
  PROVE  WInv'
  <1>1. /\ UNCHANGED <<home, makes, config, targets, state, cdk, stack, torn, crossed>>
        /\ (job' = job /\ met' = met) \/ \E t \in Terminal : Ends(t)
    BY DEF MakeFails, DeskLogin, CookieGone, WireBackend, files, account, history, workshopVars
  <1>2. env' = env \/ \E w \in Participant, n \in Id :
          n # 0 /\ env' = [env EXCEPT ![home[w]] = [id |-> w, harness |-> <<w, n>>]]
    <2>1. ASSUME NEW w \in Participant, WireBackend(w)
          PROVE  \E n \in Id : n # 0 /\ env' = [env EXCEPT ![home[w]] = [id |-> w, harness |-> <<w, n>>]]
      <3>1. stack[w] # None /\ stack[w].harness # 0
        BY <2>1 DEF WireBackend
      <3>2. stack[w].harness \in Id
        BY <3>1 DEF WInv, WorkshopTypeOK, Stack
      <3> QED
        BY <2>1, <3>1, <3>2 DEF WireBackend
    <2> QED
      BY <2>1, Zenon DEF MakeFails, DeskLogin, CookieGone, files, account, workshopVars
  <1>3. visit' \in [Checkout -> Ref \cup {None}]
    <2>1. ASSUME NEW c \in Checkout, DeskLogin(c) PROVE visit' \in [Checkout -> Ref \cup {None}]
      <3>1. /\ env[c] # None /\ stack[env[c].harness[1]] # None
            /\ stack[env[c].harness[1]].harness = env[c].harness[2]
            /\ visit' = [visit EXCEPT ![c] = stack[env[c].harness[1]].made.desk]
        BY <2>1 DEF DeskLogin, Alive, Prompt
      <3>2. env[c].harness \in Ref /\ env[c].harness[2] # 0
        BY <3>1 DEF WInv, WorkshopTypeOK, Wired
      <3>3. PICK x \in Participant : x = env[c].harness[1]
        BY <3>2 DEF Ref
      <3>4. stack[x] \in Stack /\ stack[x].made # None
        BY <3>1, <3>2, <3>3 DEF WInv, WorkshopTypeOK, Within
      <3>5. stack[x].made.desk \in Ref
        BY <3>4 DEF Stack, Generated
      <3> QED
        BY <3>1, <3>3, <3>5 DEF WInv, WorkshopTypeOK
    <2> QED
      BY <2>1 DEF MakeFails, CookieGone, WireBackend, files, account, workshopVars, WInv, WorkshopTypeOK
  <1>4. /\ job' \in [Terminal -> Job \cup {None}] /\ met' \subseteq Terminal
        /\ \A t \in Terminal : job'[t] # None => job'[t] = job[t] /\ (t \in met' <=> t \in met)
        /\ \A t \in met' : t \in met /\ job'[t] = job[t]
    BY <1>1 DEF Ends, WInv, WorkshopTypeOK
  <1>5. env' \in [Checkout -> [id : Participant, harness : Ref] \cup {None}] /\ \A c \in Checkout : Wired(c)'
    <2>1. CASE env' = env
      BY <2>1 DEF WInv, WorkshopTypeOK, Wired
    <2>2. CASE env' # env
      <3>1. PICK w \in Participant, n \in Id :
              n # 0 /\ env' = [env EXCEPT ![home[w]] = [id |-> w, harness |-> <<w, n>>]]
        BY <1>2, <2>2
      <3>2. PICK wired : wired = [id |-> w, harness |-> <<w, n>>]
        OBVIOUS
      <3>3. wired \in [id : Participant, harness : Ref] /\ wired.harness[1] = wired.id /\ wired.harness[2] # 0
        BY <3>1, <3>2 DEF Ref
      <3>4. env' = [env EXCEPT ![home[w]] = wired]
        BY <3>1, <3>2
      <3>5. env' \in [Checkout -> [id : Participant, harness : Ref] \cup {None}]
        BY <3>3, <3>4 DEF WInv, WorkshopTypeOK
      <3>6. \A c \in Checkout : env'[c] = env[c] \/ env'[c] = wired
        BY <3>4 DEF WInv, WorkshopTypeOK
      <3> QED
        BY <3>3, <3>5, <3>6 DEF WInv, Wired
    <2> QED
      BY <2>1, <2>2
  <1>6. WorkshopTypeOK'
    BY <1>1, <1>3, <1>4, <1>5 DEF WInv, WorkshopTypeOK
  <1>7. \A t \in Terminal : job'[t] = job[t] => At(t)' = At(t) /\ Who(t)' = Who(t)
    BY <1>1 DEF At, Who
  <1>8. Jobs'
    <2> SUFFICES ASSUME NEW s \in Terminal, job'[s] # None
                 PROVE  /\ job'[s].todo \in Left(job'[s].make)
                        /\ s \notin met' => Prepared(At(s), Who(s), job[s].make, job[s].todo)'
                        /\ Head(job'[s].todo) = "push" => home'[config'[At(s)'].names] = At(s)'
      BY DEF Jobs
    <2>1. job'[s] = job[s] /\ (s \in met' <=> s \in met) /\ At(s)' = At(s) /\ Who(s)' = Who(s)
      BY <1>4, <1>7
    <2>2. /\ job[s].todo \in Left(job[s].make)
          /\ s \notin met => Prepared(At(s), Who(s), job[s].make, job[s].todo)
          /\ Head(job[s].todo) = "push" => home[config[At(s)].names] = At(s)
      BY <2>1 DEF WInv, Jobs
    <2>3. PICK d, x, m, rest : d = At(s) /\ x = Who(s) /\ m = job[s].make /\ rest = job[s].todo
      OBVIOUS
    <2>4. s \notin met => Prepared(d, x, m, rest)'
      <3>1. s \notin met => Prepared(d, x, m, rest)
        BY <2>2, <2>3
      <3> QED
        BY <1>1, <3>1, JobKeeps
    <2>5. d = At(s)' /\ x = Who(s)' /\ m = job'[s].make /\ rest = job'[s].todo
      BY <2>1, <2>3
    <2>6. s \notin met' => Prepared(At(s), Who(s), job[s].make, job[s].todo)'
      BY <2>1, <2>4, <2>5, Zenon
    <2> QED
      BY <1>1, <2>1, <2>2, <2>6, Zenon
  <1>9. Meet'
    <2>1. \A s, u \in Terminal :
            s # u /\ job'[s] # None /\ job'[u] # None /\ At(s)' = At(u)' => s \in met'
      BY <1>4, <1>7 DEF WInv, Meet
    <2>2. \A s \in met' : job'[s] # None /\ At(s)' \in crossed'
      BY <1>1, <1>4, <1>7 DEF WInv, Meet
    <2> QED
      BY <2>1, <2>2 DEF Meet
  <1>10. \A x \in Participant : Within(x)' /\ (home'[x] \notin crossed' => OwnStack(x)' /\ Known(x)')
    BY <1>1, StackKeeps
  <1>11. \A d \in Checkout : Rendered(d)'
    BY <1>1, RenderedKeeps
  <1> QED
    BY <1>5, <1>6, <1>8, <1>9, <1>10, <1>11 DEF WInv

LEMMA WInvStep == WInv /\ [WorkshopNext]_workshopVars => WInv'
  <1> SUFFICES ASSUME WInv, [WorkshopNext]_workshopVars PROVE WInv'
    OBVIOUS
  <1>1. CASE \E w \in Participant, t \in Terminal, make \in Make : MakeStart(t, w, make)
    BY <1>1, MakeStartKeeps
  <1>2. CASE \E t \in Terminal : MakeStep(t)
    BY <1>2, CdkDeployKeeps, EnsureTargetKeeps, RenderGatewaysKeeps, RenderHarnessesKeeps, PushKeeps,
       DeleteStackKeeps, RemoveTargetKeeps, CdkDestroyKeeps DEF MakeStep
  <1>3. CASE \/ \E t \in Terminal : MakeFails(t)
             \/ \E c \in Checkout : DeskLogin(c) \/ CookieGone(c)
             \/ \E w \in Participant : WireBackend(w)
             \/ UNCHANGED workshopVars
    BY <1>3, OtherStepsKeep
  <1> QED
    BY <1>1, <1>2, <1>3 DEF WorkshopNext, MakeStep

LEMMA WInvAlways == WorkshopSpec => []WInv
  BY WInvInit, WInvStep, PTL DEF WorkshopSpec

-----------------------------------------------------------------------------
\* Files, account and makes keep their types; every id that a step draws is one.
THEOREM WorkshopTypeCorrect == WorkshopSpec => []WorkshopTypeOK
  <1>1. WInv => WorkshopTypeOK
    BY DEF WInv
  <1> QED
    BY <1>1, WInvAlways, PTL

\* OwnNames of Workshop: whatever other makes of the checkout left in agentcore.json,
\* a make deploys from it under the names of its participant, if none ran at the same
\* time there (Makefile:30-31), and under names of the same checkout in any case.
THEOREM OwnNamesHolds == WorkshopSpec => []OwnNames
  <1>1. WInv => OwnNames
    <2> SUFFICES ASSUME WInv PROVE OwnNames
      OBVIOUS
    <2>1. ASSUME NEW w \in Participant, stack[w] # None
          PROVE  home[stack[w].names] = home[w] /\ (home[w] \notin crossed => stack[w].names = w)
      BY <2>1 DEF WInv, OwnStack, Within
    <2>2. ASSUME NEW t \in Terminal, job[t] # None, Head(job[t].todo) = "push", At(t) \notin crossed
          PROVE  ~NameTaken(Who(t), config[At(t)].names)
      <3>1. PICK w \in Participant, make \in Make, todo \in Seq(StepName) :
              job[t] = [who |-> w, make |-> make, todo |-> todo]
        BY <2>2, JobIs
      <3>2. Who(t) = w /\ At(t) = home[w]
        BY <3>1 DEF Who, At
      <3>3. t \notin met
        BY <2>2 DEF WInv, Meet
      <3>4. config[home[w]].names = w
        BY <2>2, <3>2, <3>3 DEF WInv, Jobs, Prepared
      <3>5. ASSUME NEW x \in Participant \ {w}, stack[x] # None, stack[x].names = w PROVE FALSE
        <4>1. home[x] = home[w]
          BY <3>5 DEF WInv, Within
        <4> QED
          BY <2>2, <3>2, <3>5, <4>1 DEF WInv, OwnStack
      <3> QED
        BY <3>2, <3>4, <3>5 DEF NameTaken
    <2> QED
      BY <2>1, <2>2 DEF OwnNames
  <1> QED
    BY <1>1, WInvAlways, PTL

\* PageIsOwn of Workshop: the desk that a broker's agent visits is the one that was
\* rendered for the own workshop (render_agentcore_config.py:37-44), or, after two
\* makes at a time, for one that shares the checkout.
THEOREM PageIsOwnHolds == WorkshopSpec => []PageIsOwn
  <1>1. WInv => PageIsOwn
    <2> SUFFICES ASSUME WInv, NEW c \in Checkout, Serves(c)
                 PROVE  /\ home[Prompt(c)[1]] = home[env[c].id]
                        /\ home[env[c].id] \notin crossed => Prompt(c)[1] = env[c].id
      BY DEF PageIsOwn
    <2>1. /\ env[c] # None /\ env[c].harness[1] = env[c].id /\ env[c].harness[2] # 0
          /\ env[c].id \in Participant
      BY DEF Serves, Alive, WInv, WorkshopTypeOK, Wired
    <2>2. PICK w \in Participant : w = env[c].id
      BY <2>1
    <2>3. stack[w] # None /\ stack[w].harness # 0
      BY <2>1, <2>2 DEF Serves, Alive
    <2>4. stack[w].made # None /\ home[stack[w].made.desk[1]] = home[w]
      BY <2>3 DEF WInv, Within
    <2>5. home[w] \notin crossed => stack[w].made.desk[1] = w
      BY <2>3, <2>4 DEF WInv, OwnStack
    <2> QED
      BY <2>1, <2>2, <2>4, <2>5 DEF Prompt
  <1> QED
    BY <1>1, WInvAlways, PTL

\* GatewaysLive of Workshop: between a finished bootstrap and a broken-off destroy
\* deployed-state.json is right about the gateways (Makefile:33-38), where no two
\* makes ran at a time.
THEOREM GatewaysLiveHolds == WorkshopSpec => []GatewaysLive
  <1>1. WInv => GatewaysLive
    BY DEF WInv, Known, GatewaysLive
  <1> QED
    BY <1>1, WInvAlways, PTL

\* BootstrapRepairs of Workshop: what the second phase renders is what the first one
\* made, whichever steps failed or crossed before (Makefile:33-38).
THEOREM BootstrapRepairsHolds == WorkshopSpec => BootstrapRepairs
  <1>1. ASSUME WInv, NEW t \in Terminal, Push(t), job[t].make = "bootstrap", job'[t] = None,
               t \notin met, NEW w, w = Who(t)
        PROVE  /\ stack'[w].names = w
               /\ stack'[w].made = [gateway |-> <<w, stack'[w].gateway>>, desk |-> <<w, cdk[w]>>]
    <2>1. Do(t, "push")
      BY <1>1 DEF Push
    <2>2. PICK c \in Checkout, x \in Participant, make \in Make,
               todo \in Seq(StepName), left \in Seq(StepName) :
            Moves(t, c, x, make, todo, left) /\ Head(todo) = "push"
      BY <1>1, <2>1, JobGoesOn
    <2>3. x = w /\ make = "bootstrap"
      BY <1>1, <2>2, OfMake
    <2>4. todo = <<"push">>
      <3>1. left = <<>>
        BY <1>1, <2>2, Zenon DEF Moves
      <3>2. <<>> # <<"harnesses", "push">>
        BY LeftTypes, Zenon DEF Left, Make
      <3> QED
        BY <2>2, <3>1, <3>2, LeftGoesOn, Zenon DEF Moves
    <2>5. /\ config[c].made = Render(c, w) /\ config[c].names = w
          /\ stack[w] # None /\ stack[w].names = w /\ stack[w].gateway = state[c][w].gateway
      BY <1>1, <2>2, <2>3, <2>4, Zenon DEF Moves, Prepared
    <2>6. PICK made : made = config[c].made
      OBVIOUS
    <2>7. PICK gateway \in Id, harness \in Id :
            /\ stack' = [stack EXCEPT ![w] = Pushed(w, gateway, harness, made)]
            /\ stack[w] # None /\ stack[w].names = w => gateway = stack[w].gateway
      BY <1>1, <2>2, <2>3, <2>5, <2>6, PushMakes
    <2>8. stack'[w] = Pushed(w, gateway, harness, made) /\ gateway = state[c][w].gateway
      BY <1>1, <2>2, <2>3, <2>5, <2>7 DEF WInv, WorkshopTypeOK
    <2>9. stack'[w].names = w /\ stack'[w].made = Render(c, w) /\ stack'[w].gateway = state[c][w].gateway
      BY <2>5, <2>6, <2>8 DEF Pushed
    <2> QED
      BY <2>9, Zenon DEF Render
  <1>2. WInv /\ [WorkshopNext]_workshopVars =>
          [\A t \in Terminal :
             Push(t) /\ job[t].make = "bootstrap" /\ job'[t] = None /\ t \notin met =>
               LET w == Who(t)
               IN  /\ stack'[w].names = w
                   /\ stack'[w].made = [gateway |-> <<w, stack'[w].gateway>>, desk |-> <<w, cdk[w]>>]
          ]_workshopVars
    BY <1>1
  <1> QED
    BY <1>2, WInvAlways, PTL DEF WorkshopSpec, BootstrapRepairs

\* DestroyIsOwn of Workshop: a destroy takes from its own participant only, and all
\* of it, the target last but one (Makefile:87-100).
THEOREM DestroyIsOwnHolds == WorkshopSpec => DestroyIsOwn
  <1>1. ASSUME WInv, NEW t \in Terminal, DeleteStack(t) \/ RemoveTarget(t) \/ CdkDestroy(t),
               NEW w, w = Who(t), NEW c, c = At(t)
        PROVE  /\ \A x \in Participant \ {w} : stack'[x] = stack[x] /\ cdk'[x] = cdk[x]
               /\ t \notin met =>
                    /\ \A x \in Participant \ {w}, d \in Checkout :
                         state'[d][x] = state[d][x] /\ (x \in targets[d] => x \in targets'[d])
                    /\ job'[t] = None =>
                         stack'[w] = None /\ cdk'[w] = 0 /\ w \notin targets'[c] /\ state'[c][w] = None
    <2>1. PICK step \in {"delete", "untarget", "uncdk"} : Do(t, step) /\ (CdkDestroy(t) \/ step # "uncdk")
      BY <1>1 DEF DeleteStack, RemoveTarget, CdkDestroy
    <2>2. PICK d \in Checkout, x \in Participant, make \in Make,
               todo \in Seq(StepName), left \in Seq(StepName) :
            Moves(t, d, x, make, todo, left) /\ Head(todo) = step
      BY <1>1, <2>1, JobGoesOn
    <2>3. x = w /\ d = c /\ c \in Checkout /\ w \in Participant
      BY <1>1, <2>2, OfMake
    <2>4. /\ \A y \in Participant \ {w} :
               stack'[y] = stack[y] /\ cdk'[y] = cdk[y] /\ state'[c][y] = state[c][y]
          /\ \A e \in Checkout \ {c} : state'[e] = state[e]
      <3>1. job[t].who = w /\ home[w] = c
        BY <2>2, <2>3 DEF Moves
      <3> QED
        BY <1>1, <2>3, <3>1, StepIsLocal DEF WInv, MakeStep
    <2>5. \A y \in Participant \ {w}, e \in Checkout : y \in targets[e] => y \in targets'[e]
      <3>1. PICK others : others = targets[c] \ {w}
        OBVIOUS
      <3>2. targets' = targets \/ targets' = [targets EXCEPT ![c] = others]
        BY <1>1, <3>1 DEF DeleteStack, RemoveTarget, RemoveOwn, CdkDestroy, files
      <3>3. ASSUME NEW e \in Checkout PROVE targets'[e] = targets[e] \/ (e = c /\ targets'[e] = others)
        <4>1. CASE targets' = targets
          BY <4>1
        <4>2. CASE targets' = [targets EXCEPT ![c] = others]
          BY <1>1, <4>2 DEF WInv, WorkshopTypeOK
        <4> QED
          BY <3>2, <4>1, <4>2
      <3> QED
        BY <3>1, <3>3, Zenon
    <2>6. ASSUME t \notin met, job'[t] = None
          PROVE  stack'[w] = None /\ cdk'[w] = 0 /\ w \notin targets'[c] /\ state'[c][w] = None
      <3>1. left = <<>>
        BY <2>2, <2>6, Zenon DEF Moves
      <3>2. <<>> # <<"untarget", "uncdk">> /\ <<>> # <<"uncdk">>
        BY LeftTypes, Zenon DEF Left, Make
      <3>3. todo = <<"uncdk">> /\ step = "uncdk"
        BY <2>1, <2>2, <3>1, <3>2, LeftGoesOn, Zenon DEF Moves
      <3>4. stack[w] = None /\ w \notin targets[c] /\ state[c][w] = None
        <4>1. Prepared(c, w, make, todo)
          BY <2>2, <2>3, <2>6, Zenon DEF Moves
        <4>2. <<"uncdk">> \in {<<"untarget", "uncdk">>, <<"uncdk">>}
          OBVIOUS
        <4> QED
          BY <3>3, <4>1, <4>2, Zenon DEF Prepared
      <3>5. CdkDestroy(t)
        BY <2>1, <3>3
      <3>6. cdk'[w] = 0
        BY <1>1, <2>3, <3>5 DEF CdkDestroy, WInv, WorkshopTypeOK
      <3> QED
        BY <3>4, <3>5, <3>6 DEF CdkDestroy, files
    <2>7. \A y \in Participant \ {w}, e \in Checkout : state'[e][y] = state[e][y]
      BY <2>4
    <2> QED
      BY <2>4, <2>5, <2>6, <2>7
  <1>2. WInv /\ [WorkshopNext]_workshopVars =>
          [\A t \in Terminal :
             (DeleteStack(t) \/ RemoveTarget(t) \/ CdkDestroy(t)) =>
               LET w == Who(t)
                   c == At(t)
               IN  /\ \A x \in Participant \ {w} : stack'[x] = stack[x] /\ cdk'[x] = cdk[x]
                   /\ t \notin met =>
                        /\ \A x \in Participant \ {w}, d \in Checkout :
                             state'[d][x] = state[d][x] /\ (x \in targets[d] => x \in targets'[d])
                        /\ job'[t] = None =>
                             stack'[w] = None /\ cdk'[w] = 0 /\ w \notin targets'[c] /\ state'[c][w] = None
          ]_workshopVars
    BY <1>1
  <1> QED
    BY <1>2, WInvAlways, PTL DEF WorkshopSpec, DestroyIsOwn

\* DeployKeepsBackends of Workshop: a deploy keeps the harness of the same name, and
\* with it every backend wired to it (Makefile:58-61).
THEOREM DeployKeepsBackendsHolds == WorkshopSpec => DeployKeepsBackends
  <1>1. ASSUME WInv, NEW t \in Terminal, Push(t), job[t].make = "deploy", At(t) \notin crossed,
               NEW d \in Checkout, Alive(d)
        PROVE  Alive(d)'
    <2>1. Do(t, "push")
      BY <1>1 DEF Push
    <2>2. PICK c \in Checkout, w \in Participant, make \in Make,
               todo \in Seq(StepName), left \in Seq(StepName) :
            Moves(t, c, w, make, todo, left) /\ Head(todo) = "push"
      BY <1>1, <2>1, JobGoesOn
    <2>3. make = "deploy" /\ home[w] = c /\ c \notin crossed /\ t \notin met
      BY <1>1, <2>2, OfMake DEF Moves
    <2>4. todo = <<"push">>
      BY <2>2, <2>3, LeftGoesOn, Zenon DEF Moves
    <2>5. /\ config[c].made = Render(c, w) /\ config[c].names = w /\ state[c][w] # None
      BY <2>2, <2>3, <2>4, Zenon DEF Moves, Prepared
    <2>6. PICK made : made = config[c].made
      OBVIOUS
    <2>7. PICK gateway \in Id, harness \in Id :
            /\ stack' = [stack EXCEPT ![w] = Pushed(w, gateway, harness, made)]
            /\ stack[w] # None /\ stack[w].names = w /\ stack[w].harness # 0 /\ made # None =>
                 harness = stack[w].harness
      BY <1>1, <2>2, <2>5, <2>6, PushMakes
    <2>8. env' = env /\ made \in Generated \cup {None}
      BY <1>1, <2>2, <2>5, <2>6, PushMakes
    <2>9. made # None
      <3>1. state[c][w] \in Deployed /\ cdk[w] \in Id
        BY <1>1, <2>5 DEF WInv, WorkshopTypeOK
      <3>2. Render(c, w) \in Generated
        BY <3>1 DEF Render, Generated, Ref, Deployed
      <3> QED
        BY <2>5, <2>6, <3>2
    <2>10. env[d] # None /\ env[d].harness[2] # 0 /\ env[d].harness[1] \in Participant
      BY <1>1 DEF Alive, WInv, WorkshopTypeOK, Wired
    <2>11. PICK x \in Participant : x = env[d].harness[1]
      BY <2>10
    <2>12. stack[x] # None /\ stack[x].harness = env[d].harness[2]
      BY <1>1, <2>11 DEF Alive
    <2>13. stack'[x] # None /\ stack'[x].harness = env[d].harness[2]
      <3>1. CASE x = w
        <4>0. stack[w].names = w
          BY <1>1, <2>3, <2>12, <3>1 DEF WInv, OwnStack
        <4>1. stack'[x] = Pushed(w, gateway, harness, made) /\ harness = env[d].harness[2]
          BY <1>1, <2>7, <2>9, <2>10, <2>12, <3>1, <4>0 DEF WInv, WorkshopTypeOK
        <4>2. Pushed(w, gateway, harness, made) \in Stack
          BY <2>8 DEF Pushed, Stack
        <4> QED
          BY <4>1, <4>2 DEF Pushed
      <3>2. CASE x # w
        BY <1>1, <2>7, <2>12, <3>2 DEF WInv, WorkshopTypeOK
      <3> QED
        BY <3>1, <3>2
    <2> QED
      BY <2>8, <2>10, <2>11, <2>13 DEF Alive
  <1>2. WInv /\ [WorkshopNext]_workshopVars =>
          [\A t \in Terminal :
             Push(t) /\ job[t].make = "deploy" /\ At(t) \notin crossed =>
               \A d \in Checkout : Alive(d) => Alive(d)'
          ]_workshopVars
    BY <1>1
  <1> QED
    BY <1>2, WInvAlways, PTL DEF WorkshopSpec, DeployKeepsBackends

-----------------------------------------------------------------------------
\* A harness has its desk: from the time it is rendered until it is taken down.
Served(w) ==
  stack[w] # None =>
    /\ stack[w].gateway # 0
    /\ stack[w].harness # 0 => cdk[w] # 0 /\ stack[w].made.desk = <<w, cdk[w]>>

Pushing == {<<"push", "harnesses", "push">>, <<"push">>}

Opened(t) == job[t] # None /\ t \notin met /\ job[t].todo \in Pushing => cdk[Who(t)] # 0

CInv ==
  /\ WInv
  /\ \A w \in Participant : home[w] \notin crossed => Served(w)
  /\ \A t \in Terminal : Opened(t)

\* What a step of a make leaves to be shown of its own participant.
LEMMA CInvOfOwn ==
  ASSUME CInv, WInv', NEW t \in Terminal, MakeStep(t),
         NEW c \in Checkout, NEW w \in Participant, NEW make \in Make, NEW todo, NEW left,
         Moves(t, c, w, make, todo, left),
         left \in Pushing /\ t \notin met => cdk'[w] # 0, c \notin crossed => Served(w)'
  PROVE  CInv'
  <1>1. /\ home' = home /\ crossed' = crossed
        /\ \A s \in Terminal \ {t} : job'[s] = job[s] /\ (s \in met' <=> s \in met)
        /\ \A x \in Participant \ {w} : stack'[x] = stack[x] /\ cdk'[x] = cdk[x]
    <2>1. job[t].who = w /\ home[w] = c
      BY DEF Moves
    <2> QED
      BY <2>1, StepIsLocal DEF CInv, WInv
  <1>2. ASSUME NEW x \in Participant, home'[x] \notin crossed' PROVE Served(x)'
    <2>1. CASE x = w
      BY <1>1, <1>2, <2>1 DEF Moves
    <2>2. CASE x # w
      BY <1>1, <1>2, <2>2 DEF CInv, Served
    <2> QED
      BY <2>1, <2>2
  <1>3. ASSUME NEW s \in Terminal, job'[s] # None, s \notin met', job'[s].todo \in Pushing
        PROVE  cdk'[Who(s)'] # 0
    <2>1. CASE s = t
      <3>1. job'[s] = [who |-> w, make |-> make, todo |-> left] /\ s \notin met
        BY <1>3, <2>1, Zenon DEF Moves
      <3>2. Who(s)' = w /\ left \in Pushing
        BY <1>3, <3>1 DEF Who
      <3> QED
        BY <2>1, <3>1, <3>2
    <2>2. CASE s # t
      <3>1. job[s] # None /\ job'[s] = job[s] /\ s \notin met /\ Who(s)' = Who(s)
        BY <1>1, <1>3, <2>2 DEF Who
      <3>2. PICK x \in Participant, m \in Make, rest \in Seq(StepName) :
              job[s] = [who |-> x, make |-> m, todo |-> rest]
        BY <3>1, JobIs DEF CInv
      <3>3. Who(s) = x /\ At(s) = home[x]
        BY <3>2 DEF Who, At
      <3>4. job[t] # None /\ At(t) = home[w]
        BY OfMake DEF Moves
      <3>5. x # w
        BY <2>2, <3>1, <3>3, <3>4 DEF CInv, WInv, Meet
      <3> QED
        BY <1>1, <1>3, <3>1, <3>3, <3>5 DEF CInv, Opened
    <2> QED
      BY <2>1, <2>2
  <1> QED
    BY <1>2, <1>3 DEF CInv, Opened

\* Only rendering leads to a push.
LEMMA BeforePushing ==
  ASSUME NEW make \in Make, NEW todo \in Left(make), Tail(todo) \in Pushing
  PROVE  Head(todo) \in {"gateways", "harnesses"}
  <1>1. Head(Tail(todo)) = "push" /\ Tail(todo) # <<>>
    <2>1. <<>> # <<"push", "harnesses", "push">> /\ <<>> # <<"push">>
      OBVIOUS
    <2> QED
      BY <2>1, Heads, Zenon DEF Pushing
  <1>2. Head(todo) \in StepName
    <2>1. todo \in Seq(StepName) /\ todo # <<>>
      BY LeftTypes
    <2> QED
      BY <2>1
  <1>3. Head(todo) \notin {"cdk", "target"}
    BY <1>1, LeftGoesOn, Heads, Zenon
  <1>4. Head(todo) # "push"
    BY <1>1, LeftGoesOn, Heads, Zenon
  <1>5. Head(todo) \notin {"delete", "untarget", "uncdk"}
    BY <1>1, LeftGoesOn, Heads, Zenon
  <1> QED
    BY <1>2, <1>3, <1>4, <1>5 DEF StepName

\* Where makes have crossed, a step may leave the copy of its participant anyhow, and
\* leaves the others' alone.
LEMMA CrossedCopies ==
  ASSUME CInv, WInv', NEW t \in Terminal, MakeStep(t), At(t) \in crossed
  PROVE  CInv' /\ [Copies!Next]_(Copies!vars)
  <1>1. PICK step : Do(t, step)
    BY DEF MakeStep, CdkDeploy, EnsureTarget, RenderGateways, RenderHarnesses, Push, DeleteStack,
           RemoveTarget, CdkDestroy
  <1>2. PICK c \in Checkout, w \in Participant, make \in Make,
             todo \in Seq(StepName), left \in Seq(StepName) :
          Moves(t, c, w, make, todo, left) /\ Head(todo) = step
    BY <1>1, JobGoesOn DEF CInv
  <1>3. Who(t) = w /\ At(t) = c /\ home[w] = c /\ job[t].who = w
    <2>1. Who(t) = w /\ At(t) = c /\ home[w] = c
      BY <1>2, OfMake DEF Moves
    <2> QED
      BY <2>1 DEF Who
  <1>4. left \in Pushing /\ t \notin met => cdk'[w] # 0
    <2> SUFFICES ASSUME left \in Pushing, t \notin met PROVE cdk'[w] # 0
      OBVIOUS
    <2>1. step \in {"gateways", "harnesses"}
      BY <1>2, BeforePushing DEF Moves
    <2>2. RenderGateways(t) \/ RenderHarnesses(t)
      BY <1>1, <2>1 DEF MakeStep, CdkDeploy, EnsureTarget, RenderGateways, RenderHarnesses, Push,
           DeleteStack, RemoveTarget, CdkDestroy, Do
    <2> QED
      BY <1>3, <2>2 DEF RenderGateways, RenderHarnesses, account
  <1>5. CInv'
    BY <1>2, <1>3, <1>4, CInvOfOwn
  <1>6. /\ home' = home /\ crossed' = crossed /\ env' = env /\ visit' = visit
        /\ \A x \in Participant \ {w} :
             cdk'[x] = cdk[x] /\ stack'[x] = stack[x] /\ (x \in torn' <=> x \in torn)
    BY <1>3, StepIsLocal DEF CInv, WInv
  <1>7. Muddled' = Muddled /\ w \in Muddled
    BY <1>3, <1>6 DEF Muddled
  <1>8. Copies!Stray(w)
    BY <1>6, <1>7 DEF Copies!Stray
  <1> QED
    BY <1>5, <1>8, Zenon DEF Copies!Next

\* cdk deploy, of a new desk: one whose number no cookie has.
LEMMA CdkDeployCopies ==
  ASSUME CInv, WInv', NEW t \in Terminal, CdkDeploy(t), At(t) \notin crossed
  PROVE  CInv' /\ [Copies!Next]_(Copies!vars)
  <1>1. Do(t, "cdk")
    BY DEF CdkDeploy
  <1>2. PICK c \in Checkout, w \in Participant, make \in Make,
             todo \in Seq(StepName), left \in Seq(StepName) :
          Moves(t, c, w, make, todo, left) /\ Head(todo) = "cdk"
    BY <1>1, JobGoesOn DEF CInv
  <1>3. Who(t) = w /\ At(t) = c /\ home[w] = c /\ c \notin crossed
    BY <1>2, OfMake DEF Moves
  <1>4. left \notin Pushing
    BY <1>2, BeforePushing, Zenon DEF Moves
  <1>5. UNCHANGED <<home, stack, torn, env, visit, crossed>> /\ Muddled' = Muddled
    BY DEF CdkDeploy, files, history, Muddled
  <1>6. CASE cdk[w] # 0 /\ cdk' = cdk
    <2>1. Served(w)'
      BY <1>3, <1>5, <1>6 DEF CInv, Served
    <2>2. CInv'
      BY <1>2, <1>4, <2>1, CInvOfOwn DEF MakeStep
    <2> QED
      BY <1>5, <1>6, <2>2 DEF Copies!vars, Copies!copies
  <1>7. CASE cdk[w] = 0 /\ CanDraw(UsedUrls(w)) /\ cdk' = [cdk EXCEPT ![w] = Draw(UsedUrls(w))]
    <2>1. PICK n \in Id : n = Draw(UsedUrls(w)) /\ n # 0 /\ n \notin UsedUrls(w)
      BY <1>7 DEF CanDraw, Draw, Id
    <2>2. ASSUME NEW d \in Checkout PROVE visit[d] # <<w, n>>
      <3> SUFFICES ASSUME visit[d] = <<w, n>> PROVE FALSE
        OBVIOUS
      <3>1. <<w, n>> \in Ref
        BY DEF Ref
      <3>2. visit[d] # None
        BY <3>1, NoneAssumption
      <3> DEFINE seen == {visit[x] : x \in {x \in Checkout : visit[x] # None}}
      <3>3. <<w, n>> \in Refs("desk") \cup seen
        BY <3>2
      <3> HIDE DEF seen
      <3>4. <<w, n>>[1] = w /\ <<w, n>>[2] = n
        OBVIOUS
      <3>5. n \in OfRefs(w, Refs("desk") \cup seen)
        BY <3>3, <3>4, Zenon DEF OfRefs
      <3>6. UsedUrls(w) = OfRefs(w, Refs("desk") \cup seen)
        BY Zenon DEF UsedUrls, seen
      <3> QED
        BY <2>1, <3>5, <3>6
    <2>3. Served(w)'
      BY <1>3, <1>5, <1>7 DEF CInv, Served
    <2>4. CInv'
      BY <1>2, <1>4, <2>3, CInvOfOwn DEF MakeStep
    <2>5. Copies!OpenDesk(w, n) /\ n \in Copies!Number
      BY <1>5, <1>7, <2>1, <2>2 DEF Copies!OpenDesk, Copies!Number
    <2> QED
      BY <2>4, <2>5, Zenon DEF Copies!Next
  <1> QED
    BY <1>3, <1>6, <1>7, Zenon DEF CdkDeploy

\* Targets and what is rendered are no part of a copy.
LEMMA FileStepsCopies ==
  ASSUME CInv, WInv', NEW t \in Terminal, At(t) \notin crossed,
         EnsureTarget(t) \/ RenderGateways(t) \/ RenderHarnesses(t)
  PROVE  CInv' /\ [Copies!Next]_(Copies!vars)
  <1>1. PICK step \in {"target", "gateways", "harnesses"} :
          Do(t, step) /\ (step # "target" => cdk[Who(t)] # 0)
    BY DEF EnsureTarget, RenderGateways, RenderHarnesses
  <1>2. PICK c \in Checkout, w \in Participant, make \in Make,
             todo \in Seq(StepName), left \in Seq(StepName) :
          Moves(t, c, w, make, todo, left) /\ Head(todo) = step
    BY <1>1, JobGoesOn DEF CInv
  <1>3. Who(t) = w /\ At(t) = c /\ home[w] = c /\ c \notin crossed
    BY <1>2, OfMake DEF Moves
  <1>4. UNCHANGED <<home, cdk, stack, torn, env, visit, crossed>> /\ Muddled' = Muddled
    BY DEF EnsureTarget, RenderGateways, RenderHarnesses, account, history, Muddled
  <1>5. left \in Pushing => cdk'[w] # 0
    BY <1>1, <1>2, <1>3, <1>4, BeforePushing DEF Moves
  <1>6. Served(w)'
    BY <1>3, <1>4 DEF CInv, Served
  <1>7. CInv'
    BY <1>2, <1>5, <1>6, CInvOfOwn DEF MakeStep
  <1> QED
    BY <1>4, <1>7 DEF Copies!vars, Copies!copies

\* The three steps of a destroy.
LEMMA DestroyCopies ==
  ASSUME CInv, WInv', NEW t \in Terminal, At(t) \notin crossed,
         DeleteStack(t) \/ RemoveTarget(t) \/ CdkDestroy(t)
  PROVE  CInv' /\ [Copies!Next]_(Copies!vars)
  <1>1. PICK step \in {"delete", "untarget", "uncdk"} :
          /\ Do(t, step)
          /\ step = "delete" => DeleteStack(t)
          /\ step = "untarget" => RemoveTarget(t)
          /\ step = "uncdk" => CdkDestroy(t)
    BY DEF DeleteStack, RemoveTarget, CdkDestroy
  <1>2. PICK c \in Checkout, w \in Participant, make \in Make,
             todo \in Seq(StepName), left \in Seq(StepName) :
          Moves(t, c, w, make, todo, left) /\ Head(todo) = step
    BY <1>1, JobGoesOn DEF CInv
  <1>3. Who(t) = w /\ At(t) = c /\ home[w] = c /\ c \notin crossed /\ t \notin met
    BY <1>2, OfMake DEF Moves
  <1>4. left \notin Pushing
    BY <1>1, <1>2, BeforePushing, Zenon DEF Moves
  <1>5. UNCHANGED <<home, crossed>> /\ Muddled' = Muddled
    BY <1>1 DEF DeleteStack, RemoveTarget, CdkDestroy, history, Muddled
  <1>6. CASE step = "delete"
    <2>1. /\ stack' = [stack EXCEPT ![w] = None] /\ torn' = torn \cup {w}
          /\ UNCHANGED <<cdk, env, visit>>
      BY <1>1, <1>3, <1>6 DEF DeleteStack, files
    <2>2. Served(w)'
      BY <2>1 DEF CInv, WInv, WorkshopTypeOK, Served
    <2>3. CInv'
      BY <1>2, <1>4, <2>2, CInvOfOwn DEF MakeStep
    <2>4. Copies!TakeDown(w)
      BY <1>5, <2>1 DEF Copies!TakeDown
    <2> QED
      BY <2>3, <2>4, Zenon DEF Copies!Next
  <1>7. CASE step \in {"untarget", "uncdk"}
    <2>1. stack[w] = None
      BY <1>2, <1>3, <1>7, LeftGoesOn, Zenon DEF Moves, Prepared
    <2>2. stack' = stack /\ Served(w)'
      BY <1>1, <1>7, <2>1 DEF RemoveTarget, CdkDestroy, account, Served
    <2>3. CInv'
      BY <1>2, <1>4, <2>2, CInvOfOwn DEF MakeStep
    <2>4. CASE step = "untarget"
      <3>1. Copies!Forget(w)
        BY <1>1, <1>3, <1>5, <2>1, <2>4 DEF RemoveTarget, account, Copies!Forget
      <3> QED
        BY <2>3, <3>1, Zenon DEF Copies!Next
    <2>5. CASE step = "uncdk"
      <3>1. Copies!CloseDesk(w)
        BY <1>1, <1>3, <1>5, <2>1, <2>5 DEF CdkDestroy, files, history, Copies!CloseDesk
      <3> QED
        BY <2>3, <3>1, Zenon DEF Copies!Next
    <2> QED
      BY <1>7, <2>4, <2>5
  <1> QED
    BY <1>1, <1>6, <1>7

\* agentcore deploy: of the gateways alone, or with the harnesses.
LEMMA PushCopies ==
  ASSUME CInv, WInv', NEW t \in Terminal, Push(t), At(t) \notin crossed
  PROVE  CInv' /\ [Copies!Next]_(Copies!vars)
  <1>1. Do(t, "push")
    BY DEF Push
  <1>2. PICK c \in Checkout, w \in Participant, make \in Make,
             todo \in Seq(StepName), left \in Seq(StepName) :
          Moves(t, c, w, make, todo, left) /\ Head(todo) = "push"
    BY <1>1, JobGoesOn DEF CInv
  <1>3. Who(t) = w /\ At(t) = c /\ home[w] = c /\ c \notin crossed /\ t \notin met
    BY <1>2, OfMake DEF Moves
  <1>4. Prepared(c, w, make, todo) /\ config[c].names = w
    BY <1>2, <1>3, Zenon DEF Moves, Prepared
  <1>5. stack[w] # None => stack[w].names = w
    BY <1>3 DEF CInv, WInv, OwnStack
  <1>6. PICK made : made = config[c].made
    OBVIOUS
  <1>7. /\ made \in Generated \cup {None}
        /\ torn' = IF made = None THEN torn \ {w} ELSE torn
        /\ UNCHANGED <<home, env, cdk, visit, crossed>>
    BY <1>2, <1>4, <1>6, PushMakes DEF CInv
  <1>8. PICK gateway \in Id, harness \in Id :
          /\ stack' = [stack EXCEPT ![w] = Pushed(w, gateway, harness, made)]
          /\ made = None <=> harness = 0
          /\ stack[w] # None /\ stack[w].names = w => gateway = stack[w].gateway
          /\ stack[w] = None => gateway # 0
          /\ stack[w] # None /\ stack[w].names = w /\ stack[w].harness # 0 /\ made # None =>
               harness = stack[w].harness
    BY <1>2, <1>4, <1>6, PushMakes DEF CInv
  <1>9. /\ stack[w] # None => gateway = stack[w].gateway
        /\ stack[w] # None /\ stack[w].harness # 0 /\ made # None => harness = stack[w].harness
    BY <1>5, <1>8
  <1>10. todo \in Pushing /\ left \notin Pushing
    <2>1. todo \in Pushing
      BY <1>2, LeftGoesOn, Zenon DEF Moves, Pushing
    <2> QED
      BY <1>2, <2>1, BeforePushing, Zenon DEF Moves
  <1>11. cdk[w] # 0
    <2>1. job[t] # None /\ job[t].todo = todo
      BY <1>2, OfMake DEF Moves
    <2> QED
      BY <1>3, <1>10, <2>1 DEF CInv, Opened
  <1>12. gateway # 0
    BY <1>3, <1>8, <1>9 DEF CInv, Served
  <1>13. ASSUME made # None
         PROVE  /\ state[c][w] # None /\ made = Render(c, w)
                /\ w \notin torn => stack[w] # None /\ state[c][w].gateway = gateway
    <2>1. state[c][w] # None /\ made = Render(c, w)
      BY <1>4, <1>6, <1>10, <1>13, Zenon DEF Pushing, Prepared
    <2>2. w \notin torn =>
            state[c][w] = IF stack[w] = None THEN None ELSE [names |-> w, gateway |-> stack[w].gateway]
      BY <1>3, Zenon DEF CInv, WInv, Known
    <2> QED
      BY <1>9, <2>1, <2>2
  <1>14. Served(w)'
    <2>1. stack'[w] = Pushed(w, gateway, harness, made)
      BY <1>8 DEF CInv, WInv, WorkshopTypeOK
    <2> QED
      BY <1>7, <1>8, <1>11, <1>12, <1>13, <2>1 DEF Served, Pushed, Render
  <1>15. CInv'
    BY <1>2, <1>10, <1>14, CInvOfOwn DEF MakeStep
  <1>16. Copies!Keeps(w, "gateway", gateway)
    BY <1>9 DEF Copies!Keeps
  <1>17. Muddled' = Muddled
    BY <1>7 DEF Muddled
  <1>18. CASE made = None
    <2>1. stack' = [stack EXCEPT ![w] =
            [names |-> w, gateway |-> gateway, harness |-> 0, made |-> None]]
      BY <1>8, <1>18, Zenon DEF Pushed
    <2>2. torn' = torn \ {w}
      BY <1>7, <1>18
    <2>3. gateway \in Copies!Number
      BY <1>12 DEF Copies!Number
    <2>4. Copies!DeployGateway(w, gateway)
      BY <1>7, <1>11, <1>16, <1>17, <2>1, <2>2, Zenon DEF Copies!DeployGateway
    <2> QED
      BY <1>15, <2>3, <2>4, Zenon DEF Copies!Next
  <1>19. CASE made # None
    <2>1. Copies!Keeps(w, "harness", harness)
      BY <1>9, <1>19 DEF Copies!Keeps
    <2>2. PICK remembered \in Id : remembered = state[c][w].gateway
      <3>1. state[c][w] \in Deployed
        BY <1>13, <1>19 DEF CInv, WInv, WorkshopTypeOK
      <3>2. state[c][w].gateway \in Id
        BY <3>1 DEF Deployed
      <3> QED
        BY <3>2, Zenon
    <2>3. stack' = [stack EXCEPT ![w] =
            [names |-> w, gateway |-> gateway, harness |-> harness,
             made |-> [gateway |-> <<w, remembered>>, desk |-> <<w, cdk[w]>>]]]
      BY <1>8, <1>13, <1>19, <2>2 DEF Pushed, Render
    <2>4. Copies!DeployHarness(w, gateway, harness, remembered)
      BY <1>7, <1>11, <1>13, <1>16, <1>17, <1>19, <2>1, <2>2, <2>3, Zenon DEF Copies!DeployHarness
    <2>5. gateway \in Copies!Number /\ harness \in Copies!Number
      BY <1>8, <1>12, <1>19 DEF Copies!Number
    <2> QED
      BY <1>15, <2>4, <2>5, Zenon DEF Copies!Next
  <1> QED
    BY <1>18, <1>19

\* A copy is wired, and its agent's browser logs in to its desk and out of it.
LEMMA UseCopies ==
  ASSUME CInv, WInv', \/ \E c \in Checkout : DeskLogin(c) \/ CookieGone(c)
                      \/ \E w \in Participant : WireBackend(w)
  PROVE  CInv' /\ [Copies!Next]_(Copies!vars)
  <1>1. UNCHANGED <<home, cdk, stack, torn, job, met, crossed>> /\ Muddled' = Muddled
    BY DEF DeskLogin, CookieGone, WireBackend, account, history, Muddled
  <1>2. CInv'
    <2>1. \A w \in Participant : home'[w] \notin crossed' => Served(w)'
      BY <1>1 DEF CInv, Served
    <2>2. \A t \in Terminal : Opened(t)'
      BY <1>1 DEF CInv, Opened, Who
    <2> QED
      BY <2>1, <2>2 DEF CInv
  <1>3. ASSUME NEW c \in Checkout, DeskLogin(c) PROVE Copies!Next
    <2>1. /\ env[c] # None /\ stack[env[c].harness[1]] # None
          /\ stack[env[c].harness[1]].harness = env[c].harness[2]
          /\ visit' = [visit EXCEPT ![c] = stack[env[c].harness[1]].made.desk]
          /\ env' = env /\ stack[env[c].harness[1]].made.desk[2] # 0
      BY <1>3 DEF DeskLogin, Alive, Prompt, Reachable, files
    <2>2. env[c] \in [id : Participant, harness : Ref] /\ env[c].harness[1] = env[c].id
          /\ env[c].harness[2] # 0
      BY <2>1 DEF CInv, WInv, WorkshopTypeOK, Wired
    <2>3. PICK w \in Participant : w = env[c].id
      BY <2>2
    <2>4. CASE home[w] \notin crossed
      <3>1. cdk[w] # 0 /\ stack[w].made.desk = <<w, cdk[w]>>
        BY <2>1, <2>2, <2>3, <2>4 DEF CInv, Served
      <3>2. env[c] = [id |-> w, harness |-> <<w, stack[w].harness>>]
        <4>1. env[c].harness \in Ref /\ env[c] = [id |-> env[c].id, harness |-> env[c].harness]
          BY <2>2
        <4>2. env[c].harness = <<env[c].harness[1], env[c].harness[2]>>
          BY <4>1 DEF Ref
        <4> QED
          BY <2>1, <2>2, <2>3, <4>1, <4>2
      <3>3. Copies!LogIn(c, w)
        BY <1>1, <2>1, <2>2, <2>3, <3>1, <3>2 DEF Copies!LogIn
      <3> QED
        BY <3>3, Zenon DEF Copies!Next
    <2>5. CASE home[w] \in crossed
      <3>1. stack[w] \in Stack /\ stack[w].made # None /\ home[stack[w].made.desk[1]] = home[w]
        <4>1. stack[w] # None /\ stack[w].harness # 0
          BY <2>1, <2>2, <2>3
        <4>2. stack[w] \in Stack
          BY <4>1 DEF CInv, WInv, WorkshopTypeOK
        <4> QED
          BY <4>1, <4>2 DEF CInv, WInv, Within
      <3>2. stack[w].made.desk \in Ref
        BY <3>1 DEF Stack, Generated
      <3>3. PICK x \in Participant, n \in Id : stack[w].made.desk = <<x, n>>
        BY <3>2 DEF Ref
      <3>4. x \in Muddled /\ w \in Muddled /\ n \in Copies!Number
        BY <2>1, <2>2, <2>3, <2>5, <3>1, <3>3 DEF Muddled, Copies!Number
      <3>5. visit' = [visit EXCEPT ![c] = <<x, n>>]
        BY <2>1, <2>2, <2>3, <3>3
      <3>6. Copies!LogInAstray(c)
        BY <1>1, <2>1, <2>3, <3>4, <3>5, Zenon DEF Copies!LogInAstray
      <3> QED
        BY <3>6, Zenon DEF Copies!Next
    <2> QED
      BY <2>4, <2>5
  <1>4. ASSUME NEW c \in Checkout, CookieGone(c) PROVE Copies!Next
    <2>1. Copies!LogOut(c)
      BY <1>1, <1>4 DEF CookieGone, files, account, Copies!LogOut
    <2> QED
      BY <2>1, Zenon DEF Copies!Next
  <1>5. ASSUME NEW w \in Participant, WireBackend(w) PROVE Copies!Next
    <2>1. Copies!Wire(home[w], w) /\ home[w] \in Checkout
      BY <1>1, <1>5 DEF WireBackend, account, Copies!Wire, CInv, WInv, WorkshopTypeOK
    <2> QED
      BY <2>1, Zenon DEF Copies!Next
  <1> QED
    BY <1>2, <1>3, <1>4, <1>5

\* Makes begin and stop behind a copy's back; those that cross muddle the copies of
\* all who work in the checkout.
LEMMA IdleCopies ==
  ASSUME CInv, WInv', \/ \E w \in Participant, t \in Terminal, make \in Make : MakeStart(t, w, make)
                      \/ \E t \in Terminal : MakeFails(t)
                      \/ UNCHANGED workshopVars
  PROVE  CInv' /\ [Copies!Next]_(Copies!vars)
  <1>1. UNCHANGED <<home, cdk, stack, torn, env, visit>>
    BY DEF MakeStart, MakeFails, files, account, history, workshopVars
  <1>2. crossed' = crossed \/ \E c \in Checkout : crossed' = crossed \cup {c}
    BY DEF MakeStart, MakeFails, history, workshopVars, CInv, WInv, WorkshopTypeOK
  <1>3. ASSUME NEW t \in Terminal, job'[t] # None, t \notin met', job'[t].todo \in Pushing
        PROVE  job'[t] = job[t] /\ t \notin met
    <2>1. CASE UNCHANGED workshopVars
      BY <1>3, <2>1 DEF workshopVars
    <2>2. CASE \E s \in Terminal : MakeFails(s)
      BY <1>3, <2>2 DEF MakeFails, Ends, CInv, WInv, WorkshopTypeOK
    <2>3. CASE \E w \in Participant, s \in Terminal, make \in Make : MakeStart(s, w, make)
      <3>1. PICK w \in Participant, s \in Terminal, make \in Make :
              /\ job' = [job EXCEPT ![s] = [who |-> w, make |-> make, todo |-> Steps(make)]]
              /\ met \subseteq met'
        BY <2>3 DEF MakeStart
      <3>2. Steps(make) \notin Pushing
        <4>1. Head(Steps(make)) \in {"cdk", "harnesses", "delete"}
          BY StepsOf, Heads, Zenon DEF Make
        <4> QED
          BY <4>1, Heads DEF Pushing
      <3> QED
        BY <1>3, <3>1, <3>2 DEF CInv, WInv, WorkshopTypeOK
    <2> QED
      BY <2>1, <2>2, <2>3
  <1>4. \A t \in Terminal : Opened(t)'
    BY <1>1, <1>3 DEF CInv, Opened, Who
  <1>5. \A w \in Participant : home'[w] \notin crossed' => Served(w)'
    BY <1>1, <1>2 DEF CInv, Served
  <1>6. CInv'
    BY <1>4, <1>5 DEF CInv
  <1>7. CASE crossed' = crossed
    <2>1. Muddled' = Muddled
      BY <1>1, <1>7 DEF Muddled
    <2> QED
      BY <1>1, <1>6, <2>1 DEF Copies!vars, Copies!copies
  <1>8. CASE \E c \in Checkout : crossed' = crossed \cup {c}
    <2>1. PICK c \in Checkout : crossed' = crossed \cup {c}
      BY <1>8
    <2>2. PICK group \in SUBSET Participant : group = {w \in Participant : home[w] = c}
      OBVIOUS
    <2>3. Muddled' = Muddled \cup group
      BY <1>1, <2>1, <2>2 DEF Muddled
    <2>4. Copies!Muddle(group)
      BY <1>1, <2>3 DEF Copies!Muddle, Copies!copies
    <2> QED
      BY <1>6, <2>4, Zenon DEF Copies!Next
  <1> QED
    BY <1>2, <1>7, <1>8

LEMMA CInvStep == CInv /\ [WorkshopNext]_workshopVars => CInv' /\ [Copies!Next]_(Copies!vars)
  <1> SUFFICES ASSUME CInv, [WorkshopNext]_workshopVars
               PROVE  CInv' /\ [Copies!Next]_(Copies!vars)
    OBVIOUS
  <1>1. WInv'
    BY WInvStep, Zenon DEF CInv
  <1>2. ASSUME NEW t \in Terminal, MakeStep(t) PROVE CInv' /\ [Copies!Next]_(Copies!vars)
    BY <1>1, <1>2, CrossedCopies, CdkDeployCopies, FileStepsCopies, DestroyCopies, PushCopies, Zenon
    DEF MakeStep
  <1> QED
    BY <1>1, <1>2, UseCopies, IdleCopies, Zenon DEF WorkshopNext, MakeStep

LEMMA CInvInit == WorkshopInit => CInv /\ Copies!Init
  <1> SUFFICES ASSUME WorkshopInit PROVE CInv /\ Copies!Init
    OBVIOUS
  <1>1. WInv
    BY WInvInit
  <1>2. PICK running \in SUBSET {First} :
          /\ cdk = [w \in Participant |-> IF w \in running THEN 1 ELSE 0]
          /\ stack = [w \in Participant |-> IF w \notin running THEN None ELSE
               [names |-> w, gateway |-> 1, harness |-> 1,
                made |-> [gateway |-> <<w, 1>>, desk |-> <<w, 1>>]]]
          /\ torn = {First} \ running
    BY DEF WorkshopInit
  <1>3. running \subseteq Participant /\ torn \subseteq Participant \ running
    BY <1>2, FirstAssumption
  <1>4. Muddled = {}
    BY DEF Muddled, WorkshopInit
  <1>5. Copies!Init
    BY <1>2, <1>3, <1>4 DEF WorkshopInit, Copies!Init
  <1>6. \A w \in Participant : Served(w)
    <2> SUFFICES ASSUME NEW w \in Participant, stack[w] # None
                 PROVE  stack[w].gateway # 0 /\ (stack[w].harness # 0 =>
                          cdk[w] # 0 /\ stack[w].made.desk = <<w, cdk[w]>>)
      BY DEF Served
    <2>1. w \in running
      BY <1>2
    <2> QED
      BY <1>2, <2>1
  <1>7. \A t \in Terminal : Opened(t)
    BY DEF WorkshopInit, Opened
  <1> QED
    BY <1>1, <1>5, <1>6, <1>7 DEF CInv

\* ImplementsCopies of Workshop: everyone's deployment goes the way it would if
\* there were nobody else (Makefile:30-38), but for those who work in a checkout
\* where two makes have run at a time.
THEOREM ImplementsCopiesHolds == WorkshopSpec => ImplementsCopies
  BY CInvInit, CInvStep, PTL DEF WorkshopSpec, ImplementsCopies, Copies!Spec
===============================================================================
