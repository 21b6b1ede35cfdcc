------------------------------ MODULE OwnCopies ------------------------------
(***************************************************************************)
(* What the workshop promises its participants: each has a copy of the     *)
(* system and is alone with it.  A step concerns one participant's copy    *)
(* and reads nothing of another's; there are no files, no checkouts and no *)
(* makes to meet in.  A harness is deployed where there is a deal desk and *)
(* is sent to that desk as long as it lives, its gateway is its own, and   *)
(* so is the desk that a backend's browser logs in to.                     *)
(*                                                                         *)
(* Some participants come to be muddled: nothing is promised of what they  *)
(* have, but that they take nothing from the others and never reach them.  *)
(*                                                                         *)
(* Workshop is shown to implement this module.                             *)
(***************************************************************************)
EXTENDS Naturals

CONSTANTS Participant, Backend, Id, None

VARIABLES
  desk,   \* each participant's deal desk, 0 if there is none
  stack,  \* each participant's gateway and harness, with what was rendered
  torn,   \* those whose gateway was taken down and is still remembered
  env,    \* the harness that a backend is wired to
  visit,  \* the desk that a backend's browser is logged in to
  muddled \* participants who got into one another's way

copies == <<desk, stack, torn, env, visit>>
vars == <<copies, muddled>>

\* Copies may run already when it begins, or be remembered.
Init ==
  /\ \E running \in SUBSET Participant :
       /\ desk = [w \in Participant |-> IF w \in running THEN 1 ELSE 0]
       /\ stack = [w \in Participant |-> IF w \notin running THEN None ELSE
            [names |-> w, gateway |-> 1, harness |-> 1,
             made |-> [gateway |-> <<w, 1>>, desk |-> <<w, 1>>]]]
       /\ torn \subseteq Participant \ running
  /\ env = [c \in Backend |-> None] /\ visit = [c \in Backend |-> None]
  /\ muddled = {}

Number == Id \ {0}

\* A new desk is one that nobody holds a cookie of.
OpenDesk(w, n) ==
  /\ desk[w] = 0 /\ \A c \in Backend : visit[c] # <<w, n>>
  /\ desk' = [desk EXCEPT ![w] = n]
  /\ UNCHANGED <<stack, torn, env, visit, muddled>>

CloseDesk(w) ==
  /\ stack[w] = None
  /\ desk' = [desk EXCEPT ![w] = 0]
  /\ UNCHANGED <<stack, torn, env, visit, muddled>>

\* A deployment keeps what there is.
Keeps(w, field, n) == stack[w] # None /\ stack[w][field] # 0 => n = stack[w][field]

DeployGateway(w, gateway) ==
  /\ desk[w] # 0 /\ Keeps(w, "gateway", gateway)
  /\ stack' = [stack EXCEPT ![w] =
       [names |-> w, gateway |-> gateway, harness |-> 0, made |-> None]]
  /\ torn' = torn \ {w}
  /\ UNCHANGED <<desk, env, visit, muddled>>

\* The gateway that a harness is given is the one there is, or, if that was taken
\* down behind its back, the one that is remembered.
DeployHarness(w, gateway, harness, remembered) ==
  /\ desk[w] # 0 /\ Keeps(w, "gateway", gateway) /\ Keeps(w, "harness", harness)
  /\ w \notin torn => stack[w] # None /\ remembered = gateway
  /\ stack' = [stack EXCEPT ![w] =
       [names |-> w, gateway |-> gateway, harness |-> harness,
        made |-> [gateway |-> <<w, remembered>>, desk |-> <<w, desk[w]>>]]]
  /\ UNCHANGED <<desk, torn, env, visit, muddled>>

TakeDown(w) ==
  /\ stack' = [stack EXCEPT ![w] = None]
  /\ torn' = torn \cup {w}
  /\ UNCHANGED <<desk, env, visit, muddled>>

Forget(w) ==
  /\ stack[w] = None
  /\ torn' = torn \ {w}
  /\ UNCHANGED <<desk, stack, env, visit, muddled>>

Wire(c, w) ==
  /\ desk[w] # 0 /\ stack[w] # None /\ stack[w].harness # 0
  /\ env' = [env EXCEPT ![c] = [id |-> w, harness |-> <<w, stack[w].harness>>]]
  /\ visit' = [visit EXCEPT ![c] = None]
  /\ UNCHANGED <<desk, stack, torn, muddled>>

\* The agent of a backend wired to w logs in: to the desk that w has now.
LogIn(c, w) ==
  /\ desk[w] # 0 /\ stack[w] # None /\ env[c] = [id |-> w, harness |-> <<w, stack[w].harness>>]
  /\ visit' = [visit EXCEPT ![c] = <<w, desk[w]>>]
  /\ UNCHANGED <<desk, stack, torn, env, muddled>>

LogOut(c) ==
  /\ visit' = [visit EXCEPT ![c] = None]
  /\ UNCHANGED <<desk, stack, torn, env, muddled>>

\* Once they are, they stay.
Muddle(group) == muddled' = muddled \cup group /\ UNCHANGED copies

\* A deployment of one of them may go anyhow.
Stray(w) ==
  /\ w \in muddled
  /\ \A x \in Participant \ {w} :
       desk'[x] = desk[x] /\ stack'[x] = stack[x] /\ (x \in torn' <=> x \in torn)
  /\ UNCHANGED <<env, visit, muddled>>

\* The agent of one of them may come to a desk of another one.
LogInAstray(c) ==
  /\ env[c] # None /\ env[c].id \in muddled
  /\ \E w \in muddled, n \in Number : visit' = [visit EXCEPT ![c] = <<w, n>>]
  /\ UNCHANGED <<desk, stack, torn, env, muddled>>

Next ==
  \/ \E w \in Participant :
       \/ CloseDesk(w) \/ TakeDown(w) \/ Forget(w) \/ Stray(w)
       \/ \E n \in Number : OpenDesk(w, n) \/ DeployGateway(w, n)
       \/ \E gateway, harness \in Number, remembered \in Id :
            DeployHarness(w, gateway, harness, remembered)
       \/ \E c \in Backend : Wire(c, w) \/ LogIn(c, w)
  \/ \E c \in Backend : LogOut(c) \/ LogInAstray(c)
  \/ \E group \in SUBSET Participant : Muddle(group)

Spec == Init /\ [][Next]_vars
==============================================================================
