----------------------------- MODULE MCWorkshop ------------------------------
(* A small instance of Workshop for TLC. *)
EXTENDS Workshop, TLC

CONSTANTS dev01, alice, here, there, one, other

\* Nothing tells two checkouts apart, or two terminals.
WorkshopSymmetry == Permutations(Checkout) \cup Permutations(Terminal)

-----------------------------------------------------------------------------
\* "scripts/render_agentcore_config.py suffixes every one of those names with
\* WORKSHOP_ID before each deploy so participants never collide" (Makefile:30-31):
\* every stack would hold only names of its own participant.  Between rendering and
\* deploying (Makefile:48-51, 60-61) another make of the checkout may render too.
NeverCollide == \A w \in Participant : stack[w] # None => stack[w].names = w
==============================================================================
