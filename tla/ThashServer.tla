---------------------------- MODULE ThashServer ----------------------------
(***************************************************************************)
(* What a four-lane thash engine promises: it takes one request at a time, *)
(* ignores everything asked of it meanwhile, and answers in some later     *)
(* cycle with the four digests of the blocks it took, done holding for     *)
(* that one cycle.  A request it cannot serve is answered with zeros.      *)
(***************************************************************************)
EXTENDS ThashX4

CONSTANT Blocks          \* the blocks a request can carry

VARIABLES pending,       \* the blocks being worked on, or None
          answered,      \* done: the answer below was given in this cycle
          answer

serverVars == <<pending, answered, answer>>

None == <<>>

ServerInit ==
    /\ pending = None
    /\ answered = FALSE
    /\ answer = [l \in Lane |-> ZeroDigest]

Accept ==                \* the action that takes a request says which
    /\ pending = None
    /\ answered' = FALSE
    /\ UNCHANGED answer

Reject ==
    /\ pending = None
    /\ answered' = TRUE
    /\ answer' = [l \in Lane |-> ZeroDigest]
    /\ UNCHANGED pending

Respond ==
    /\ pending # None
    /\ pending' = None
    /\ answered' = TRUE
    /\ answer' = [l \in Lane |-> Thash(pending[l])]

\* A cycle in which nothing is taken and nothing is answered.
Quiet ==
    /\ answered' = FALSE
    /\ UNCHANGED <<pending, answer>>

ServerNext ==
    \/ Accept /\ pending' \in [Lane -> Blocks]
    \/ Reject
    \/ Respond
    \/ Quiet

\* Every request that is taken is answered.
EveryRequestAnswered == pending # None ~> answered

ServerSafety == ServerInit /\ [][ServerNext]_serverVars

ServerSpec == ServerSafety /\ EveryRequestAnswered
============================================================================
