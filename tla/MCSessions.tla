----------------------------- MODULE MCSessions -----------------------------
(***************************************************************************)
(* Values for model checking ClientSession.  A behaviour is about one      *)
(* subject: the server alone with every request of Sessions, or one tab    *)
(* whose calls are the only requests the server gets.                      *)
(***************************************************************************)
EXTENDS ClientSession, TLC

VARIABLES subject

MCInit == ClientInit /\ subject \in {"server", "tab"}

\* Three tokens are enough for most questions; the fourth is one that a tab is
\* given while there is a pair written too late, and all it does is use it.
MostTokens == 3

\* One account is enough for the tokens of the server.
ServerOnly ==
    /\ Next
    /\ Len(token') <= MostTokens
    /\ Cardinality({u \in Users : account'[u] # "absent"}) <= 1
    /\ UNCHANGED <<browser, dead>>

\* To a tab an account that is deactivated is one whose tokens have expired.
TabOnly ==
    /\ ClientNext
    /\ Len(token') > MostTokens /\ token' # token => lateWrite
    /\ Len(token) > MostTokens => UNCHANGED <<token, dead, posts>> /\ ~loading'
    /\ \A r \in Requests \ Calls : request'[r] = Idle
    /\ \A u \in Users : account'[u] # "inactive"
    /\ expired' = 0

MCNext ==
    /\ \/ subject = "server" /\ ServerOnly
       \/ subject = "tab" /\ TabOnly
    /\ UNCHANGED subject

MCSpec == MCInit /\ [][MCNext]_<<clientVars, subject>>

Symmetry == Permutations(Users) \cup Permutations(Calls)

=============================================================================
