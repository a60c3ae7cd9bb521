---------------------------- MODULE TokenRefresh ----------------------------
(***************************************************************************)
(* The OAuth tokens of the MercadoLibre adapter.  They live in one row of  *)
(* oauth_tokens that every outbox worker reads before a push, and replaces *)
(* after it has traded the refresh token for a new pair.  Nothing locks    *)
(* the row between the load, the request to the OAuth server and the save. *)
(***************************************************************************)
EXTENDS Naturals, FiniteSetsExt

CONSTANTS
  Workers,       \* processes that push orders
  Admin,         \* the operator's "auth" command, exchange_code
  Policies,      \* what the OAuth server may do with a refresh token
  Tokens,        \* names of refresh tokens, used again when nobody has them
  MaxAuths,      \* bound on authorizations by the operator
  MaxFaults      \* bound on deaths and lost responses

(* The server spends the refresh token and returns another ("rotates"), or *)
(* returns the same one ("keeps"), or none at all ("omits").               *)
Policy == {"rotates", "keeps", "omits"}
Clients == Workers \cup {Admin}

ASSUME TokenAssumption ==
  /\ Policies \subseteq Policy
  /\ Tokens \subseteq Nat \ {0}
  /\ Admin \notin Workers
  /\ MaxAuths \in Nat /\ MaxFaults \in Nat

VARIABLES
  policy,        \* the server's policy
  live,          \* refresh tokens that the server accepts
  row,           \* the row of oauth_tokens
  pc,            \* pc[c]: where client c is
  refreshWith,   \* refreshWith[c]: the refresh token that c has loaded
  granted,       \* granted[c]: the refresh token of a response not saved yet
  auths, faults  \* counters of the bounded events

clientVars == <<pc, refreshWith, granted>>
vars == <<policy, live, row, clientVars, auths, faults>>

(***************************************************************************)
(* The row: whether it exists, whether its access token is further from    *)
(* its expiry than the skew, and its refresh token; 0 is NULL.  All that   *)
(* matters of an access token is its age.                                  *)
(***************************************************************************)
MaybeToken == Tokens \cup {0}
Row == [saved : BOOLEAN, fresh : BOOLEAN, refresh : MaybeToken]

Init ==
  /\ policy \in Policies
  /\ live = {}
  /\ row = [saved |-> FALSE, fresh |-> FALSE, refresh |-> 0]
  /\ pc = [c \in Clients |-> "idle"]
  /\ refreshWith = [c \in Clients |-> 0]
  /\ granted = [c \in Clients |-> 0]
  /\ auths = 0 /\ faults = 0

Fault == faults < MaxFaults /\ faults' = faults + 1

(* An exception or the end of the push: what c knew is gone. *)
Forget(c) ==
  /\ pc' = [pc EXCEPT ![c] = "idle"]
  /\ refreshWith' = [refreshWith EXCEPT ![c] = 0]
  /\ granted' = [granted EXCEPT ![c] = 0]
-----------------------------------------------------------------------------
(* Mutant: an access token that is about to expire is used all the same. *)
LoadUnchecked(w) ==
  /\ pc[w] = "idle"
  /\ row.saved
  /\ pc' = [pc EXCEPT ![w] = "sending"]
  /\ UNCHANGED <<policy, live, row, refreshWith, granted, auths, faults>>

(***************************************************************************)
(* valid_access_token at the start of a push: load, compare with the skew. *)
(* Without a row it raises, and the push fails with nothing changed.       *)
(***************************************************************************)
Load(w) ==
  /\ pc[w] = "idle"
  /\ row.saved
  /\ pc' = [pc EXCEPT ![w] = IF row.fresh THEN "sending" ELSE "stale"]
  /\ UNCHANGED <<policy, live, row, refreshWith, granted, auths, faults>>

(* Mutant: a row without a refresh token is not told apart. *)
ReloadUnchecked(w) ==
  /\ pc[w] = "stale"
  /\ pc' = [pc EXCEPT ![w] = "asking"]
  /\ refreshWith' = [refreshWith EXCEPT ![w] = row.refresh]
  /\ UNCHANGED <<policy, live, row, granted, auths, faults>>

(* refresh() loads the row again and does not look at the expiry; without  *)
(* a refresh token it raises.                                              *)
Reload(w) ==
  /\ pc[w] = "stale"
  /\ IF row.refresh = 0
     THEN Forget(w)
     ELSE /\ pc' = [pc EXCEPT ![w] = "asking"]
          /\ refreshWith' = [refreshWith EXCEPT ![w] = row.refresh]
          /\ UNCHANGED granted
  /\ UNCHANGED <<policy, live, row, auths, faults>>
-----------------------------------------------------------------------------
(* The OAuth server.  A new token gets the least name that nobody has. *)
InUse ==
  live \cup {row.refresh} \cup {refreshWith[c] : c \in Clients}
       \cup {granted[c] : c \in Clients}

NewToken == Min(Tokens \ InUse)

Returned(used) ==
  CASE policy = "rotates" -> NewToken
    [] policy = "keeps"   -> used
    [] policy = "omits"   -> 0

LiveAfter(used) == IF policy = "rotates" THEN (live \ {used}) \cup {NewToken} ELSE live

Answer(c, token, stillLive) ==
  /\ live' = stillLive
  /\ pc' = [pc EXCEPT ![c] = "granted"]
  /\ granted' = [granted EXCEPT ![c] = token]
  /\ refreshWith' = [refreshWith EXCEPT ![c] = 0]

(* _token_request with the refresh token. *)
Refresh(w) ==
  /\ pc[w] = "asking"
  /\ refreshWith[w] \in live
  /\ Answer(w, Returned(refreshWith[w]), LiveAfter(refreshWith[w]))
  /\ UNCHANGED <<policy, row, auths, faults>>

(* The refresh token has been spent: 400, and raise_for_status raises. *)
RefreshRefused(w) ==
  /\ pc[w] = "asking"
  /\ refreshWith[w] \notin live
  /\ Forget(w)
  /\ UNCHANGED <<policy, live, row, auths, faults>>

(* The server has answered and the response is lost. *)
ResponseLost(w) ==
  /\ Fault
  /\ pc[w] = "asking"
  /\ refreshWith[w] \in live
  /\ live' = LiveAfter(refreshWith[w])
  /\ Forget(w)
  /\ UNCHANGED <<policy, row, auths>>

(* exchange_code: the operator grants access, and a pair is returned. *)
Authorize ==
  /\ pc[Admin] = "idle"
  /\ auths < MaxAuths /\ auths' = auths + 1
  /\ Answer(Admin, NewToken, live \cup {NewToken})
  /\ UNCHANGED <<policy, row, faults>>
-----------------------------------------------------------------------------
(* Mutant: the refresh token of an existing row is left alone. *)
SaveAccessOnly(c) ==
  /\ pc[c] = "granted"
  /\ row' = [saved |-> TRUE, fresh |-> TRUE,
             refresh |-> IF row.saved THEN row.refresh ELSE granted[c]]
  /\ pc' = [pc EXCEPT ![c] = IF c = Admin THEN "idle" ELSE "sending"]
  /\ granted' = [granted EXCEPT ![c] = 0]
  /\ UNCHANGED <<policy, live, refreshWith, auths, faults>>

(* DbTokenStore.save writes the whole row, whatever it holds by now.  A    *)
(* worker goes on to its push, the command ends.                           *)
Save(c) ==
  /\ pc[c] = "granted"
  /\ row' = [saved |-> TRUE, fresh |-> TRUE, refresh |-> granted[c]]
  /\ pc' = [pc EXCEPT ![c] = IF c = Admin THEN "idle" ELSE "sending"]
  /\ granted' = [granted EXCEPT ![c] = 0]
  /\ UNCHANGED <<policy, live, refreshWith, auths, faults>>

(* The push is over: accepted, refused, or 401 because the access token    *)
(* expired during the retries, which carry the header computed before.     *)
PushEnds(w) ==
  /\ pc[w] = "sending"
  /\ Forget(w)
  /\ UNCHANGED <<policy, live, row, auths, faults>>

Dies(c) ==
  /\ Fault
  /\ pc[c] # "idle"
  /\ Forget(c)
  /\ UNCHANGED <<policy, live, row, auths>>

(* Time passes.  A token lives for hours and a response is saved within    *)
(* seconds, so that tokens are fresh when they are saved.                  *)
NearsExpiry ==
  /\ row.saved /\ row.fresh
  /\ row' = [row EXCEPT !.fresh = FALSE]
  /\ UNCHANGED <<policy, live, clientVars, auths, faults>>

PushOrder(w) ==
  Load(w) \/ Reload(w) \/ Refresh(w) \/ RefreshRefused(w) \/ Save(w) \/ PushEnds(w)

Next ==
  \/ \E w \in Workers : PushOrder(w) \/ ResponseLost(w) \/ Dies(w)
  \/ Authorize \/ Save(Admin) \/ Dies(Admin)
  \/ NearsExpiry

Spec == Init /\ [][Next]_vars
-----------------------------------------------------------------------------
(* Every variable has its type, a client knows what its step needs and no  *)
(* more, and there is always a name for a token.                           *)
TypeOK ==
  /\ policy \in Policies /\ live \subseteq Tokens
  /\ row \in Row
  /\ pc \in [Clients -> {"idle", "stale", "asking", "granted", "sending"}]
  /\ refreshWith \in [Clients -> MaybeToken]
  /\ granted \in [Clients -> MaybeToken]
  /\ \A c \in Clients : /\ refreshWith[c] # 0 <=> pc[c] = "asking"
                        /\ granted[c] # 0 => pc[c] = "granted"
  /\ auths \in 0..MaxAuths /\ faults \in 0..MaxFaults
  /\ Tokens \ InUse # {}

InFlight(c) == pc[c] = "granted" /\ granted[c] \in live

(* The row's refresh token is of no use and no other is on its way there:  *)
(* only the operator's "auth" command helps.                               *)
LockedOut == row.refresh \notin live /\ \A c \in Clients : ~InFlight(c)

(* As long as nothing died and no response was lost the hub stays logged   *)
(* in, although workers refresh at the same time with the same token and   *)
(* save in any order: if the server returns refresh tokens at all, the row *)
(* has one that it accepts, or its successor is on the way.                *)
LockoutOnlyAfterFault ==
  policy # "omits" /\ faults = 0 /\ row.saved => ~LockedOut

(***************************************************************************)
(* Fairness: each worker pushes again and again (run_forever retries what  *)
(* failed), the OAuth server answers, and a command that has its answer    *)
(* saves it.                                                               *)
(***************************************************************************)
FairSpec ==
  Spec /\ WF_vars(Save(Admin)) /\ \A w \in Workers : WF_vars(PushOrder(w))

(* "Refreshes the access token automatically when it is close to expiry"   *)
(* (mercadolibre.py:4): near its expiry the stored access token is         *)
(* replaced by a fresh one, unless the hub is locked out.                  *)
TokenIsRenewed ==
  row.saved /\ ~row.fresh ~> row.fresh \/ LockedOut
=============================================================================
