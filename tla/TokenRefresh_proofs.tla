------------------------- MODULE TokenRefresh_proofs -------------------------
(***************************************************************************)
(* Theorems about TokenRefresh, for any finite number of workers, any      *)
(* policies and any bounds, if tokens never run out.  Workers race for one *)
(* refresh token without a lock, and what saves them is that a server that *)
(* rotates gives each answer a token nobody else has: whichever answer is  *)
(* saved last can be used.                                                 *)
(***************************************************************************)
EXTENDS TokenRefresh, FiniteSetTheorems, WellFoundedInduction, TLAPS

(* A real server always has another token. *)
EnoughTokens == IsFiniteSet(Workers) /\ ~ IsFiniteSet(Tokens)

(* TypeOK but for the token that is always left. *)
Types ==
  /\ policy \in Policies /\ live \subseteq Tokens
  /\ row \in Row
  /\ pc \in [Clients -> {"idle", "stale", "asking", "granted", "sending"}]
  /\ refreshWith \in [Clients -> MaybeToken]
  /\ granted \in [Clients -> MaybeToken]
  /\ auths \in 0..MaxAuths /\ faults \in 0..MaxFaults

(* A client knows what its step needs and no more. *)
KnowsWhatItNeeds ==
  \A c \in Clients : /\ refreshWith[c] # 0 <=> pc[c] = "asking"
                     /\ granted[c] # 0 => pc[c] = "granted"

(* A client that has an answer has a token that the server accepts. *)
GrantedIsLive ==
  policy # "omits" =>
    \A c \in Clients : pc[c] = "granted" => granted[c] # 0 /\ granted[c] \in live

(* A token of an answer is nobody else's, unless the server keeps tokens:  *)
(* so that nobody can spend it before it is saved.                         *)
GrantedIsNew ==
  policy = "rotates" =>
    \A c \in Clients : granted[c] # 0 =>
      /\ granted[c] # row.refresh
      /\ \A d \in Clients : granted[c] # refreshWith[d]
      /\ \A d \in Clients : d # c => granted[c] # granted[d]

Inv ==
  /\ Types /\ KnowsWhatItNeeds /\ IsFiniteSet(live)
  /\ GrantedIsLive /\ GrantedIsNew /\ LockoutOnlyAfterFault
-----------------------------------------------------------------------------
LEMMA LeastExists ==
  ASSUME NEW S, S \subseteq Nat, S # {}
  PROVE  \E x \in S : \A y \in S : x <= y
<1>1. \E x \in S : \A y \in S : ~ (<<y, x>> \in OpToRel(<, Nat))
  BY WFMin, NatLessThanWellFounded, Zenon
<1>2. \A x, y \in Nat : x < y => <<x, y>> \in OpToRel(<, Nat)
  BY Zenon DEF OpToRel
<1>3. \E x \in S : \A y \in S : ~ (y < x)
  BY <1>1, <1>2, Zenon
<1> QED
  BY <1>3

LEMMA ImageIsFinite ==
  ASSUME NEW S, NEW T, NEW f \in [S -> T], IsFiniteSet(S)
  PROVE  IsFiniteSet({f[x] : x \in S})
<1>1. f \in Surjection(S, {f[x] : x \in S})
  BY DEF Surjection
<1> QED
  BY <1>1, FS_Surjection

(* There is always a token that nobody has. *)
LEMMA TokensAreLeft ==
  ASSUME EnoughTokens, Inv
  PROVE  Tokens \ InUse # {}
<1>1. IsFiniteSet(Clients)
  <2>1. IsFiniteSet(Workers) /\ IsFiniteSet({Admin})
    BY FS_Singleton DEF EnoughTokens
  <2> QED
    BY <2>1, FS_Union DEF Clients
<1>2. IsFiniteSet({refreshWith[c] : c \in Clients}) /\ IsFiniteSet({granted[c] : c \in Clients})
  <2>1. refreshWith \in [Clients -> MaybeToken] /\ granted \in [Clients -> MaybeToken]
    BY DEF Inv, Types
  <2>2. IsFiniteSet({refreshWith[c] : c \in Clients})
    BY <1>1, <2>1, ImageIsFinite
  <2>3. IsFiniteSet({granted[c] : c \in Clients})
    BY <1>1, <2>1, ImageIsFinite
  <2> QED
    BY <2>2, <2>3
<1>3. IsFiniteSet({row.refresh})
  BY FS_Singleton
<1>4. IsFiniteSet(live \cup {row.refresh})
  BY <1>3, FS_Union DEF Inv
<1>5. IsFiniteSet((live \cup {row.refresh}) \cup {refreshWith[c] : c \in Clients})
  BY <1>2, <1>4, FS_Union
<1>6. IsFiniteSet(InUse)
  BY <1>2, <1>5, FS_Union DEF InUse
<1>7. SUFFICES ASSUME Tokens \ InUse = {} PROVE FALSE
  OBVIOUS
<1>8. Tokens \subseteq InUse
  BY <1>7
<1> QED
  BY <1>6, <1>8, FS_Subset DEF EnoughTokens

LEMMA NewTokenIsNew ==
  ASSUME EnoughTokens, Inv
  PROVE  /\ NewToken \in Tokens /\ NewToken # 0
         /\ NewToken \notin live /\ NewToken # row.refresh
         /\ \A c \in Clients : NewToken # refreshWith[c] /\ NewToken # granted[c]
<1>1. Tokens \ InUse \subseteq Nat /\ 0 \notin Tokens
  BY TokenAssumption DEF TokenAssumption
<1>2. \E x \in Tokens \ InUse : \A y \in Tokens \ InUse : x <= y
  BY <1>1, TokensAreLeft, LeastExists
<1>3. NewToken \in Tokens \ InUse
  BY <1>2 DEF NewToken, Min
<1> QED
  BY <1>1, <1>3 DEF InUse

(* What a client that drops what it knows leaves behind. *)
LEMMA ForgetFacts ==
  ASSUME Types, KnowsWhatItNeeds, NEW c \in Clients, Forget(c)
  PROVE  /\ pc' \in [Clients -> {"idle", "stale", "asking", "granted", "sending"}]
         /\ refreshWith' \in [Clients -> MaybeToken]
         /\ granted' \in [Clients -> MaybeToken]
         /\ KnowsWhatItNeeds'
         /\ pc'[c] = "idle" /\ refreshWith'[c] = 0 /\ granted'[c] = 0
         /\ \A d \in Clients : d # c =>
              pc'[d] = pc[d] /\ refreshWith'[d] = refreshWith[d] /\ granted'[d] = granted[d]
<1>1. /\ pc' = [pc EXCEPT ![c] = "idle"]
      /\ refreshWith' = [refreshWith EXCEPT ![c] = 0]
      /\ granted' = [granted EXCEPT ![c] = 0]
  BY DEF Forget
<1>2. 0 \in MaybeToken
  BY DEF MaybeToken
<1>3. /\ pc \in [Clients -> {"idle", "stale", "asking", "granted", "sending"}]
      /\ refreshWith \in [Clients -> MaybeToken]
      /\ granted \in [Clients -> MaybeToken]
  BY DEF Types
<1>4. /\ pc'[c] = "idle" /\ refreshWith'[c] = 0 /\ granted'[c] = 0
      /\ \A d \in Clients : d # c =>
           pc'[d] = pc[d] /\ refreshWith'[d] = refreshWith[d] /\ granted'[d] = granted[d]
  BY <1>1, <1>3
<1> QED
  BY <1>1, <1>2, <1>3, <1>4 DEF KnowsWhatItNeeds

(* The server does not spend a token that it has just granted. *)
GrantedSurvive(stillLive) ==
  policy # "omits" =>
    \A d \in Clients : granted[d] # 0 /\ granted[d] \in live => granted[d] \in stillLive

(* A client that forgets keeps the invariant, if it was not in flight or   *)
(* something has died or been lost.                                        *)
LEMMA ForgetKeepsInv ==
  ASSUME Inv, NEW c \in Clients, Forget(c), UNCHANGED <<policy, row, auths>>,
         live' \subseteq Tokens, IsFiniteSet(live'), GrantedSurvive(live'),
         faults' \in 0..MaxFaults,
         faults' # 0 \/ (faults' = faults /\ pc[c] # "granted" /\ live' = live)
  PROVE  Inv'
<1>1. /\ pc' \in [Clients -> {"idle", "stale", "asking", "granted", "sending"}]
      /\ refreshWith' \in [Clients -> MaybeToken]
      /\ granted' \in [Clients -> MaybeToken]
      /\ KnowsWhatItNeeds'
      /\ pc'[c] = "idle" /\ refreshWith'[c] = 0 /\ granted'[c] = 0
      /\ \A d \in Clients : d # c =>
           pc'[d] = pc[d] /\ refreshWith'[d] = refreshWith[d] /\ granted'[d] = granted[d]
  BY ForgetFacts DEF Inv
<1>2. Types'
  BY <1>1 DEF Inv, Types
<1>3. GrantedIsLive'
  BY <1>1 DEF Inv, GrantedIsLive, GrantedSurvive
<1>4. GrantedIsNew'
  <2> SUFFICES ASSUME policy = "rotates", NEW d \in Clients, granted'[d] # 0
               PROVE  /\ granted'[d] # row.refresh
                      /\ \A e \in Clients : granted'[d] # refreshWith'[e]
                      /\ \A e \in Clients : e # d => granted'[d] # granted'[e]
    BY DEF GrantedIsNew
  <2>1. d # c /\ granted'[d] = granted[d] /\ granted[d] # 0
    BY <1>1
  <2>2. /\ granted[d] # row.refresh
        /\ \A e \in Clients : granted[d] # refreshWith[e]
        /\ \A e \in Clients : e # d => granted[d] # granted[e]
    BY <2>1 DEF Inv, GrantedIsNew
  <2> QED
    BY <1>1, <2>1, <2>2
<1>5. LockoutOnlyAfterFault'
  <2> SUFFICES ASSUME faults' = 0, policy # "omits", row.saved, row.refresh \notin live'
               PROVE  \E d \in Clients : InFlight(d)'
    BY DEF LockoutOnlyAfterFault, LockedOut
  <2>1. PICK d \in Clients : InFlight(d)
    BY DEF Inv, LockoutOnlyAfterFault, LockedOut
  <2>2. d # c
    BY <2>1 DEF InFlight
  <2>3. InFlight(d)'
    BY <1>1, <2>1, <2>2 DEF InFlight
  <2> QED
    BY <2>3
<1> QED
  BY <1>1, <1>2, <1>3, <1>4, <1>5 DEF Inv
-----------------------------------------------------------------------------
LEMMA InitInv ==
  ASSUME Init
  PROVE  Inv
<1>1. 0 \in MaybeToken /\ MaxAuths \in Nat /\ MaxFaults \in Nat
  BY TokenAssumption DEF TokenAssumption, MaybeToken
<1>2. Types
  BY <1>1 DEF Init, Types, Row
<1>3. KnowsWhatItNeeds /\ GrantedIsLive /\ GrantedIsNew /\ LockoutOnlyAfterFault
  BY DEF Init, KnowsWhatItNeeds, GrantedIsLive, GrantedIsNew, LockoutOnlyAfterFault
<1>4. IsFiniteSet(live)
  BY FS_EmptySet DEF Init
<1> QED
  BY <1>2, <1>3, <1>4 DEF Inv

(* The worker reads the row. *)
LEMMA LoadInv ==
  ASSUME Inv, NEW w \in Clients, Load(w)
  PROVE  Inv'
<1>1. /\ pc[w] = "idle" /\ UNCHANGED <<policy, live, row, refreshWith, granted, auths, faults>>
      /\ \E s \in {"sending", "stale"} : pc' = [pc EXCEPT ![w] = s]
  BY DEF Load
<1>2. /\ pc' \in [Clients -> {"idle", "stale", "asking", "granted", "sending"}]
      /\ \A d \in Clients : pc'[d] # pc[d] =>
           d = w /\ pc[d] = "idle" /\ pc'[d] \in {"sending", "stale"}
  BY <1>1 DEF Inv, Types
<1>3. Types'
  BY <1>1, <1>2 DEF Inv, Types
<1>4. KnowsWhatItNeeds'
  BY <1>1, <1>2 DEF Inv, KnowsWhatItNeeds
<1>5. GrantedIsLive'
  BY <1>1, <1>2 DEF Inv, GrantedIsLive
<1>6. GrantedIsNew'
  BY <1>1 DEF Inv, GrantedIsNew
<1>7. \A d \in Clients : InFlight(d) => InFlight(d)'
  BY <1>1, <1>2 DEF InFlight
<1>8. LockoutOnlyAfterFault'
  BY <1>1, <1>7 DEF Inv, LockoutOnlyAfterFault, LockedOut
<1> QED
  BY <1>1, <1>3, <1>4, <1>5, <1>6, <1>8 DEF Inv

LEMMA ReloadInv ==
  ASSUME Inv, NEW w \in Clients, Reload(w)
  PROVE  Inv'
<1>1. pc[w] = "stale" /\ UNCHANGED <<policy, live, row, auths, faults>>
  BY DEF Reload
<1>2. CASE row.refresh = 0
  <2>1. Forget(w)
    BY <1>2 DEF Reload
  <2>2. faults' \in 0..MaxFaults /\ faults' = faults /\ pc[w] # "granted"
    BY <1>1 DEF Inv, Types
  <2>3. live' \subseteq Tokens /\ IsFiniteSet(live') /\ GrantedSurvive(live') /\ live' = live
    BY <1>1 DEF Inv, Types, GrantedSurvive
  <2> QED
    BY <1>1, <2>1, <2>2, <2>3, ForgetKeepsInv
<1>3. CASE row.refresh # 0
  <2>1. /\ pc' = [pc EXCEPT ![w] = "asking"]
        /\ refreshWith' = [refreshWith EXCEPT ![w] = row.refresh]
        /\ granted' = granted
    BY <1>3 DEF Reload
  <2>2. row.refresh \in MaybeToken
    BY DEF Inv, Types, Row
  <2>3. /\ pc' \in [Clients -> {"idle", "stale", "asking", "granted", "sending"}]
        /\ refreshWith' \in [Clients -> MaybeToken]
        /\ pc'[w] = "asking" /\ refreshWith'[w] = row.refresh
        /\ \A d \in Clients : d # w => pc'[d] = pc[d] /\ refreshWith'[d] = refreshWith[d]
    BY <2>1, <2>2 DEF Inv, Types
  <2>4. Types'
    BY <1>1, <2>1, <2>3 DEF Inv, Types
  <2>5. granted[w] = 0
    BY <1>1 DEF Inv, KnowsWhatItNeeds
  <2>6. KnowsWhatItNeeds'
    BY <1>3, <2>1, <2>3, <2>5 DEF Inv, KnowsWhatItNeeds
  <2>7. GrantedIsLive'
    BY <1>1, <2>1, <2>3 DEF Inv, GrantedIsLive
  <2>8. GrantedIsNew'
    BY <1>1, <2>1, <2>3 DEF Inv, GrantedIsNew
  <2>9. \A d \in Clients : InFlight(d) => InFlight(d)'
    BY <1>1, <2>1, <2>3 DEF InFlight
  <2>10. LockoutOnlyAfterFault'
    BY <1>1, <2>9 DEF Inv, LockoutOnlyAfterFault, LockedOut
  <2> QED
    BY <1>1, <2>4, <2>6, <2>7, <2>8, <2>10 DEF Inv
<1> QED
  BY <1>2, <1>3

(* What the server does to its tokens when it accepts one. *)
LEMMA LiveAfterFacts ==
  ASSUME EnoughTokens, Inv, NEW used \in live
  PROVE  /\ LiveAfter(used) \subseteq Tokens /\ IsFiniteSet(LiveAfter(used))
         /\ \A t \in live : t # used => t \in LiveAfter(used)
         /\ policy = "keeps" => LiveAfter(used) = live
         /\ policy = "rotates" => NewToken \in LiveAfter(used)
<1>1. NewToken \in Tokens
  BY NewTokenIsNew
<1>2. IsFiniteSet(live \ {used})
  BY FS_Subset DEF Inv
<1>3. IsFiniteSet((live \ {used}) \cup {NewToken})
  BY <1>2, FS_AddElement
<1> QED
  BY <1>1, <1>3 DEF LiveAfter, Inv, Types

LEMMA SpendingSpares ==
  ASSUME EnoughTokens, Inv, NEW w \in Clients, pc[w] = "asking", refreshWith[w] \in live
  PROVE  GrantedSurvive(LiveAfter(refreshWith[w]))
<1> SUFFICES ASSUME policy # "omits", NEW d \in Clients, granted[d] # 0, granted[d] \in live
             PROVE  granted[d] \in LiveAfter(refreshWith[w])
  BY DEF GrantedSurvive
<1>1. CASE policy = "rotates"
  <2>1. granted[d] # refreshWith[w]
    BY <1>1 DEF Inv, GrantedIsNew
  <2> QED
    BY <2>1, LiveAfterFacts
<1>2. CASE policy # "rotates"
  BY <1>2 DEF LiveAfter
<1> QED
  BY <1>1, <1>2

(* A client gets an answer. *)
LEMMA AnswerKeepsInv ==
  ASSUME Inv, NEW c \in Clients, NEW token \in MaybeToken, NEW stillLive \in SUBSET Tokens,
         Answer(c, token, stillLive), UNCHANGED <<policy, row, faults>>,
         pc[c] # "granted", IsFiniteSet(stillLive), GrantedSurvive(stillLive),
         auths' \in 0..MaxAuths,
         policy # "omits" => token # 0 /\ token \in stillLive,
         policy = "rotates" =>
           /\ token # row.refresh
           /\ \A d \in Clients : token # refreshWith[d] /\ token # granted[d]
  PROVE  Inv'
<1>1. /\ live' = stillLive
      /\ pc' = [pc EXCEPT ![c] = "granted"]
      /\ granted' = [granted EXCEPT ![c] = token]
      /\ refreshWith' = [refreshWith EXCEPT ![c] = 0]
  BY DEF Answer
<1>2. 0 \in MaybeToken
  BY DEF MaybeToken
<1>3. /\ pc' \in [Clients -> {"idle", "stale", "asking", "granted", "sending"}]
      /\ refreshWith' \in [Clients -> MaybeToken]
      /\ granted' \in [Clients -> MaybeToken]
      /\ pc'[c] = "granted" /\ refreshWith'[c] = 0 /\ granted'[c] = token
      /\ \A d \in Clients : d # c =>
           pc'[d] = pc[d] /\ refreshWith'[d] = refreshWith[d] /\ granted'[d] = granted[d]
  BY <1>1, <1>2 DEF Inv, Types
<1>4. Types'
  BY <1>1, <1>3 DEF Inv, Types
<1>5. KnowsWhatItNeeds'
  BY <1>3 DEF Inv, KnowsWhatItNeeds
<1>6. GrantedIsLive'
  BY <1>1, <1>3 DEF Inv, GrantedIsLive, GrantedSurvive
<1>7. GrantedIsNew'
  <2> SUFFICES ASSUME policy = "rotates", NEW d \in Clients, granted'[d] # 0
               PROVE  /\ granted'[d] # row.refresh
                      /\ \A e \in Clients : granted'[d] # refreshWith'[e]
                      /\ \A e \in Clients : e # d => granted'[d] # granted'[e]
    BY DEF GrantedIsNew
  <2>1. CASE d = c
    BY <1>3, <2>1
  <2>2. CASE d # c
    <3>1. /\ granted[d] # row.refresh
          /\ \A e \in Clients : granted[d] # refreshWith[e]
          /\ \A e \in Clients : e # d => granted[d] # granted[e]
      BY <1>3, <2>2 DEF Inv, GrantedIsNew
    <3> QED
      BY <1>3, <2>2, <3>1
  <2> QED
    BY <2>1, <2>2
<1>8. policy # "omits" => InFlight(c)'
  BY <1>1, <1>3 DEF InFlight
<1>9. LockoutOnlyAfterFault'
  BY <1>8 DEF LockoutOnlyAfterFault, LockedOut
<1> QED
  BY <1>1, <1>4, <1>5, <1>6, <1>7, <1>9 DEF Inv

LEMMA RefreshInv ==
  ASSUME EnoughTokens, Inv, NEW w \in Clients, Refresh(w)
  PROVE  Inv'
<1> DEFINE used == refreshWith[w]
<1>1. /\ pc[w] = "asking" /\ used \in live
      /\ Answer(w, Returned(used), LiveAfter(used))
      /\ UNCHANGED <<policy, row, auths, faults>>
  BY DEF Refresh
<1>2. used # 0 /\ used \in Tokens
  BY <1>1 DEF Inv, KnowsWhatItNeeds, Types
<1>3. /\ NewToken \in Tokens /\ NewToken # 0 /\ NewToken # row.refresh
      /\ \A d \in Clients : NewToken # refreshWith[d] /\ NewToken # granted[d]
  BY NewTokenIsNew
<1>4. policy \in {"rotates", "keeps", "omits"}
  BY TokenAssumption DEF Inv, Types, TokenAssumption, Policy
<1>5. Returned(used) \in MaybeToken
  BY <1>2, <1>3, <1>4 DEF Returned, MaybeToken
<1>6. /\ LiveAfter(used) \in SUBSET Tokens /\ IsFiniteSet(LiveAfter(used))
      /\ policy = "keeps" => LiveAfter(used) = live
      /\ policy = "rotates" => NewToken \in LiveAfter(used)
  BY <1>1, LiveAfterFacts
<1>7. policy # "omits" => Returned(used) # 0 /\ Returned(used) \in LiveAfter(used)
  BY <1>1, <1>2, <1>3, <1>4, <1>6 DEF Returned
<1>8. policy = "rotates" => Returned(used) = NewToken
  BY DEF Returned
<1>9. GrantedSurvive(LiveAfter(used))
  BY <1>1, SpendingSpares
<1>10. auths' \in 0..MaxAuths /\ pc[w] # "granted"
  BY <1>1 DEF Inv, Types
<1> HIDE DEF used
<1> QED
  BY <1>1, <1>3, <1>5, <1>6, <1>7, <1>8, <1>9, <1>10, AnswerKeepsInv

LEMMA AuthorizeInv ==
  ASSUME EnoughTokens, Inv, Authorize
  PROVE  Inv'
<1>1. /\ pc[Admin] = "idle" /\ auths < MaxAuths /\ auths' = auths + 1
      /\ Answer(Admin, NewToken, live \cup {NewToken})
      /\ UNCHANGED <<policy, row, faults>>
  BY DEF Authorize
<1>2. Admin \in Clients
  BY DEF Clients
<1>3. /\ NewToken \in Tokens /\ NewToken # 0 /\ NewToken # row.refresh
      /\ \A d \in Clients : NewToken # refreshWith[d] /\ NewToken # granted[d]
  BY NewTokenIsNew
<1>4. auths' \in 0..MaxAuths
  BY <1>1, TokenAssumption DEF Inv, Types, TokenAssumption
<1>5. IsFiniteSet(live \cup {NewToken})
  BY FS_AddElement DEF Inv
<1>6. NewToken \in MaybeToken /\ live \cup {NewToken} \in SUBSET Tokens
  BY <1>3 DEF MaybeToken, Inv, Types
<1>7. GrantedSurvive(live \cup {NewToken})
  BY DEF GrantedSurvive
<1>8. pc[Admin] # "granted"
  BY <1>1
<1> QED
  BY <1>1, <1>2, <1>3, <1>4, <1>5, <1>6, <1>7, <1>8, AnswerKeepsInv

(* The row is overwritten with the token of an answer. *)
LEMMA SaveInv ==
  ASSUME Inv, NEW c \in Clients, Save(c)
  PROVE  Inv'
<1>1. /\ pc[c] = "granted"
      /\ row' = [saved |-> TRUE, fresh |-> TRUE, refresh |-> granted[c]]
      /\ \E s \in {"idle", "sending"} : pc' = [pc EXCEPT ![c] = s]
      /\ granted' = [granted EXCEPT ![c] = 0]
      /\ UNCHANGED <<policy, live, refreshWith, auths, faults>>
  BY DEF Save
<1>2. 0 \in MaybeToken /\ granted[c] \in MaybeToken
  BY DEF MaybeToken, Inv, Types
<1>3. /\ pc' \in [Clients -> {"idle", "stale", "asking", "granted", "sending"}]
      /\ granted' \in [Clients -> MaybeToken]
      /\ pc'[c] \in {"idle", "sending"} /\ granted'[c] = 0
      /\ \A d \in Clients : d # c => pc'[d] = pc[d] /\ granted'[d] = granted[d]
  BY <1>1, <1>2 DEF Inv, Types
<1>4. row' \in Row /\ row'.refresh = granted[c]
  BY <1>1, <1>2 DEF Row
<1>5. Types'
  BY <1>1, <1>3, <1>4 DEF Inv, Types
<1>6. refreshWith[c] = 0
  BY <1>1 DEF Inv, KnowsWhatItNeeds
<1>7. KnowsWhatItNeeds'
  BY <1>1, <1>3, <1>6 DEF Inv, KnowsWhatItNeeds
<1>8. GrantedIsLive'
  BY <1>1, <1>3 DEF Inv, GrantedIsLive
<1>9. GrantedIsNew'
  <2> SUFFICES ASSUME policy = "rotates", NEW d \in Clients, granted'[d] # 0
               PROVE  /\ granted'[d] # row'.refresh
                      /\ \A e \in Clients : granted'[d] # refreshWith'[e]
                      /\ \A e \in Clients : e # d => granted'[d] # granted'[e]
    BY <1>1 DEF GrantedIsNew
  <2>1. d # c /\ granted'[d] = granted[d] /\ granted[d] # 0
    BY <1>3
  <2>2. /\ \A e \in Clients : granted[d] # refreshWith[e]
        /\ \A e \in Clients : e # d => granted[d] # granted[e]
    BY <2>1 DEF Inv, GrantedIsNew
  <2> QED
    BY <1>1, <1>3, <1>4, <2>1, <2>2
<1>10. policy # "omits" => granted[c] \in live
  BY <1>1 DEF Inv, GrantedIsLive
<1>11. LockoutOnlyAfterFault'
  BY <1>1, <1>4, <1>10 DEF LockoutOnlyAfterFault, LockedOut
<1> QED
  BY <1>1, <1>5, <1>7, <1>8, <1>9, <1>11 DEF Inv

LEMMA NearsExpiryInv ==
  ASSUME Inv, NearsExpiry
  PROVE  Inv'
<1>1. /\ row.saved /\ row' = [row EXCEPT !.fresh = FALSE]
      /\ UNCHANGED <<policy, live, pc, refreshWith, granted, auths, faults>>
  BY DEF NearsExpiry, clientVars
<1>2. row' \in Row /\ row'.refresh = row.refresh /\ row'.saved = row.saved
  BY <1>1 DEF Inv, Types, Row
<1>3. Types' /\ KnowsWhatItNeeds' /\ GrantedIsLive'
  BY <1>1, <1>2 DEF Inv, Types, KnowsWhatItNeeds, GrantedIsLive
<1>4. GrantedIsNew'
  BY <1>1, <1>2 DEF Inv, GrantedIsNew
<1>5. \A d \in Clients : InFlight(d) => InFlight(d)'
  BY <1>1 DEF InFlight
<1>6. LockoutOnlyAfterFault'
  BY <1>1, <1>2, <1>5 DEF Inv, LockoutOnlyAfterFault, LockedOut
<1> QED
  BY <1>1, <1>3, <1>4, <1>6 DEF Inv

(* The ends of a push, and what dies or is lost. *)
LEMMA EndsInv ==
  ASSUME EnoughTokens, Inv, NEW c \in Clients,
         RefreshRefused(c) \/ PushEnds(c) \/ ResponseLost(c) \/ Dies(c)
  PROVE  Inv'
<1>0. MaxFaults \in Nat /\ faults \in 0..MaxFaults
  BY TokenAssumption DEF Inv, Types, TokenAssumption
<1>1. GrantedSurvive(live) /\ live \subseteq Tokens /\ IsFiniteSet(live)
  BY DEF GrantedSurvive, Inv, Types
<1>2. CASE RefreshRefused(c) \/ PushEnds(c)
  <2>1. Forget(c) /\ pc[c] # "granted" /\ UNCHANGED <<policy, live, row, auths, faults>>
    BY <1>2 DEF RefreshRefused, PushEnds
  <2> QED
    BY <1>0, <1>1, <2>1, ForgetKeepsInv
<1>3. ASSUME Fault PROVE faults' \in 0..MaxFaults /\ faults' # 0
  BY <1>0, <1>3 DEF Fault
<1>4. CASE Dies(c)
  <2>1. Forget(c) /\ Fault /\ UNCHANGED <<policy, live, row, auths>>
    BY <1>4 DEF Dies
  <2> QED
    BY <1>1, <1>3, <2>1, ForgetKeepsInv
<1>5. CASE ResponseLost(c)
  <2>1. /\ Forget(c) /\ Fault /\ UNCHANGED <<policy, row, auths>>
        /\ pc[c] = "asking" /\ refreshWith[c] \in live
        /\ live' = LiveAfter(refreshWith[c])
    BY <1>5 DEF ResponseLost
  <2>2. live' \subseteq Tokens /\ IsFiniteSet(live')
    BY <2>1, LiveAfterFacts
  <2>3. GrantedSurvive(live')
    BY <2>1, SpendingSpares DEF GrantedSurvive
  <2> QED
    BY <1>3, <2>1, <2>2, <2>3, ForgetKeepsInv
<1> QED
  BY <1>2, <1>4, <1>5

LEMMA NextInv ==
  ASSUME EnoughTokens, Inv, [Next]_vars
  PROVE  Inv'
<1>1. CASE UNCHANGED vars
  <2>1. UNCHANGED <<policy, live, row, pc, refreshWith, granted, auths, faults>>
    BY <1>1 DEF vars, clientVars
  <2>2. Types' /\ KnowsWhatItNeeds' /\ GrantedIsLive'
    BY <2>1 DEF Inv, Types, KnowsWhatItNeeds, GrantedIsLive
  <2>3. GrantedIsNew' /\ LockoutOnlyAfterFault'
    BY <2>1 DEF Inv, GrantedIsNew, LockoutOnlyAfterFault, LockedOut, InFlight
  <2> QED
    BY <2>1, <2>2, <2>3 DEF Inv
<1>2. Admin \in Clients /\ Workers \subseteq Clients
  BY DEF Clients
<1>3. ASSUME NEW w \in Workers, PushOrder(w) \/ ResponseLost(w) \/ Dies(w)
      PROVE  Inv'
  <2>1. w \in Clients
    BY <1>2
  <2> QED
    BY <1>3, <2>1, LoadInv, ReloadInv, RefreshInv, SaveInv, EndsInv DEF PushOrder
<1>4. CASE Authorize \/ NearsExpiry
  BY <1>4, AuthorizeInv, NearsExpiryInv
<1>5. CASE Save(Admin) \/ Dies(Admin)
  BY <1>2, <1>5, SaveInv, EndsInv
<1> QED
  BY <1>1, <1>3, <1>4, <1>5 DEF Next
-----------------------------------------------------------------------------
(* Every reachable state is well typed, for any workers, policies and      *)
(* bounds on faults and authorizations.                                    *)
THEOREM TypeCorrect ==
  ASSUME EnoughTokens
  PROVE  Spec => []TypeOK
<1>1. Init => Inv
  BY InitInv
<1>2. Inv /\ [Next]_vars => Inv'
  BY NextInv
<1>3. Inv => TypeOK
  BY TokensAreLeft DEF Inv, Types, KnowsWhatItNeeds, TypeOK
<1> QED
  BY <1>1, <1>2, <1>3, PTL DEF Spec

(* If nothing dies and no response is lost, refresh and save of any number *)
(* of workers, in any order and without a lock, leave the hub logged in.   *)
THEOREM RacesDoNotLockOut ==
  ASSUME EnoughTokens
  PROVE  Spec => []LockoutOnlyAfterFault
<1>1. Init => Inv
  BY InitInv
<1>2. Inv /\ [Next]_vars => Inv'
  BY NextInv
<1>3. Inv => LockoutOnlyAfterFault
  BY DEF Inv
<1> QED
  BY <1>1, <1>2, <1>3, PTL DEF Spec
=============================================================================
