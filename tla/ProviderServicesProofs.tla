------------------------- MODULE ProviderServicesProofs -------------------------
(***************************************************************************)
(* What holds of ProviderServices for any workers, calls, kinds, users,     *)
(* attempts and faults: types, what a row says of the provider, and which  *)
(* executed calls may end up without one.                                  *)
(***************************************************************************)
EXTENDS ProviderServices, TLAPS

ScopeType == [step : Steps, service : Services, rows : [Calls -> Status], inserts : SUBSET Users,
              reads : Users \cup {Nothing}, call : Calls \cup {Nothing}, kind : AllKinds, tries : 0 .. Attempts]

Typed ==
  /\ row \in [Calls -> Status] /\ balances \subseteq Users
  /\ executed \in [Calls -> Nat] /\ company \subseteq Calls
  /\ scope \in [Workers -> ScopeType]
  /\ faults \in [{"lost", "crash", "alert"} -> Nat]

(* A scope is in a call exactly between its steps, has stored nothing for  *)
(* it yet, and shares with company whatever something else could take away. *)
Consistent(s) ==
  /\ s.step = "idle" => s.rows = NoRows
  /\ s.step \in {"idle", "open"} => s.call = Nothing
  /\ s.step \in {"call", "alert", "fail"} => s.call \in Calls /\ s.rows[s.call] = "none"
  /\ s.step = "call" => s.tries < Attempts
  /\ s.reads = Nothing => s.inserts = {}
  /\ \A c \in Calls : s.rows[c] \in DoneStatus => s.call # c

Shared(s, C) ==
  /\ s.reads # Nothing => \A c \in Calls : c = s.call \/ s.rows[c] # "none" => c \in C
  /\ \A c, d \in Calls : c # d /\ s.rows[c] # "none" /\ s.rows[d] # "none" => c \in C
  /\ s.step \in {"call", "alert", "fail"} => \A c \in Calls : s.rows[c] # "none" => c \in C /\ s.call \in C
  /\ s.step \notin {"idle", "open"} => \A c \in Calls : s.rows[c] \in DoneStatus => c \in C

(* A call is in one scope, and not in the tables before that scope commits. *)
Holds(w, c) == scope[w].call = c \/ scope[w].rows[c] # "none"

HeldOnce ==
  \A c \in Calls, w \in Workers :
    Holds(w, c) => row[c] = "none" /\ \A v \in Workers \ {w} : ~Holds(v, c)

(* What is known of a call's executions: it has not been answered while it *)
(* goes on or when it has failed.                                          *)
Undone(c) ==
  \/ row[c] \in FailedStatus
  \/ \E w \in Workers : scope[w].call = c \/ scope[w].rows[c] \in FailedStatus

Counted(c) ==
  /\ executed[c] <= 1 + faults["lost"]
  /\ Recorded(c) => executed[c] >= 1
  /\ Undone(c) => executed[c] <= faults["lost"]
  /\ ~Recorded(c) => executed[c] <= faults["lost"] + faults["crash"] + (IF c \in company \cup LongCoins THEN 1 ELSE 0)

IInv ==
  /\ Typed
  /\ \A w \in Workers : Consistent(scope[w]) /\ Shared(scope[w], company)
  /\ HeldOnce
  /\ \A c \in Calls : Counted(c)

-----------------------------------------------------------------------------
LEMMA StatusFacts ==
  /\ "none" \notin DoneStatus /\ "none" \notin FailedStatus /\ DoneStatus \cap FailedStatus = {}
  /\ \A k \in AllKinds : Done(k) \in DoneStatus /\ Failed(k) \in FailedStatus
  /\ DoneStatus \subseteq Status /\ FailedStatus \subseteq Status /\ "none" \in Status
BY DEF DoneStatus, FailedStatus, Done, Failed, AllKinds, Status

LEMMA IdleFacts ==
  /\ Idle \in ScopeType /\ Idle.step = "idle" /\ Idle.rows = NoRows /\ Idle.call = Nothing
  /\ Idle.reads = Nothing /\ Idle.inserts = {}
  /\ \A C : Consistent(Idle) /\ Shared(Idle, C)
<1>1. NoRows \in [Calls -> Status] /\ \A c \in Calls : NoRows[c] = "none"
  BY StatusFacts DEF NoRows
<1>2. Idle \in ScopeType
  BY <1>1, ProviderAssumption DEF Idle, ScopeType, Steps, Services, AllKinds
<1>3. \A c \in Calls : NoRows[c] \notin DoneStatus
  BY <1>1, StatusFacts
<1> QED BY <1>1, <1>2, <1>3 DEF Idle, Consistent, Shared

(* A step of one scope that takes no call but an unused one.               *)
LEMMA ScopeStep ==
  ASSUME IInv, NEW w \in Workers, NEW s \in ScopeType, Consistent(s), Shared(s, company'),
         scope' = [scope EXCEPT ![w] = s], UNCHANGED row, balances' \subseteq Users,
         company' \subseteq Calls, company \subseteq company',
         executed' \in [Calls -> Nat], faults' \in [{"lost", "crash", "alert"} -> Nat],
         \A c \in Calls : s.call = c \/ s.rows[c] # "none" => Holds(w, c) \/ Unused(c)
  PROVE  /\ Typed' /\ HeldOnce'
         /\ \A v \in Workers : (Consistent(scope[v]) /\ Shared(scope[v], company))'
<1>1. scope'[w] = s /\ \A v \in Workers \ {w} : scope'[v] = scope[v]
  BY DEF IInv, Typed
<1>2. Typed'
  BY DEF IInv, Typed
<1>3. \A v \in Workers : Consistent(scope'[v]) /\ Shared(scope'[v], company')
  <2> SUFFICES ASSUME NEW v \in Workers PROVE Consistent(scope'[v]) /\ Shared(scope'[v], company')
    OBVIOUS
  <2>1. CASE v = w
    BY <1>1, <2>1
  <2>2. CASE v # w
    BY <1>1, <2>2 DEF IInv, Shared
  <2> QED BY <2>1, <2>2
<1>4. HeldOnce'
  <2>1. \A c \in Calls : Holds(w, c)' => Holds(w, c) \/ Unused(c)
    BY <1>1 DEF Holds
  <2>2. \A c \in Calls, v \in Workers \ {w} : Holds(v, c)' = Holds(v, c)
    BY <1>1 DEF Holds
  <2>3. \A c \in Calls : Unused(c) => row[c] = "none" /\ \A v \in Workers : ~Holds(v, c)
    BY DEF Unused, Holds
  <2>4. \A c \in Calls, v \in Workers : Holds(v, c) => row[c] = "none" /\ \A x \in Workers \ {v} : ~Holds(x, c)
    BY DEF IInv, HeldOnce
  <2> QED BY <2>1, <2>2, <2>3, <2>4 DEF HeldOnce
<1>5. \A v \in Workers : (Consistent(scope[v]) /\ Shared(scope[v], company))'
  BY <1>3 DEF Consistent, Shared
<1> QED BY <1>2, <1>4, <1>5

(* A call of which nothing is executed, recorded or begun stays counted,   *)
(* whatever else goes wrong.                                               *)
LEMMA Kept ==
  ASSUME IInv, NEW c \in Calls, executed'[c] = executed[c],
         Recorded(c)' <=> Recorded(c), Undone(c)' => Undone(c), company \subseteq company',
         faults' \in [{"lost", "crash", "alert"} -> Nat],
         faults'["lost"] >= faults["lost"], faults'["crash"] >= faults["crash"]
  PROVE  Counted(c)'
<1>1. executed[c] \in Nat /\ faults["lost"] \in Nat /\ faults["crash"] \in Nat
  BY DEF IInv, Typed
<1>2. faults'["lost"] \in Nat /\ faults'["crash"] \in Nat
  OBVIOUS
<1>3. Counted(c)
  BY DEF IInv
<1>4. (IF c \in company \cup LongCoins THEN 1 ELSE 0) <= (IF c \in company' \cup LongCoins THEN 1 ELSE 0)
  OBVIOUS
<1> QED BY <1>1, <1>2, <1>3, <1>4 DEF Counted

LEMMA SameRows ==
  ASSUME IInv, NEW w \in Workers, NEW s, scope' = [scope EXCEPT ![w] = s], UNCHANGED row, NEW c \in Calls,
         s.rows[c] = scope[w].rows[c], s.call = c => scope[w].call = c
  PROVE  (Recorded(c)' <=> Recorded(c)) /\ (Undone(c)' => Undone(c))
<1>1. scope'[w] = s /\ \A v \in Workers \ {w} : scope'[v] = scope[v]
  BY DEF IInv, Typed
<1>2. \A v \in Workers : scope'[v].rows[c] = scope[v].rows[c] /\ (scope'[v].call = c => scope[v].call = c)
  BY <1>1
<1>3. Recorded(c)' <=> Recorded(c)
  BY <1>2 DEF Recorded
<1>4. Undone(c)' => Undone(c)
  BY <1>2 DEF Undone
<1> QED BY <1>3, <1>4

LEMMA InitInv == Init => IInv
<1> SUFFICES ASSUME Init PROVE IInv
  OBVIOUS
<1>1. \A c \in Calls : row[c] = "none"
  BY DEF Init, NoRows
<1>2. \A w \in Workers : scope[w] = Idle
  BY DEF Init
<1>3. Typed
  BY IdleFacts, StatusFacts DEF Init, Typed, NoRows
<1>4. HeldOnce
  BY <1>2, IdleFacts, ProviderAssumption DEF HeldOnce, Holds, NoRows
<1>5. \A c \in Calls : ~Recorded(c) /\ ~Undone(c)
  BY <1>1, <1>2, IdleFacts, StatusFacts, ProviderAssumption DEF Recorded, Undone, NoRows
<1>6. \A c \in Calls : Counted(c)
  BY <1>5 DEF Init, Counted
<1> QED BY <1>2, <1>3, <1>4, <1>6, IdleFacts DEF IInv

-----------------------------------------------------------------------------
FaultKinds == {"lost", "crash", "alert"}

(* Faults only grow.                                                       *)
FaultsGrow ==
  /\ faults' \in [FaultKinds -> Nat]
  /\ faults'["lost"] >= faults["lost"] /\ faults'["crash"] >= faults["crash"]

LEMMA FaultGrows ==
  ASSUME IInv
  PROVE  /\ UNCHANGED faults => FaultsGrow
         /\ \A k \in FaultKinds : Fault(k) => FaultsGrow /\ faults'[k] = faults[k] + 1
BY DEF IInv, Typed, Fault, FaultsGrow, FaultKinds

(* A step that leaves the rows and executions of every call alone.         *)
LEMMA QuietStep ==
  ASSUME IInv, NEW w \in Workers, NEW s \in ScopeType, Consistent(s), Shared(s, company'),
         scope' = [scope EXCEPT ![w] = s], UNCHANGED <<row, executed>>, balances' \subseteq Users,
         company' \subseteq Calls, company \subseteq company', FaultsGrow,
         s.rows = scope[w].rows, s.call = scope[w].call \/ s.call = Nothing
  PROVE  IInv'
<1>1. \A c \in Calls : s.call = c => scope[w].call = c
  BY ProviderAssumption
<1>2. \A c \in Calls : s.call = c \/ s.rows[c] # "none" => Holds(w, c)
  BY <1>1 DEF Holds
<1>3. executed' \in [Calls -> Nat]
  BY DEF IInv, Typed
<1>4. /\ Typed' /\ HeldOnce'
      /\ \A v \in Workers : (Consistent(scope[v]) /\ Shared(scope[v], company))'
  BY <1>2, <1>3, ScopeStep DEF FaultsGrow, FaultKinds
<1>5. \A c \in Calls : Counted(c)'
  BY <1>1, SameRows, Kept DEF FaultsGrow, FaultKinds
<1> QED BY <1>4, <1>5 DEF IInv

(* A scope that ends without a commit: what was executed in it is a fault  *)
(* of the process, was in company or has a coin too long for its column.   *)
LEMMA LostStep ==
  ASSUME IInv, NEW w \in Workers, scope' = [scope EXCEPT ![w] = Idle],
         UNCHANGED <<row, executed, balances, company>>, FaultsGrow,
         \A c \in Calls : scope[w].rows[c] \in DoneStatus => c \in company \cup LongCoins \/ faults'["crash"] = faults["crash"] + 1
  PROVE  IInv'
<1> USE IdleFacts
<1>1. \A c \in Calls : ~(Idle.call = c) /\ Idle.rows[c] = "none"
  BY ProviderAssumption DEF NoRows
<1>2. /\ Typed' /\ HeldOnce'
      /\ \A v \in Workers : (Consistent(scope[v]) /\ Shared(scope[v], company))'
  BY <1>1, ScopeStep DEF IInv, Typed, FaultsGrow, FaultKinds
<1>3. scope'[w] = Idle /\ \A v \in Workers \ {w} : scope'[v] = scope[v]
  BY DEF IInv, Typed
<1>4. ASSUME NEW c \in Calls PROVE Counted(c)'
  <2>1. Undone(c)' => Undone(c)
    BY <1>1, <1>3, StatusFacts DEF Undone
  <2>2. Recorded(c)' => Recorded(c)
    BY <1>1, <1>3, StatusFacts DEF Recorded
  <2>3. CASE Recorded(c) /\ ~Recorded(c)'
    <3>1. scope[w].rows[c] \in DoneStatus
      BY <1>3, <2>3 DEF Recorded
    <3>2. c \in company \cup LongCoins \/ faults'["crash"] = faults["crash"] + 1
      BY <3>1
    <3>3. executed[c] \in Nat /\ faults["lost"] \in Nat /\ faults["crash"] \in Nat
      BY DEF IInv, Typed
    <3>4. faults'["lost"] \in Nat /\ faults'["crash"] \in Nat
      BY DEF FaultsGrow, FaultKinds
    <3>5. executed[c] <= 1 + faults["lost"] /\ (Undone(c) => executed[c] <= faults["lost"])
      BY DEF IInv, Counted
    <3>6. executed'[c] = executed[c] /\ faults'["lost"] >= faults["lost"] /\ faults'["crash"] >= faults["crash"]
      BY DEF FaultsGrow
    <3> QED BY <2>1, <2>3, <3>2, <3>3, <3>4, <3>5, <3>6 DEF Counted
  <2>4. CASE Recorded(c)' <=> Recorded(c)
    BY <2>1, <2>4, Kept DEF FaultsGrow, FaultKinds
  <2> QED BY <2>2, <2>3, <2>4
<1> QED BY <1>2, <1>4 DEF IInv

(* ---- steps in which nothing is executed or recorded ---- *)
LEMMA OpenKeeps == ASSUME IInv, NEW w \in Workers, NEW service \in Services, Open(w, service) PROVE IInv'
<1> DEFINE s == [Idle EXCEPT !.step = "open", !.service = service]
<1>1. s.rows = NoRows /\ s.call = Nothing /\ s.reads = Nothing /\ s.inserts = {} /\ s.step = "open"
  BY IdleFacts DEF Idle
<1>2. s \in ScopeType
  BY IdleFacts DEF ScopeType, Steps
<1>3. \A c \in Calls : NoRows[c] = "none" /\ NoRows[c] \notin DoneStatus
  BY StatusFacts DEF NoRows
<1>4. Consistent(s) /\ Shared(s, company')
  BY <1>1, <1>3 DEF Consistent, Shared
<1>5. scope[w] \in ScopeType /\ scope[w].rows = NoRows
  BY DEF IInv, Typed, Consistent, Open, At
<1>6. scope' = [scope EXCEPT ![w] = s] /\ UNCHANGED <<row, executed, balances, company, faults>>
  BY DEF Open, Continue
<1>7. balances' \subseteq Users /\ company' \subseteq Calls /\ company \subseteq company' /\ FaultsGrow
  BY <1>6, FaultGrows DEF IInv, Typed
<1> HIDE DEF s
<1> QED BY <1>1, <1>2, <1>4, <1>5, <1>6, <1>7, QuietStep

LEMMA GetBalanceKeeps == ASSUME IInv, NEW w \in Workers, NEW u \in Users, GetBalance(w, u) PROVE IInv'
<1> DEFINE s == [scope[w] EXCEPT !.reads = u, !.inserts = {u} \ balances]
<1>1. scope[w] \in ScopeType /\ Consistent(scope[w]) /\ scope[w].step = "open" /\ scope[w].reads = Nothing
  BY DEF IInv, Typed, GetBalance, At
<1>2. s \in ScopeType
  BY <1>1 DEF ScopeType
<1>3. s.rows = scope[w].rows /\ s.call = Nothing /\ s.reads = u /\ s.step = "open"
  BY <1>1 DEF ScopeType, Consistent
<1>4. scope' = [scope EXCEPT ![w] = s] /\ UNCHANGED <<row, executed, balances, faults>> /\ company' = company \cup Used(scope[w])
  BY DEF GetBalance, Continue
<1>5. Consistent(s)
  BY <1>1, <1>3, ProviderAssumption DEF Consistent
<1>6. Shared(s, company')
  BY <1>3, <1>4, ProviderAssumption DEF Shared, Used
<1>7. balances' \subseteq Users /\ company' \subseteq Calls /\ company \subseteq company' /\ FaultsGrow
  BY <1>4, FaultGrows DEF IInv, Typed, Used
<1> HIDE DEF s
<1> QED BY <1>2, <1>3, <1>4, <1>5, <1>6, <1>7, QuietStep

LEMMA OtherFailsKeeps == ASSUME IInv, NEW w \in Workers, OtherFails(w) PROVE IInv'
<1> DEFINE s == [scope[w] EXCEPT !.step = "raised"]
<1>1. scope[w] \in ScopeType /\ Consistent(scope[w]) /\ Shared(scope[w], company) /\ scope[w].step = "open"
  BY DEF IInv, Typed, OtherFails, At
<1>2. s \in ScopeType
  BY <1>1 DEF ScopeType, Steps
<1>3. s.rows = scope[w].rows /\ s.call = scope[w].call /\ s.reads = scope[w].reads /\ s.inserts = scope[w].inserts /\ s.step = "raised"
  BY <1>1 DEF ScopeType
<1>4. scope' = [scope EXCEPT ![w] = s] /\ UNCHANGED <<row, executed, balances, faults>> /\ company' = company \cup Used(scope[w])
  BY DEF OtherFails, Continue
<1>5. Consistent(s)
  BY <1>1, <1>3 DEF Consistent
<1>6. Shared(s, company')
  BY <1>1, <1>3, <1>4, StatusFacts DEF Shared, Used
<1>7. balances' \subseteq Users /\ company' \subseteq Calls /\ company \subseteq company' /\ FaultsGrow
  BY <1>4, FaultGrows DEF IInv, Typed, Used
<1> HIDE DEF s
<1> QED BY <1>2, <1>3, <1>4, <1>5, <1>6, <1>7, QuietStep

(* What a failed attempt leaves of its scope.                              *)
LEMMA AfterFailureFacts ==
  ASSUME IInv, NEW w \in Workers, At(w, "call"), NEW s, s = AfterFailure(scope[w])
  PROVE  /\ s \in ScopeType /\ s.rows = scope[w].rows /\ s.call = scope[w].call
         /\ Consistent(s) /\ Shared(s, company)
<1>1. scope[w] \in ScopeType /\ Consistent(scope[w]) /\ Shared(scope[w], company) /\ scope[w].step = "call"
  BY DEF IInv, Typed, At
<1>2. scope[w].tries \in 0 .. Attempts /\ scope[w].tries < Attempts
  BY <1>1 DEF ScopeType, Consistent
<1>3. scope[w].tries + 1 \in 0 .. Attempts
  BY <1>2, ProviderAssumption
<1>4. s \in ScopeType
  BY <1>1, <1>3 DEF AfterFailure, ScopeType, Steps
<1>5. /\ s.rows = scope[w].rows /\ s.call = scope[w].call /\ s.reads = scope[w].reads
      /\ s.inserts = scope[w].inserts /\ s.step \in {"raised", "alert"}
  BY <1>1 DEF AfterFailure, ScopeType
<1>6. Consistent(s) /\ Shared(s, company)
  BY <1>1, <1>5 DEF Consistent, Shared
<1> QED BY <1>4, <1>5, <1>6

LEMMA RefusedKeeps == ASSUME IInv, NEW w \in Workers, Refused(w) PROVE IInv'
<1>1. PICK s : s = AfterFailure(scope[w])
  OBVIOUS
<1>2. At(w, "call") /\ scope' = [scope EXCEPT ![w] = s] /\ UNCHANGED <<row, executed, balances, company, faults>>
  BY <1>1 DEF Refused, Continue
<1>3. s \in ScopeType /\ s.rows = scope[w].rows /\ s.call = scope[w].call /\ Consistent(s) /\ Shared(s, company')
  BY <1>1, <1>2, AfterFailureFacts
<1>4. balances' \subseteq Users /\ company' \subseteq Calls /\ company \subseteq company' /\ FaultsGrow
  BY <1>2, FaultGrows DEF IInv, Typed
<1> QED BY <1>2, <1>3, <1>4, QuietStep

LEMMA AlertKeeps == ASSUME IInv, NEW w \in Workers, Alert(w) PROVE IInv'
<1>1. PICK x \in {"call", "fail"} :
        /\ scope' = [scope EXCEPT ![w] = [scope[w] EXCEPT !.step = x]]
        /\ x = "call" => scope[w].tries < Attempts
        /\ UNCHANGED faults \/ Fault("alert")
  BY DEF Alert, Continue
<1> DEFINE s == [scope[w] EXCEPT !.step = x]
<1>2. scope[w] \in ScopeType /\ Consistent(scope[w]) /\ Shared(scope[w], company) /\ scope[w].step = "alert"
  BY DEF IInv, Typed, Alert, At
<1>3. s \in ScopeType
  BY <1>2 DEF ScopeType, Steps
<1>4. /\ s.rows = scope[w].rows /\ s.call = scope[w].call /\ s.reads = scope[w].reads
      /\ s.inserts = scope[w].inserts /\ s.step = x /\ s.tries = scope[w].tries
  BY <1>2 DEF ScopeType
<1>5. Consistent(s) /\ Shared(s, company)
  BY <1>1, <1>2, <1>4 DEF Consistent, Shared
<1>6. UNCHANGED <<row, executed, balances, company>>
  BY DEF Alert, Continue
<1>7. balances' \subseteq Users /\ company' \subseteq Calls /\ company \subseteq company'
  BY <1>6 DEF IInv, Typed
<1>8. FaultsGrow
  BY <1>1, FaultGrows DEF FaultKinds
<1>9. scope' = [scope EXCEPT ![w] = s] /\ Shared(s, company')
  BY <1>1, <1>5, <1>6
<1> HIDE DEF s
<1> QED BY <1>3, <1>4, <1>5, <1>6, <1>7, <1>8, <1>9, QuietStep

LEMMA ReturnedFacts ==
  ASSUME NEW s \in ScopeType
  PROVE  /\ Returned(s) \in ScopeType /\ Returned(s).rows = s.rows /\ Returned(s).call = Nothing
         /\ Returned(s).reads = s.reads /\ Returned(s).inserts = s.inserts /\ Returned(s).step = "open"
<1>1. 0 \in 0 .. Attempts
  BY ProviderAssumption
<1>2. "open" \in Steps /\ "wallet" \in AllKinds
  BY DEF Steps, AllKinds
<1> QED BY <1>1, <1>2 DEF Returned, ScopeType

LEMMA HandleKeeps == ASSUME IInv, NEW w \in Workers, Handle(w) PROVE IInv'
<1> DEFINE s == Returned(scope[w])
<1>1. scope[w] \in ScopeType /\ Consistent(scope[w]) /\ Shared(scope[w], company) /\ scope[w].step = "raised"
  BY DEF IInv, Typed, Handle, At
<1>2. s \in ScopeType
  BY <1>1, ReturnedFacts
<1>3. s.rows = scope[w].rows /\ s.call = Nothing /\ s.reads = scope[w].reads /\ s.inserts = scope[w].inserts /\ s.step = "open"
  BY <1>1, ReturnedFacts
<1>4. scope' = [scope EXCEPT ![w] = s] /\ UNCHANGED <<row, executed, balances, faults, company>>
  BY DEF Handle, Continue
<1>5. Consistent(s)
  BY <1>1, <1>3, ProviderAssumption DEF Consistent
<1>6. Shared(s, company')
  BY <1>1, <1>3, <1>4, ProviderAssumption DEF Shared
<1>7. balances' \subseteq Users /\ company' \subseteq Calls /\ company \subseteq company' /\ FaultsGrow
  BY <1>4, FaultGrows DEF IInv, Typed
<1> HIDE DEF s
<1> QED BY <1>2, <1>3, <1>4, <1>5, <1>6, <1>7, QuietStep

(* ---- scopes that end without a commit ---- *)
LEMMA RollBackKeeps == ASSUME IInv, NEW w \in Workers, RollBack(w) PROVE IInv'
<1>1. scope' = [scope EXCEPT ![w] = Idle] /\ UNCHANGED <<row, executed, balances, company, faults>>
  BY DEF RollBack, Continue
<1>2. Shared(scope[w], company) /\ scope[w].step = "raised"
  BY DEF IInv, RollBack, At
<1>3. \A c \in Calls : scope[w].rows[c] \in DoneStatus => c \in company
  BY <1>2 DEF Shared
<1> QED BY <1>1, <1>3, FaultGrows, LostStep

LEMMA CollideKeeps == ASSUME IInv, NEW w \in Workers, Collide(w) PROVE IInv'
<1>1. scope' = [scope EXCEPT ![w] = Idle] /\ UNCHANGED <<row, executed, balances, company, faults>>
  BY DEF Collide, Continue
<1>2. Consistent(scope[w]) /\ Shared(scope[w], company) /\ scope[w].inserts # {}
  BY DEF IInv, Collide
<1>3. scope[w].reads # Nothing
  BY <1>2 DEF Consistent
<1>4. \A c \in Calls : scope[w].rows[c] \in DoneStatus => c \in company
  BY <1>2, <1>3, StatusFacts DEF Shared
<1> QED BY <1>1, <1>4, FaultGrows, LostStep

LEMMA CommitRefusedKeeps == ASSUME IInv, NEW w \in Workers, CommitRefused(w) PROVE IInv'
<1>1. scope' = [scope EXCEPT ![w] = Idle] /\ UNCHANGED <<row, executed, balances, company, faults>>
  BY DEF CommitRefused, Continue
<1>2. PICK d \in Calls : d \in LongCoins /\ scope[w].rows[d] # "none"
  BY DEF CommitRefused, Unstorable, Used
<1>3. ASSUME NEW c \in Calls, scope[w].rows[c] \in DoneStatus PROVE c \in company \cup LongCoins
  <2>1. CASE c = d
    BY <1>2, <2>1
  <2>2. CASE c # d
    BY <1>2, <1>3, <2>2, StatusFacts DEF IInv, Shared
  <2> QED BY <2>1, <2>2
<1> QED BY <1>1, <1>3, FaultGrows, LostStep

LEMMA CrashKeeps == ASSUME IInv, NEW w \in Workers, Crash(w) PROVE IInv'
<1>1. scope' = [scope EXCEPT ![w] = Idle] /\ UNCHANGED <<row, executed, balances, company>>
  BY DEF Crash, Continue
<1>2. FaultsGrow /\ faults'["crash"] = faults["crash"] + 1
  BY FaultGrows DEF Crash, FaultKinds
<1> QED BY <1>1, <1>2, LostStep

(* ---- a call and its executions ---- *)
(* The rows of a scope other than that of the call it is in.               *)
LEMMA LoggedFacts ==
  ASSUME NEW s \in ScopeType, s.call \in Calls, NEW status \in Status
  PROVE  /\ Logged(s, status) \in ScopeType /\ Logged(s, status).rows[s.call] = status
         /\ \A c \in Calls \ {s.call} : Logged(s, status).rows[c] = s.rows[c]
         /\ Logged(s, status).call = s.call /\ Logged(s, status).reads = s.reads
         /\ Logged(s, status).inserts = s.inserts /\ Logged(s, status).kind = s.kind
<1> DEFINE rows == [s.rows EXCEPT ![s.call] = status]
<1>1. s.rows \in [Calls -> Status]
  BY DEF ScopeType
<1>2. rows \in [Calls -> Status] /\ rows[s.call] = status /\ \A c \in Calls \ {s.call} : rows[c] = s.rows[c]
  BY <1>1
<1>3. Logged(s, status) = [s EXCEPT !.rows = rows]
  BY DEF Logged
<1> HIDE DEF rows
<1> QED BY <1>2, <1>3 DEF ScopeType

LEMMA BeginKeeps == ASSUME IInv, NEW w \in Workers, NEW c \in Calls, NEW kind \in Kinds, Begin(w, c, kind) PROVE IInv'
<1> DEFINE s == [scope[w] EXCEPT !.step = "call", !.call = c, !.kind = kind, !.tries = 0]
<1>1. scope[w] \in ScopeType /\ Consistent(scope[w]) /\ Shared(scope[w], company) /\ scope[w].step = "open" /\ Unused(c)
  BY DEF IInv, Typed, Begin, At
<1>2. /\ scope' = [scope EXCEPT ![w] = s] /\ UNCHANGED <<row, executed, balances, faults>>
      /\ company' = IF Used(scope[w]) = {} /\ scope[w].reads = Nothing THEN company ELSE company \cup Used(scope[w]) \cup {c}
  BY DEF Begin, Continue
<1>3. 0 \in 0 .. Attempts /\ 0 < Attempts /\ kind \in AllKinds /\ "call" \in Steps
  BY ProviderAssumption DEF Steps
<1>4. s \in ScopeType
  BY <1>1, <1>3 DEF ScopeType
<1>5. /\ s.rows = scope[w].rows /\ s.call = c /\ s.reads = scope[w].reads
      /\ s.inserts = scope[w].inserts /\ s.step = "call" /\ s.tries = 0
  BY <1>1 DEF ScopeType
<1> HIDE DEF s
<1>6. scope[w].rows[c] = "none" /\ row[c] = "none" /\ executed[c] = 0
  BY <1>1 DEF Unused
<1>7. Consistent(s)
  BY <1>1, <1>3, <1>5, <1>6, StatusFacts DEF Consistent
<1>8. Used(scope[w]) = {x \in Calls : scope[w].rows[x] # "none"}
  BY DEF Used
<1>9. Shared(s, company')
  BY <1>1, <1>2, <1>5, <1>8, StatusFacts DEF Shared
<1>10. balances' \subseteq Users /\ company' \subseteq Calls /\ company \subseteq company' /\ FaultsGrow /\ executed' \in [Calls -> Nat]
  BY <1>2, <1>8, FaultGrows DEF IInv, Typed
<1>11. \A x \in Calls : s.call = x \/ s.rows[x] # "none" => Holds(w, x) \/ Unused(x)
  BY <1>1, <1>5 DEF Holds
<1>12. /\ Typed' /\ HeldOnce'
       /\ \A v \in Workers : (Consistent(scope[v]) /\ Shared(scope[v], company))'
  BY <1>2, <1>4, <1>7, <1>9, <1>10, <1>11, ScopeStep DEF FaultsGrow, FaultKinds
<1>13. ASSUME NEW x \in Calls, x # c PROVE Counted(x)'
  BY <1>2, <1>5, <1>10, <1>13, SameRows, Kept DEF FaultsGrow, FaultKinds
<1>14. Counted(c)'
  <2>1. scope'[w] = s /\ \A v \in Workers \ {w} : scope'[v] = scope[v]
    BY <1>2 DEF IInv, Typed
  <2>2. \A v \in Workers : scope'[v].rows[c] = "none"
    BY <1>1, <1>5, <2>1 DEF Unused
  <2>3. ~Recorded(c)'
    BY <1>2, <1>6, <2>2, StatusFacts DEF Recorded
  <2>4. executed'[c] = 0 /\ faults'["lost"] \in Nat /\ faults'["crash"] \in Nat
    BY <1>2, <1>6 DEF IInv, Typed
  <2> QED BY <2>3, <2>4 DEF Counted
<1> QED BY <1>12, <1>13, <1>14 DEF IInv

(* A step of the call a scope is in: it ends done and executed once more,  *)
(* or it is not done and only lost answers hide executions of it, or its   *)
(* row cannot be stored for what it is in company with.                    *)
LEMMA CallStep ==
  ASSUME IInv, NEW w \in Workers, NEW c \in Calls, scope[w].call = c,
         NEW s \in ScopeType, Consistent(s), Shared(s, company),
         scope' = [scope EXCEPT ![w] = s], UNCHANGED <<row, balances, company>>, FaultsGrow,
         executed' \in [Calls -> Nat], s.call \in {c, Nothing},
         \A x \in Calls \ {c} : executed'[x] = executed[x] /\ s.rows[x] = scope[w].rows[x],
         \/ s.rows[c] \in DoneStatus /\ executed'[c] = executed[c] + 1
         \/ s.rows[c] \notin DoneStatus /\ executed'[c] <= faults'["lost"]
         \/ s.rows[c] = "none" /\ s.call = Nothing /\ c \in company /\ executed'[c] = executed[c] + 1
  PROVE  IInv'
<1>1. row[c] = "none" /\ \A v \in Workers \ {w} : scope[v].call # c /\ scope[v].rows[c] = "none"
  BY DEF IInv, HeldOnce, Holds
<1>2. scope'[w] = s /\ \A v \in Workers \ {w} : scope'[v] = scope[v]
  BY DEF IInv, Typed
<1>3. \A x \in Calls : s.call = x \/ s.rows[x] # "none" => Holds(w, x)
  BY ProviderAssumption DEF Holds
<1>4. balances' \subseteq Users /\ company' \subseteq Calls /\ company \subseteq company' /\ Shared(s, company')
  BY DEF IInv, Typed
<1>5. /\ Typed' /\ HeldOnce'
      /\ \A v \in Workers : (Consistent(scope[v]) /\ Shared(scope[v], company))'
  BY <1>3, <1>4, ScopeStep DEF FaultsGrow, FaultKinds
<1>6. ASSUME NEW x \in Calls, x # c PROVE Counted(x)'
  <2>1. s.call = x => scope[w].call = x
    BY <1>6, ProviderAssumption
  <2> QED BY <1>4, <1>6, <2>1, SameRows, Kept DEF FaultsGrow, FaultKinds
<1>7. Counted(c)'
  <2>1. Recorded(c)' <=> s.rows[c] \in DoneStatus
    BY <1>1, <1>2, StatusFacts DEF Recorded
  <2>2. Undone(c)' => s.call = c \/ s.rows[c] \in FailedStatus
    BY <1>1, <1>2, StatusFacts DEF Undone
  <2>3. s.rows[c] \in DoneStatus => ~Undone(c)'
    BY <2>2, StatusFacts DEF Consistent
  <2>4. Undone(c)
    BY DEF Undone
  <2>5. executed[c] <= faults["lost"]
    BY <2>4 DEF IInv, Counted
  <2>6. /\ executed[c] \in Nat /\ executed'[c] \in Nat /\ faults["lost"] \in Nat
        /\ faults'["lost"] \in Nat /\ faults'["crash"] \in Nat /\ faults'["lost"] >= faults["lost"]
    BY DEF IInv, Typed, FaultsGrow, FaultKinds
  <2>7. CASE s.rows[c] \in DoneStatus /\ executed'[c] = executed[c] + 1
    BY <2>1, <2>3, <2>5, <2>6, <2>7 DEF Counted
  <2>8. CASE s.rows[c] \notin DoneStatus /\ executed'[c] <= faults'["lost"]
    BY <2>1, <2>6, <2>8 DEF Counted
  <2>9. CASE s.rows[c] = "none" /\ s.call = Nothing /\ c \in company /\ executed'[c] = executed[c] + 1
    <3>1. ~Recorded(c)' /\ ~Undone(c)'
      BY <2>1, <2>2, <2>9, StatusFacts, ProviderAssumption
    <3>2. c \in company' \cup LongCoins
      BY <2>9
    <3> QED BY <2>5, <2>6, <2>9, <3>1, <3>2 DEF Counted
  <2> QED BY <2>7, <2>8, <2>9
<1> QED BY <1>5, <1>6, <1>7 DEF IInv

(* What a scope that is in a call knows of it.                             *)
LEMMA InCall ==
  ASSUME IInv, NEW w \in Workers, scope[w].step \in {"call", "alert", "fail"}
  PROVE  /\ scope[w] \in ScopeType /\ Consistent(scope[w]) /\ Shared(scope[w], company)
         /\ scope[w].call \in Calls /\ scope[w].rows[scope[w].call] = "none"
         /\ executed[scope[w].call] \in Nat /\ executed[scope[w].call] <= faults["lost"]
<1>1. scope[w] \in ScopeType /\ Consistent(scope[w]) /\ Shared(scope[w], company)
  BY DEF IInv, Typed
<1>2. scope[w].call \in Calls /\ scope[w].rows[scope[w].call] = "none"
  BY <1>1 DEF Consistent
<1>3. Undone(scope[w].call)
  BY DEF Undone
<1>4. executed[scope[w].call] \in Nat /\ executed[scope[w].call] <= faults["lost"]
  BY <1>2, <1>3 DEF IInv, Typed, Counted
<1> QED BY <1>1, <1>2, <1>4

LEMMA ExecutesFacts ==
  ASSUME IInv, NEW w \in Workers, scope[w].call \in Calls, Executes(w)
  PROVE  /\ executed' \in [Calls -> Nat] /\ executed'[scope[w].call] = executed[scope[w].call] + 1
         /\ \A x \in Calls \ {scope[w].call} : executed'[x] = executed[x]
BY DEF IInv, Typed, Executes

LEMMA StoredKeeps ==
  ASSUME IInv, NEW w \in Workers, Answered(w), ~(scope[w].kind = "wallet" /\ Unstorable(scope[w]))
  PROVE  IInv'
<1> DEFINE c == scope[w].call
           status == Done(scope[w].kind)
           l == Logged(scope[w], status)
           s == Returned(l)
<1>1. scope[w].step = "call"
  BY DEF Answered, At
<1>2. /\ scope[w] \in ScopeType /\ Consistent(scope[w]) /\ Shared(scope[w], company)
      /\ c \in Calls /\ scope[w].rows[c] = "none"
  BY <1>1, InCall
<1>3. status \in DoneStatus /\ status \in Status
  BY <1>2, StatusFacts DEF ScopeType
<1>4. scope' = [scope EXCEPT ![w] = s] /\ UNCHANGED <<row, balances, company, faults>> /\ Executes(w)
  BY DEF Answered, Stored, Continue
<1> HIDE DEF status
<1>5. /\ l \in ScopeType /\ l.rows[c] = status /\ \A x \in Calls \ {c} : l.rows[x] = scope[w].rows[x]
      /\ l.reads = scope[w].reads /\ l.inserts = scope[w].inserts
  BY <1>2, <1>3, LoggedFacts
<1> HIDE DEF l
<1>6. /\ s \in ScopeType /\ s.rows = l.rows /\ s.call = Nothing /\ s.reads = l.reads
      /\ s.inserts = l.inserts /\ s.step = "open"
  BY <1>5, ReturnedFacts
<1> HIDE DEF s
<1>7. Consistent(s)
  BY <1>2, <1>5, <1>6, ProviderAssumption DEF Consistent
<1>8. Shared(s, company)
  BY <1>1, <1>2, <1>5, <1>6, ProviderAssumption DEF Shared
<1>9. executed' \in [Calls -> Nat] /\ executed'[c] = executed[c] + 1 /\ \A x \in Calls \ {c} : executed'[x] = executed[x]
  BY <1>2, <1>4, ExecutesFacts
<1>10. FaultsGrow
  BY <1>4, FaultGrows
<1>11. s.rows[c] \in DoneStatus /\ \A x \in Calls \ {c} : s.rows[x] = scope[w].rows[x]
  BY <1>3, <1>5, <1>6
<1>12. scope[w].call = c /\ UNCHANGED <<row, balances, company>> /\ s.call \in {c, Nothing}
  BY <1>4, <1>6
<1>13. PICK x \in Calls : x = c
  BY <1>2
<1>14. scope' = [scope EXCEPT ![w] = s] /\ s \in ScopeType /\ executed' \in [Calls -> Nat]
  BY <1>4, <1>6, <1>9
<1>15. /\ executed'[x] = executed[x] + 1 /\ s.rows[x] \in DoneStatus /\ scope[w].call = x /\ s.call \in {x, Nothing}
       /\ \A y \in Calls \ {x} : executed'[y] = executed[y] /\ s.rows[y] = scope[w].rows[y]
  BY <1>9, <1>11, <1>12, <1>13
<1> QED BY <1>7, <1>8, <1>10, <1>12, <1>14, <1>15, CallStep

LEMMA UnstoredKeeps ==
  ASSUME IInv, NEW w \in Workers, Answered(w), scope[w].kind = "wallet", Unstorable(scope[w])
  PROVE  IInv'
<1> DEFINE r == Returned(scope[w])
           s == [r EXCEPT !.step = "raised"]
<1>1. scope[w].step = "call"
  BY DEF Answered, At
<1>2. /\ scope[w] \in ScopeType /\ Consistent(scope[w]) /\ Shared(scope[w], company)
      /\ scope[w].call \in Calls /\ scope[w].rows[scope[w].call] = "none"
  BY <1>1, InCall
<1>3. scope' = [scope EXCEPT ![w] = s] /\ UNCHANGED <<row, balances, company, faults>> /\ Executes(w)
  BY DEF Answered, Stored, Continue
<1>4. /\ r \in ScopeType /\ r.rows = scope[w].rows /\ r.call = Nothing /\ r.reads = scope[w].reads
      /\ r.inserts = scope[w].inserts
  BY <1>2, ReturnedFacts
<1> HIDE DEF r
<1>5. /\ s \in ScopeType /\ s.rows = scope[w].rows /\ s.call = Nothing /\ s.reads = scope[w].reads
      /\ s.inserts = scope[w].inserts /\ s.step = "raised"
  BY <1>4 DEF ScopeType, Steps
<1> HIDE DEF s
<1>6. Consistent(s)
  BY <1>2, <1>5, ProviderAssumption DEF Consistent
<1>7. Shared(s, company)
  BY <1>1, <1>2, <1>5, ProviderAssumption, StatusFacts DEF Shared
<1>8. PICK c \in Calls : c = scope[w].call
  BY <1>2
<1>9. PICK d \in Calls : scope[w].rows[d] # "none"
  BY DEF Unstorable, Used
<1>10. c \in company
  BY <1>1, <1>2, <1>8, <1>9 DEF Shared
<1>11. executed' \in [Calls -> Nat] /\ executed'[c] = executed[c] + 1 /\ \A x \in Calls \ {c} : executed'[x] = executed[x]
  BY <1>3, <1>8, ExecutesFacts
<1>12. FaultsGrow
  BY <1>3, FaultGrows
<1>13. scope[w].call = c /\ s.rows[c] = "none" /\ s.call = Nothing /\ \A x \in Calls \ {c} : s.rows[x] = scope[w].rows[x]
  BY <1>2, <1>5, <1>8
<1>14. /\ s \in ScopeType /\ scope' = [scope EXCEPT ![w] = s] /\ UNCHANGED <<row, balances, company>>
       /\ s.call \in {c, Nothing}
  BY <1>3, <1>5
<1>15. s.rows[c] = "none" /\ s.call = Nothing /\ c \in company /\ executed'[c] = executed[c] + 1
  BY <1>10, <1>11, <1>13
<1>16. \A x \in Calls \ {c} : executed'[x] = executed[x] /\ s.rows[x] = scope[w].rows[x]
  BY <1>11, <1>13
<1>17. scope[w].call = c /\ executed' \in [Calls -> Nat]
  BY <1>8, <1>11
<1> QED BY <1>6, <1>7, <1>12, <1>14, <1>15, <1>16, <1>17, CallStep

LEMMA AnswerLostKeeps == ASSUME IInv, NEW w \in Workers, AnswerLost(w) PROVE IInv'
<1> DEFINE c == scope[w].call
<1>1. PICK s : s = AfterFailure(scope[w])
  OBVIOUS
<1>2. /\ At(w, "call") /\ scope' = [scope EXCEPT ![w] = s] /\ UNCHANGED <<row, balances, company>>
      /\ Executes(w) /\ Fault("lost")
  BY <1>1 DEF AnswerLost, Continue
<1>3. s \in ScopeType /\ s.rows = scope[w].rows /\ s.call = c /\ Consistent(s) /\ Shared(s, company)
  BY <1>1, <1>2, AfterFailureFacts
<1>4. c \in Calls /\ scope[w].rows[c] = "none" /\ executed[c] \in Nat /\ executed[c] <= faults["lost"]
  BY <1>2, InCall DEF At
<1>5. executed' \in [Calls -> Nat] /\ executed'[c] = executed[c] + 1 /\ \A x \in Calls \ {c} : executed'[x] = executed[x]
  BY <1>2, <1>4, ExecutesFacts
<1>6. FaultsGrow /\ faults'["lost"] = faults["lost"] + 1
  BY <1>2, FaultGrows DEF FaultKinds
<1>7. faults["lost"] \in Nat
  BY DEF IInv, Typed
<1>8. executed'[c] <= faults'["lost"] /\ s.rows[c] \notin DoneStatus
  BY <1>3, <1>4, <1>5, <1>6, <1>7, StatusFacts
<1>9. scope[w].call = c /\ s.call \in {c, Nothing} /\ \A x \in Calls \ {c} : s.rows[x] = scope[w].rows[x]
  BY <1>3
<1>10. PICK x \in Calls : x = c
  BY <1>4
<1>11. /\ executed'[x] <= faults'["lost"] /\ s.rows[x] \notin DoneStatus /\ scope[w].call = x /\ s.call \in {x, Nothing}
       /\ \A y \in Calls \ {x} : executed'[y] = executed[y] /\ s.rows[y] = scope[w].rows[y]
  BY <1>5, <1>8, <1>9, <1>10
<1> QED BY <1>2, <1>3, <1>5, <1>6, <1>11, CallStep

LEMMA FailKeeps == ASSUME IInv, NEW w \in Workers, Fail(w) PROVE IInv'
<1> DEFINE c == scope[w].call
           status == Failed(scope[w].kind)
           l == Logged(scope[w], status)
           s == [l EXCEPT !.step = "raised"]
<1>1. scope[w].step = "fail"
  BY DEF Fail, At
<1>2. /\ scope[w] \in ScopeType /\ Consistent(scope[w]) /\ Shared(scope[w], company)
      /\ c \in Calls /\ scope[w].rows[c] = "none" /\ executed[c] <= faults["lost"]
  BY <1>1, InCall
<1>3. status \in FailedStatus /\ status \in Status
  BY <1>2, StatusFacts DEF ScopeType
<1>4. scope' = [scope EXCEPT ![w] = s] /\ UNCHANGED <<row, balances, company, faults, executed>>
  BY DEF Fail, Continue
<1> HIDE DEF status
<1>5. /\ l \in ScopeType /\ l.rows[c] = status /\ \A x \in Calls \ {c} : l.rows[x] = scope[w].rows[x]
      /\ l.reads = scope[w].reads /\ l.inserts = scope[w].inserts /\ l.call = c
  BY <1>2, <1>3, LoggedFacts
<1> HIDE DEF l
<1>6. /\ s \in ScopeType /\ s.rows = l.rows /\ s.call = c /\ s.reads = l.reads
      /\ s.inserts = l.inserts /\ s.step = "raised"
  BY <1>5 DEF ScopeType, Steps
<1> HIDE DEF s
<1>7. status \notin DoneStatus
  BY <1>3, StatusFacts
<1>8. Consistent(s)
  BY <1>1, <1>2, <1>5, <1>6, <1>7 DEF Consistent
<1>9. Shared(s, company)
  BY <1>1, <1>2, <1>5, <1>6, <1>7 DEF Shared
<1>10. FaultsGrow
  BY <1>4, FaultGrows
<1>11. executed' \in [Calls -> Nat] /\ executed'[c] <= faults'["lost"] /\ \A x \in Calls \ {c} : executed'[x] = executed[x]
  BY <1>2, <1>4 DEF IInv, Typed
<1>12. s.rows[c] \notin DoneStatus /\ \A x \in Calls \ {c} : s.rows[x] = scope[w].rows[x]
  BY <1>5, <1>6, <1>7
<1> QED BY <1>2, <1>4, <1>6, <1>8, <1>9, <1>10, <1>11, <1>12, CallStep

(* ---- the commit ---- *)
LEMMA CommitKeeps == ASSUME IInv, NEW w \in Workers, Commit(w) PROVE IInv'
<1> USE IdleFacts
<1>1. /\ scope[w] \in ScopeType /\ Consistent(scope[w]) /\ scope[w].step = "open"
      /\ scope[w].call = Nothing /\ scope[w].rows \in [Calls -> Status]
  BY DEF IInv, Typed, Commit, At, Consistent, ScopeType
<1>2. /\ scope' = [scope EXCEPT ![w] = Idle] /\ balances' = balances \cup scope[w].inserts
      /\ row' = [c \in Calls |-> IF c \in Used(scope[w]) THEN scope[w].rows[c] ELSE row[c]]
      /\ UNCHANGED <<executed, company, faults>>
  BY DEF Commit
<1>3. scope'[w] = Idle /\ \A v \in Workers \ {w} : scope'[v] = scope[v]
  BY <1>2 DEF IInv, Typed
<1>4. \A c \in Calls : row'[c] = IF scope[w].rows[c] # "none" THEN scope[w].rows[c] ELSE row[c]
  BY <1>2 DEF Used
<1>5. \A c \in Calls : Idle.rows[c] = "none" /\ Idle.call # c
  BY ProviderAssumption DEF NoRows
<1>6. Typed'
  <2>1. row' \in [Calls -> Status]
    BY <1>1, <1>2 DEF IInv, Typed
  <2>2. balances' \subseteq Users
    BY <1>1, <1>2 DEF IInv, Typed, ScopeType
  <2> QED BY <1>2, <2>1, <2>2 DEF IInv, Typed
<1>7. ASSUME NEW v \in Workers PROVE (Consistent(scope[v]) /\ Shared(scope[v], company))'
  <2>1. Consistent(scope'[v]) /\ Shared(scope'[v], company')
    BY <1>2, <1>3 DEF IInv
  <2> QED BY <2>1 DEF Consistent, Shared
<1>8. \A c \in Calls, v \in Workers : Holds(v, c) => row[c] = "none" /\ \A x \in Workers \ {v} : ~Holds(x, c)
  BY DEF IInv, HeldOnce
<1>9. HeldOnce'
  <2>1. \A c \in Calls, v \in Workers : Holds(v, c)' => v # w /\ Holds(v, c)
    BY <1>3, <1>5 DEF Holds
  <2>2. \A c \in Calls, v \in Workers : Holds(v, c)' => row'[c] = "none"
    BY <1>4, <1>8, <2>1 DEF Holds
  <2> QED BY <1>8, <2>1, <2>2 DEF HeldOnce
<1>10. ASSUME NEW c \in Calls PROVE Counted(c)'
  <2>1. CASE scope[w].rows[c] = "none"
    <3>1. row'[c] = row[c]
      BY <1>4, <2>1
    <3>2. (Recorded(c)' <=> Recorded(c)) /\ (Undone(c)' => Undone(c))
      BY <1>3, <1>5, <2>1, <3>1, StatusFacts DEF Recorded, Undone
    <3> QED BY <1>2, <3>2, Kept DEF IInv, Typed
  <2>2. CASE scope[w].rows[c] # "none"
    <3>1. row'[c] = scope[w].rows[c] /\ row[c] = "none"
      BY <1>4, <1>8, <2>2 DEF Holds
    <3>2. \A v \in Workers \ {w} : scope[v].call # c /\ scope[v].rows[c] = "none"
      BY <1>8, <2>2 DEF Holds
    <3>3. \A v \in Workers : scope'[v].call # c /\ scope'[v].rows[c] = "none"
      BY <1>3, <1>5, <3>2
    <3>4. Recorded(c)' <=> Recorded(c)
      BY <3>1, <3>2, <3>3, StatusFacts DEF Recorded
    <3>5. Undone(c)' => Undone(c)
      BY <3>1, <3>3 DEF Undone
    <3> QED BY <1>2, <3>4, <3>5, Kept DEF IInv, Typed
  <2> QED BY <2>1, <2>2
<1> QED BY <1>6, <1>7, <1>9, <1>10 DEF IInv

LEMMA InvStep == ASSUME IInv, [Next]_vars PROVE IInv'
<1>1. ASSUME NEW w \in Workers, Caller(w) PROVE IInv'
  BY <1>1, OpenKeeps, BeginKeeps, GetBalanceKeeps, OtherFailsKeeps, CommitKeeps, CollideKeeps, CommitRefusedKeeps DEF Caller
<1>2. ASSUME NEW w \in Workers, Work(w) PROVE IInv'
  BY <1>2, StoredKeeps, UnstoredKeeps, RefusedKeeps, AnswerLostKeeps, AlertKeeps, FailKeeps, HandleKeeps, RollBackKeeps DEF Work
<1>3. ASSUME NEW w \in Workers, Crash(w) PROVE IInv'
  BY <1>3, CrashKeeps
<1>4. CASE UNCHANGED vars
  BY <1>4 DEF vars, IInv, Typed, Consistent, Shared, HeldOnce, Holds, Counted, Recorded, Undone
<1> QED BY <1>1, <1>2, <1>3, <1>4 DEF Next

-----------------------------------------------------------------------------
THEOREM Invariant == Spec => []IInv
BY InitInv, InvStep, PTL DEF Spec

(* Rows keep their statuses, and no call is attempted more often than the  *)
(* retry configuration says, for any number of attempts.                   *)
THEOREM TypeCorrect == Spec => []TypeOK
<1>1. IInv => TypeOK
  BY DEF IInv, Typed, TypeOK, ScopeType
<1> QED BY <1>1, Invariant, PTL

(* What a provider executed is on record or about to be, but for lost      *)
(* answers, dead processes, coins too long for their column, and calls     *)
(* that shared their scope.                                                *)
THEOREM OnlyCompanyLoses == Spec => []OnlyCompanyLosesRows
<1>1. ASSUME IInv PROVE OnlyCompanyLosesRows
  <2> SUFFICES ASSUME NEW c \in Calls
               PROVE  executed[c] - (IF Recorded(c) THEN 1 ELSE 0)
                        \in 0 .. faults["lost"] + faults["crash"] + (IF c \in company \cup LongCoins THEN 1 ELSE 0)
    BY DEF OnlyCompanyLosesRows
  <2>1. executed[c] \in Nat /\ faults["lost"] \in Nat /\ faults["crash"] \in Nat /\ Counted(c)
    BY <1>1 DEF IInv, Typed
  <2>2. CASE Recorded(c)
    BY <2>1, <2>2 DEF Counted
  <2>3. CASE ~Recorded(c)
    BY <2>1, <2>3 DEF Counted
  <2> QED BY <2>2, <2>3
<1> QED BY <1>1, Invariant, PTL

(* Without lost answers a done row stands for one execution and a failed   *)
(* row for none; a lost answer adds one to what a row may hide.            *)
THEOREM RowsTell == Spec => []RowsTellOutcomes
<1>1. ASSUME IInv PROVE RowsTellOutcomes
  <2> SUFFICES ASSUME NEW c \in Calls
               PROVE  executed[c] \in (IF row[c] \in DoneStatus THEN 1 ELSE 0)
                                        .. (IF row[c] \in FailedStatus THEN 0 ELSE 1) + faults["lost"]
    BY DEF RowsTellOutcomes
  <2>1. executed[c] \in Nat /\ faults["lost"] \in Nat /\ Counted(c)
    BY <1>1 DEF IInv, Typed
  <2>2. row[c] \in DoneStatus => Recorded(c)
    BY DEF Recorded
  <2>3. row[c] \in FailedStatus => Undone(c)
    BY DEF Undone
  <2> QED BY <2>1, <2>2, <2>3 DEF Counted
<1> QED BY <1>1, Invariant, PTL
=============================================================================
