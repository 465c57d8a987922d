--------------------------- MODULE RuntimeProofs ---------------------------
(* What holds of the runtime host for every set of callers, capabilities,    *)
(* profiles and groups and for every bound: slots, events and budgets of the *)
(* calls, and revocation.                                                    *)
EXTENDS RuntimeHost, TLAPS

(* How long a prover may take over a step.                                   *)
USE SMTT(60), ZenonT(60)

(* An instance makes calls only while its start function or an export runs.  *)
IdleInstancesMakeNoCall ==
    \A i \in Instances : phase[i] \in {"none", "ready"} => call[i] = None

(* RuntimeInv is not inductive: preflight gives an instance a new store, and *)
(* only the last conjunct says that it has no call in flight then.           *)
HostInv == TypeOK /\ RuntimeInv /\ IdleInstancesMakeNoCall

-----------------------------------------------------------------------------
(* The operations on a store                                                 *)

(* A new store has its type and nothing in flight.                           *)
LEMMA NewStoreType ==
    ASSUME NEW p \in Profiles \cup {None}, NEW m \in Modules \cup {None}
    PROVE  /\ NewStore(p, m) \in Stores
           /\ NewStore(p, m).profile = p
           /\ NewStore(p, m).used = 0
           /\ NewStore(p, m).concurrent = 0
           /\ NewStore(p, m).depth = 0
  <1>1. NoWindows \in [Scopes -> Windows \cup {None}]
    BY DEF NoWindows
  <1> QED
    BY <1>1 DEF NewStore, HostState, Stores

(* A renewed store has its whole budget, and the slots it had.               *)
LEMMA RenewedType ==
    ASSUME NEW s \in Stores, NEW p \in Profiles \cup {None}, NEW m \in Modules \cup {None}
    PROVE  /\ Renewed(s, p, m) \in Stores
           /\ Renewed(s, p, m).profile = p
           /\ Renewed(s, p, m).used = 0
           /\ Renewed(s, p, m).concurrent = s.concurrent
           /\ Renewed(s, p, m).depth = s.depth
  BY DEF Renewed, HostState, Stores

(* Enter counts a call, and nothing else changes.                            *)
LEMMA EnterCounts ==
    ASSUME NEW s \in Stores
    PROVE  /\ Enter(s) \in Stores
           /\ Enter(s).profile = s.profile
           /\ Enter(s).used = s.used + 1
           /\ Enter(s).concurrent = s.concurrent + 1
           /\ Enter(s).depth = s.depth + 1
  BY DEF Enter, HostState, Stores

(* Leave gives the slot back and does not touch the call budget.             *)
LEMMA LeaveGivesBack ==
    ASSUME NEW s \in Stores, s.concurrent > 0, s.depth > 0
    PROVE  /\ Leave(s) \in Stores
           /\ Leave(s).profile = s.profile
           /\ Leave(s).used = s.used
           /\ Leave(s).concurrent = s.concurrent - 1
           /\ Leave(s).depth = s.depth - 1
  BY DEF Leave, HostState, Stores

(* A call of a caller that has none in flight, and its way back.             *)
LEMMA OneCallInFlight ==
    ASSUME NEW s \in Stores, s.concurrent = 0, s.depth = 0
    PROVE  /\ Enter(s) \in Stores /\ Enter(s).profile = s.profile /\ Enter(s).used = s.used + 1
           /\ Enter(s).concurrent = 1 /\ Enter(s).depth = 1
           /\ Leave(Enter(s)) \in Stores /\ Leave(Enter(s)).profile = s.profile
           /\ Leave(Enter(s)).used = s.used + 1
           /\ Leave(Enter(s)).concurrent = 0 /\ Leave(Enter(s)).depth = 0
  <1>1. /\ Enter(s) \in Stores /\ Enter(s).profile = s.profile /\ Enter(s).used = s.used + 1
        /\ Enter(s).concurrent = 1 /\ Enter(s).depth = 1
    BY EnterCounts
  <1> QED
    BY <1>1, LeaveGivesBack

(* Charging a call to the rate windows leaves the counters alone.            *)
LEMMA ChargedKeepsCounters ==
    ASSUME NEW s \in Stores, NEW cap, clock \in Nat
    PROVE  /\ Charged(s, cap) \in Stores
           /\ Charged(s, cap).profile = s.profile
           /\ Charged(s, cap).used = s.used
           /\ Charged(s, cap).concurrent = s.concurrent
           /\ Charged(s, cap).depth = s.depth
  <1>1. s.windows \in [Scopes -> Windows \cup {None}]
    BY DEF Stores
  <1>2. ASSUME NEW w \in Windows \cup {None}
        PROVE  Counted(w) \in Windows
    BY <1>2 DEF Counted, Windows
  <1>3. CountedWindows(s, cap) \in [Scopes -> Windows \cup {None}]
    BY Zenon, <1>1, <1>2 DEF CountedWindows
  <1> QED
    BY <1>3 DEF Charged, HostState, Stores

-----------------------------------------------------------------------------
(* HostInv follows when one caller's part of the state changes in the right  *)
(* way; all steps but a few are of this kind.                                *)
CallerInv(s, k, i, a, n) ==
    /\ s \in Stores
    /\ k \in InFlight \cup {None}
    /\ i \in Nat /\ a \in Nat /\ n \in Nat
    /\ s.concurrent = (IF k = None THEN 0 ELSE 1)
    /\ s.depth = (IF k = None THEN 0 ELSE 1)
    /\ i = a + (IF k = None THEN 0 ELSE 1)
    /\ n <= s.used
    /\ \A p \in Profiles :
          s.profile = p /\ p.max_capability_calls # None => s.used <= p.max_capability_calls

(* The invariants say the same of every caller.                              *)
LEMMA OfEachCaller ==
    ASSUME HostInv, NEW c \in Callers
    PROVE  CallerInv(store[c], call[c], issued[c], audited[c], ran[c])
  BY DEF HostInv, TypeOK, RuntimeInv, SlotsAreReturned, EveryCallIsAudited, RunsStayInBudget,
         CallerInv

(* A step in which at most the part of one caller changes keeps the          *)
(* invariant if the new part is as it should be.                             *)
LEMMA OneCallerChanges ==
    ASSUME HostInv, NEW c \in Callers,
           NEW s, NEW k, NEW i, NEW a, NEW n,
           CallerInv(s, k, i, a, n),
           store' = [store EXCEPT ![c] = s],
           call' = [call EXCEPT ![c] = k],
           issued' = [issued EXCEPT ![c] = i],
           audited' = [audited EXCEPT ![c] = a],
           ran' = [ran EXCEPT ![c] = n],
           clock' \in Nat,
           phase' \in [Instances -> {"none", "starting", "ready", "running"}],
           status' \in [Groups -> {"pending", "committed", "rolled_back"}],
           open' \in Seq(Groups),
           IdleInstancesMakeNoCall'
    PROVE  HostInv'
  <1>1. TypeOK'
    BY DEF HostInv, TypeOK, CallerInv
  <1>2. ASSUME NEW d \in Callers
        PROVE  CallerInv(store'[d], call'[d], issued'[d], audited'[d], ran'[d])
    <2>1. CASE d = c
      BY <2>1 DEF HostInv, TypeOK
    <2>2. CASE d # c
      <3>1. CallerInv(store[d], call[d], issued[d], audited[d], ran[d])
        BY OfEachCaller
      <3>2. /\ store'[d] = store[d]
            /\ call'[d] = call[d]
            /\ issued'[d] = issued[d]
            /\ audited'[d] = audited[d]
            /\ ran'[d] = ran[d]
        BY Zenon, <2>2 DEF HostInv, TypeOK
      <3> QED
        BY <3>1, <3>2
    <2> QED
      BY <2>1, <2>2
  <1>3. RuntimeInv'
    BY Zenon, <1>2 DEF RuntimeInv, SlotsAreReturned, EveryCallIsAudited, RunsStayInBudget, CallerInv
  <1> QED
    BY Zenon, <1>1, <1>3 DEF HostInv

(* What a refused call leaves behind: one more call issued and audited, and  *)
(* at most one more call used where the budget allows it.                    *)
LEMMA RefusalIsCounted ==
    ASSUME NEW s, NEW i, NEW a, NEW n, CallerInv(s, None, i, a, n), NEW t \in Stores,
           t.profile = s.profile /\ t.concurrent = 0 /\ t.depth = 0,
           \/ t.used = s.used
           \/ /\ t.used = s.used + 1
              /\ \A p \in Profiles : s.profile = p /\ p.max_capability_calls # None
                                       => s.used + 1 <= p.max_capability_calls
    PROVE  CallerInv(t, None, i + 1, a + 1, n)
  <1>1. s.used \in Nat
    BY DEF CallerInv, Stores
  <1> QED
    BY <1>1 DEF CallerInv

(* What a call that reaches its handler leaves behind.                       *)
LEMMA RunIsCounted ==
    ASSUME NEW s, NEW i, NEW a, NEW n, CallerInv(s, None, i, a, n), NEW t \in Stores,
           NEW k \in InFlight, k # None,
           t.profile = s.profile /\ t.concurrent = 1 /\ t.depth = 1 /\ t.used = s.used + 1,
           \A p \in Profiles : s.profile = p /\ p.max_capability_calls # None
                                  => s.used + 1 <= p.max_capability_calls
    PROVE  CallerInv(t, k, i + 1, a, n + 1)
  <1>1. s.used \in Nat
    BY DEF CallerInv, Stores
  <1> QED
    BY <1>1 DEF CallerInv

(* A caller that makes a call is not idle.                                   *)
LEMMA CallersAreNotIdle ==
    ASSUME HostInv, NEW c \in Callers, NEW k, call' = [call EXCEPT ![c] = k],
           phase' = phase, c \in Instances => Executing(c)
    PROVE  IdleInstancesMakeNoCall'
  <1>1. ASSUME NEW j \in Instances, phase[j] \in {"none", "ready"}
        PROVE  call'[j] = None
    <2>1. j # c
      BY <1>1 DEF Executing
    <2>2. call'[j] = call[j]
      BY <2>1 DEF HostInv, TypeOK, Callers
    <2> QED
      BY Zenon, <1>1, <2>2 DEF HostInv, IdleInstancesMakeNoCall
  <1> QED
    BY <1>1 DEF IdleInstancesMakeNoCall

(* A call issues, and leaves the rest of the host alone.                     *)
LEMMA CallsIssue ==
    ASSUME HostInv, NEW c \in Callers, NEW path \in Paths, NEW r \in Requests(path),
           Calls(c, r)
    PROVE  /\ clock' \in Nat
           /\ phase' = phase
           /\ phase' \in [Instances -> {"none", "starting", "ready", "running"}]
           /\ status' \in [Groups -> {"pending", "committed", "rolled_back"}]
           /\ open' \in Seq(Groups)
           /\ issued' = [issued EXCEPT ![c] = issued[c] + 1]
  BY Zenon DEF HostInv, TypeOK, Calls, Issue, shared, transactions

(* The budget of a call that the checks let pass.                            *)
LEMMA AllowedIsInBudget ==
    ASSUME HostInv, NEW c \in Callers, NEW path \in Paths, NEW r \in Requests(path),
           Allowed(c, r)
    PROVE  \A p \in Profiles : store[c].profile = p /\ p.max_capability_calls # None
                                 => store[c].used + 1 <= p.max_capability_calls
  <1>1. store[c] \in Stores /\ r.path \in Paths
    BY DEF HostInv, TypeOK, Requests
  <1> QED
    BY <1>1, LimitsAreLimits DEF Allowed, Admits, AtLimit, Limit, Stores

(* A call on any of the three paths, whichever check or handler it meets,    *)
(* keeps the invariant.                                                      *)
LEMMA CallKeepsInv ==
    ASSUME HostInv, NEW c \in Callers, NEW path \in Paths, NEW r \in Requests(path),
           Calls(c, r),
           c \in Instances => Executing(c)
    PROVE  HostInv'
  <1> DEFINE s == store[c]
             t == Charged(s, r.cap)
             b == Leave(Enter(t))
  <1>1. CallerInv(s, None, issued[c], audited[c], ran[c])
    BY Zenon, OfEachCaller DEF Calls
  <1>2. s \in Stores /\ s.concurrent = 0 /\ s.depth = 0 /\ clock \in Nat /\ r.cap \in Capabilities
    BY <1>1 DEF HostInv, TypeOK, Requests, CallerInv
  <1>3. /\ store = [store EXCEPT ![c] = s]
        /\ audited = [audited EXCEPT ![c] = audited[c]]
        /\ ran = [ran EXCEPT ![c] = ran[c]]
        /\ call = [call EXCEPT ![c] = None]
    BY DEF HostInv, TypeOK, Calls
  <1>4. /\ t \in Stores /\ t.profile = s.profile /\ t.used = s.used
        /\ t.concurrent = 0 /\ t.depth = 0
    BY Zenon, <1>2, ChargedKeepsCounters
  <1>5. CASE Refuse(c, r)
    <2>1. CallerInv(s, None, issued[c] + 1, audited[c] + 1, ran[c])
      BY Zenon, <1>1, <1>2, RefusalIsCounted
    <2>2. /\ store' = [store EXCEPT ![c] = s]
          /\ call' = [call EXCEPT ![c] = None]
          /\ audited' = [audited EXCEPT ![c] = audited[c] + 1]
          /\ ran' = [ran EXCEPT ![c] = ran[c]]
      BY Zenon, <1>3, <1>5 DEF Refuse, Audit
    <2> QED
      BY Zenon, <2>1, <2>2, CallsIssue, CallersAreNotIdle, OneCallerChanges
  <1>6. /\ Enter(t) \in Stores /\ Enter(t).profile = s.profile /\ Enter(t).used = s.used + 1
        /\ Enter(t).concurrent = 1 /\ Enter(t).depth = 1
    BY Zenon, <1>4, OneCallInFlight
  <1>7. /\ b \in Stores /\ b.profile = s.profile /\ b.used = s.used + 1
        /\ b.concurrent = 0 /\ b.depth = 0
    BY Zenon, <1>4, OneCallInFlight
  <1> HIDE DEF b
  <1>8. CASE RefuseCharged(c, r)
    <2>1. CallerInv(t, None, issued[c] + 1, audited[c] + 1, ran[c])
      BY Zenon, <1>1, <1>4, RefusalIsCounted
    <2>2. /\ store' = [store EXCEPT ![c] = t]
          /\ call' = [call EXCEPT ![c] = None]
          /\ audited' = [audited EXCEPT ![c] = audited[c] + 1]
          /\ ran' = [ran EXCEPT ![c] = ran[c]]
      BY Zenon, <1>3, <1>8 DEF RefuseCharged, Audit
    <2> QED
      BY Zenon, <2>1, <2>2, CallsIssue, CallersAreNotIdle, OneCallerChanges
  <1>9. CASE Bounce(c, r)
    <2> DEFINE u == Bounced(t, r)
    <2>1. u = t \/ u = b
      BY DEF Bounced, b
    <2>2. /\ store' = [store EXCEPT ![c] = u]
          /\ call' = [call EXCEPT ![c] = None]
          /\ audited' = [audited EXCEPT ![c] = audited[c] + 1]
          /\ ran' = [ran EXCEPT ![c] = ran[c]]
      BY Zenon, <1>3, <1>9 DEF Bounce, Audit
    <2> HIDE DEF t, u
    <2>3. CallerInv(t, None, issued[c] + 1, audited[c] + 1, ran[c])
      BY Zenon, <1>1, <1>4, RefusalIsCounted
    <2>4. CallerInv(b, None, issued[c] + 1, audited[c] + 1, ran[c])
      <3>1. Allowed(c, r)
        BY Zenon, <1>9 DEF Bounce
      <3> QED
        BY Zenon, <1>1, <1>7, <3>1, AllowedIsInBudget, RefusalIsCounted
    <2>5. CallerInv(u, None, issued[c] + 1, audited[c] + 1, ran[c])
      BY Zenon, <2>1, <2>3, <2>4
    <2> QED
      BY Zenon, <2>2, <2>5, CallsIssue, CallersAreNotIdle, OneCallerChanges
  <1>10. CASE RunHandler(c, r)
    <2> DEFINE k == [cap |-> r.cap, path |-> r.path]
    <2>1. k \in InFlight /\ k # None
      BY <1>2, NoneIsNothing DEF InFlight, Requests
    <2>2. /\ store' = [store EXCEPT ![c] = Enter(t)]
          /\ call' = [call EXCEPT ![c] = k]
          /\ audited' = [audited EXCEPT ![c] = audited[c]]
          /\ ran' = [ran EXCEPT ![c] = ran[c] + 1]
      BY Zenon, <1>3, <1>10 DEF RunHandler
    <2>3. Allowed(c, r)
      BY Zenon, <1>10 DEF RunHandler
    <2> HIDE DEF t, k
    <2>4. CallerInv(Enter(t), k, issued[c] + 1, audited[c], ran[c] + 1)
      BY Zenon, <1>1, <1>6, <2>1, <2>3, AllowedIsInBudget, RunIsCounted
    <2> QED
      BY Zenon, <2>2, <2>4, CallsIssue, CallersAreNotIdle, OneCallerChanges
  <1> QED
    BY Zenon, <1>5, <1>8, <1>9, <1>10 DEF Calls

(* The return of a handler keeps the invariant.                              *)
LEMMA ReturnKeepsInv ==
    ASSUME HostInv, NEW c \in Callers, NEW path, Returns(c, path)
    PROVE  HostInv'
  <1> DEFINE s == store[c]
  <1>1. CallerInv(s, call[c], issued[c], audited[c], ran[c]) /\ call[c] # None
    BY Zenon, OfEachCaller DEF Returns
  <1>2. /\ Leave(s) \in Stores
        /\ Leave(s).profile = s.profile
        /\ Leave(s).used = s.used
        /\ Leave(s).concurrent = 0
        /\ Leave(s).depth = 0
    BY <1>1, LeaveGivesBack DEF CallerInv
  <1>3. CallerInv(Leave(s), None, issued[c], audited[c] + 1, ran[c])
    BY <1>1, <1>2 DEF CallerInv
  <1>4. /\ store' = [store EXCEPT ![c] = Leave(s)]
        /\ call' = [call EXCEPT ![c] = None]
        /\ issued' = [issued EXCEPT ![c] = issued[c]]
        /\ audited' = [audited EXCEPT ![c] = audited[c] + 1]
        /\ ran' = [ran EXCEPT ![c] = ran[c]]
    BY DEF Returns, AtExit, Audit, HostInv, TypeOK
  <1>5. /\ clock' \in Nat
        /\ phase' \in [Instances -> {"none", "starting", "ready", "running"}]
        /\ status' \in [Groups -> {"pending", "committed", "rolled_back"}]
        /\ open' \in Seq(Groups)
    BY DEF HostInv, TypeOK, Returns, shared, transactions
  <1>6. IdleInstancesMakeNoCall'
    BY <1>4 DEF HostInv, TypeOK, IdleInstancesMakeNoCall, Returns, Callers
  <1> QED
    BY Zenon, <1>3, <1>4, <1>5, <1>6, OneCallerChanges

(* A store whose call budget has not been touched keeps within it.           *)
LEMMA UnusedStoreIsSound ==
    ASSUME NEW s \in Stores, NEW t, NEW k, NEW i, NEW a, NEW n, CallerInv(t, k, i, a, n),
           s.used = 0, s.concurrent = t.concurrent, s.depth = t.depth
    PROVE  CallerInv(s, k, i, a, 0)
  BY LimitsAreLimits DEF CallerInv, Limit

(* Starting an instance, and its first store.                                *)
LEMMA PreflightKeepsInv ==
    ASSUME HostInv, NEW i \in Instances, NEW p \in Profiles, NEW m \in Manifests,
           preflight(i, p, m)
    PROVE  HostInv'
  <1> DEFINE s == NewStore(p, m.module)
  <1>1. i \in Callers /\ m.module \in Modules
    BY Zenon DEF Callers, Modules
  <1>a. call[i] = None
    BY Zenon DEF HostInv, IdleInstancesMakeNoCall, preflight
  <1>2. CallerInv(store[i], None, issued[i], audited[i], ran[i])
    BY Zenon, <1>1, <1>a, OfEachCaller
  <1>3. /\ s \in Stores
        /\ s.profile = p
        /\ s.used = 0
        /\ s.concurrent = 0
        /\ s.depth = 0
    BY Zenon, <1>1, NewStoreType
  <1>4. CallerInv(s, None, issued[i], audited[i], 0)
    <2>1. store[i].concurrent = 0 /\ store[i].depth = 0
      BY Zenon, <1>2 DEF CallerInv
    <2> HIDE DEF s
    <2> QED
      BY Zenon, <1>2, <1>3, <2>1, UnusedStoreIsSound
  <1>5. /\ store' = [store EXCEPT ![i] = s]
        /\ call' = [call EXCEPT ![i] = None]
        /\ issued' = [issued EXCEPT ![i] = issued[i]]
        /\ audited' = [audited EXCEPT ![i] = audited[i]]
        /\ ran' = [ran EXCEPT ![i] = 0]
    <2>1. /\ call \in [Callers -> InFlight \cup {None}]
          /\ issued \in [Callers -> Nat] /\ audited \in [Callers -> Nat]
      BY Zenon DEF HostInv, TypeOK
    <2>2. UNCHANGED <<call, issued, audited>>
      BY Zenon DEF preflight
    <2>3. /\ store' = [store EXCEPT ![i] = s]
          /\ ran' = [ran EXCEPT ![i] = 0]
      BY Zenon DEF preflight
    <2> HIDE DEF s
    <2> QED
      BY <1>1, <1>a, <2>1, <2>2, <2>3
  <1>6. /\ clock' \in Nat
        /\ phase' \in [Instances -> {"none", "starting", "ready", "running"}]
        /\ status' \in [Groups -> {"pending", "committed", "rolled_back"}]
        /\ open' \in Seq(Groups)
    BY Zenon DEF HostInv, TypeOK, preflight, shared, transactions
  <1>7. IdleInstancesMakeNoCall'
    BY Zenon DEF HostInv, TypeOK, IdleInstancesMakeNoCall, preflight
  <1> HIDE DEF s
  <1> QED
    BY Zenon, <1>1, <1>4, <1>5, <1>6, <1>7, OneCallerChanges

CallsStayAsTheyAre == UNCHANGED <<shared, transactions, call, audited, issued>>

(* A caller whose budget starts again: the host when an instance is ready,   *)
(* an instance when an export is invoked.                                    *)
LEMMA RenewalKeepsInv ==
    ASSUME HostInv, NEW c \in Callers, NEW p \in Profiles \cup {None},
           NEW m \in Modules \cup {None},
           store' = [store EXCEPT ![c] = Renewed(@, p, m)],
           ran' = [ran EXCEPT ![c] = 0],
           phase' \in [Instances -> {"none", "starting", "ready", "running"}],
           IdleInstancesMakeNoCall',
           CallsStayAsTheyAre
    PROVE  HostInv'
  <1> DEFINE s == Renewed(store[c], p, m)
  <1>1. CallerInv(store[c], call[c], issued[c], audited[c], ran[c])
    BY Zenon, OfEachCaller
  <1>a. store[c] \in Stores
    BY Zenon, <1>1 DEF CallerInv
  <1>2. /\ s \in Stores
        /\ s.profile = p
        /\ s.used = 0
        /\ s.concurrent = store[c].concurrent
        /\ s.depth = store[c].depth
    BY Zenon, <1>a, RenewedType
  <1>3. CallerInv(s, call[c], issued[c], audited[c], 0)
    <2> HIDE DEF s
    <2> QED
      BY Zenon, <1>1, <1>2, UnusedStoreIsSound
  <1>4. /\ store' = [store EXCEPT ![c] = s]
        /\ call' = [call EXCEPT ![c] = call[c]]
        /\ issued' = [issued EXCEPT ![c] = issued[c]]
        /\ audited' = [audited EXCEPT ![c] = audited[c]]
    BY DEF CallsStayAsTheyAre, HostInv, TypeOK
  <1>5. /\ clock' \in Nat
        /\ status' \in [Groups -> {"pending", "committed", "rolled_back"}]
        /\ open' \in Seq(Groups)
    BY Zenon DEF CallsStayAsTheyAre, HostInv, TypeOK, shared, transactions
  <1> QED
    BY Zenon, <1>3, <1>4, <1>5, OneCallerChanges

(* Steps that leave the callers alone.                                       *)
LEMMA OthersKeepInv ==
    ASSUME HostInv,
           clock' \in Nat,
           phase' \in [Instances -> {"none", "starting", "ready", "running"}],
           status' \in [Groups -> {"pending", "committed", "rolled_back"}],
           open' \in Seq(Groups),
           IdleInstancesMakeNoCall',
           UNCHANGED <<store, call, audited, issued, ran>>
    PROVE  HostInv'
  <1>1. TypeOK'
    BY Zenon DEF HostInv, TypeOK
  <1>2. RuntimeInv'
    BY Zenon DEF HostInv, RuntimeInv, SlotsAreReturned, EveryCallIsAudited, RunsStayInBudget
  <1> QED
    BY <1>1, <1>2 DEF HostInv

-----------------------------------------------------------------------------
(* In every reachable state of the host and its instances the variables have *)
(* their types, concurrent_calls and call_depth are exactly what is in       *)
(* flight, every finished call of call_capability, dispatch_host_call and    *)
(* dispatch_host_call_write has its one audit event, and no invocation runs  *)
(* more handlers than max_capability_calls.                                  *)
THEOREM RuntimeInvariant == Spec => [](TypeOK /\ RuntimeInv)
  <1>1. Init => HostInv
    <2> SUFFICES ASSUME Init PROVE HostInv
      OBVIOUS
    <2> DEFINE s == NewStore(None, None)
    <2>1. /\ s \in Stores
          /\ s.profile = None
          /\ s.used = 0
          /\ s.concurrent = 0
          /\ s.depth = 0
      BY NewStoreType
    <2>2. \A c \in Callers : store[c] = s
      BY DEF Init
    <2>3. store \in [Callers -> Stores]
      BY <2>1 DEF Init
    <2> HIDE DEF s
    <2>4. TypeOK
      BY <2>3 DEF Init, TypeOK
    <2>5. RuntimeInv
      BY <2>1, <2>2, NoneIsNothing
         DEF Init, RuntimeInv, SlotsAreReturned, EveryCallIsAudited, RunsStayInBudget
    <2>6. IdleInstancesMakeNoCall
      BY DEF Init, IdleInstancesMakeNoCall, Callers
    <2> QED
      BY <2>4, <2>5, <2>6 DEF HostInv
  <1>2. HostInv /\ [Next]_vars => HostInv'
    <2> SUFFICES ASSUME HostInv, [Next]_vars PROVE HostInv'
      OBVIOUS
    <2>1. ASSUME NEW r \in Requests("call_capability"), call_capability(r)
          PROVE  HostInv'
      BY <2>1, CallKeepsInv, CallersDiffer DEF call_capability, Paths, Callers
    <2>2. CASE call_capability_returns
      BY <2>2, ReturnKeepsInv DEF call_capability_returns, Callers
    <2>3. ASSUME NEW i \in Instances, NEW r \in Requests("host_call"), dispatch_host_call(i, r)
          PROVE  HostInv'
      BY <2>3, CallKeepsInv DEF dispatch_host_call, Paths, Callers
    <2>4. ASSUME NEW i \in Instances, NEW r \in Requests("host_call_write"),
                 dispatch_host_call_write(i, r)
          PROVE  HostInv'
      BY <2>4, CallKeepsInv DEF dispatch_host_call_write, Paths, Callers
    <2>5. ASSUME NEW i \in Instances,
                 dispatch_host_call_returns(i) \/ dispatch_host_call_write_returns(i)
          PROVE  HostInv'
      BY <2>5, ReturnKeepsInv
         DEF dispatch_host_call_returns, dispatch_host_call_write_returns, Callers
    <2>6. ASSUME NEW i \in Instances, NEW p \in Profiles, NEW m \in Manifests,
                 preflight(i, p, m)
          PROVE  HostInv'
      BY <2>6, PreflightKeepsInv
    <2>7. ASSUME NEW i \in Instances, validate_and_instantiate(i)
          PROVE  HostInv'
      <3>1. /\ store[i].profile \in Profiles \cup {None}
            /\ store[i].module \in Modules \cup {None}
            /\ Host \in Callers
        BY DEF HostInv, TypeOK, Callers, Stores
      <3>2. /\ store' = [store EXCEPT ![Host] = Renewed(@, store[i].profile, store[i].module)]
            /\ ran' = [ran EXCEPT ![Host] = 0]
            /\ phase' \in [Instances -> {"none", "starting", "ready", "running"}]
            /\ CallsStayAsTheyAre
        BY <2>7 DEF validate_and_instantiate, CallsStayAsTheyAre, HostInv, TypeOK
      <3>3. IdleInstancesMakeNoCall'
        BY <2>7 DEF validate_and_instantiate, HostInv, TypeOK, IdleInstancesMakeNoCall
      <3> QED
        BY Zenon, <3>1, <3>2, <3>3, RenewalKeepsInv
    <2>8. ASSUME NEW i \in Instances, invoke(i)
          PROVE  HostInv'
      <3>1. /\ store[i].profile \in Profiles \cup {None}
            /\ store[i].module \in Modules \cup {None}
            /\ i \in Callers
        BY DEF HostInv, TypeOK, Callers, Stores
      <3>2. /\ store' = [store EXCEPT ![i] = Renewed(@, store[i].profile, store[i].module)]
            /\ ran' = [ran EXCEPT ![i] = 0]
            /\ phase' \in [Instances -> {"none", "starting", "ready", "running"}]
            /\ CallsStayAsTheyAre
        BY <2>8 DEF invoke, CallsStayAsTheyAre, HostInv, TypeOK
      <3>3. IdleInstancesMakeNoCall'
        BY <2>8 DEF invoke, HostInv, TypeOK, IdleInstancesMakeNoCall
      <3> QED
        BY Zenon, <3>1, <3>2, <3>3, RenewalKeepsInv
    <2>9. ASSUME NEW i \in Instances, preflight_failed(i) \/ invoke_returns(i)
          PROVE  HostInv'
      <3>1. /\ clock' \in Nat
            /\ phase' \in [Instances -> {"none", "starting", "ready", "running"}]
            /\ status' \in [Groups -> {"pending", "committed", "rolled_back"}]
            /\ open' \in Seq(Groups)
            /\ UNCHANGED <<store, call, audited, issued, ran>>
        BY Zenon, <2>9 DEF preflight_failed, invoke_returns, HostInv, TypeOK, shared, transactions
      <3>2. IdleInstancesMakeNoCall'
        BY Zenon, <2>9 DEF preflight_failed, invoke_returns, HostInv, TypeOK, IdleInstancesMakeNoCall
      <3> QED
        BY <3>1, <3>2, OthersKeepInv
    <2>10. ASSUME (\E grant \in Revocable : revoke(grant)) \/ Tick
           PROVE  HostInv'
      <3>1. /\ clock' \in Nat
            /\ UNCHANGED <<phase, status, open, store, call, audited, issued, ran>>
        BY <2>10 DEF revoke, Tick, HostInv, TypeOK, transactions
      <3> QED
        BY <3>1, OthersKeepInv DEF HostInv, TypeOK, IdleInstancesMakeNoCall
    <2>11. ASSUME NEW g \in Groups, execute_with_rollback(g)
           PROVE  HostInv'
      <3>1. /\ open' \in Seq(Groups)
            /\ UNCHANGED <<clock, phase, status, store, call, audited, issued, ran>>
        BY <2>11 DEF execute_with_rollback, HostInv, TypeOK, shared
      <3> QED
        BY <3>1, OthersKeepInv DEF HostInv, TypeOK, IdleInstancesMakeNoCall
    <2>12. CASE execute_ok \/ execute_err
      <3>1. open \in Seq(Groups) /\ open # <<>>
        BY Zenon, <2>12 DEF execute_ok, execute_err, HostInv, TypeOK
      <3>2. open[Len(open)] \in Groups /\ SubSeq(open, 1, Len(open) - 1) \in Seq(Groups)
        BY <3>1
      <3>3. /\ open' \in Seq(Groups)
            /\ status' \in [Groups -> {"pending", "committed", "rolled_back"}]
            /\ UNCHANGED <<clock, phase, store, call, audited, issued, ran>>
        BY Zenon, <2>12, <3>2
           DEF execute_ok, execute_err, EndGroup, Settle, commit, rollback, HostInv, TypeOK, shared
      <3> QED
        BY Zenon, <3>3, OthersKeepInv DEF HostInv, TypeOK, IdleInstancesMakeNoCall
    <2>14. ASSUME NEW g \in Groups, commit_directly(g) \/ rollback_directly(g)
           PROVE  HostInv'
      <3>1. /\ open' \in Seq(Groups)
            /\ status' \in [Groups -> {"pending", "committed", "rolled_back"}]
            /\ UNCHANGED <<clock, phase, store, call, audited, issued, ran>>
        BY Zenon, <2>14
           DEF commit_directly, rollback_directly, Settle, commit, rollback, HostInv, TypeOK, shared
      <3> QED
        BY Zenon, <3>1, OthersKeepInv DEF HostInv, TypeOK, IdleInstancesMakeNoCall
    <2>13. CASE UNCHANGED vars
      BY <2>13, OthersKeepInv DEF vars, HostInv, TypeOK, IdleInstancesMakeNoCall
    <2> QED
      BY SMTT(40), <2>1, <2>2, <2>3, <2>4, <2>5, <2>6, <2>7, <2>8, <2>9, <2>10, <2>11, <2>12, <2>13,
         <2>14 DEF Next
  <1>3. HostInv => TypeOK /\ RuntimeInv
    BY DEF HostInv
  <1> QED
    BY <1>1, <1>2, <1>3, PTL DEF Spec

(* No call of any of the three paths gets past is_revoked once its grant is  *)
(* in the registry, however old the caller's store is.                       *)
THEOREM RevokedCallsAreRefused == Spec => RevocationIsImmediate
  <1> DEFINE Refused ==
        \A c \in Callers :
            call[c] = None /\ call'[c] # None =>
                <<store[c].module, call'[c].cap, store[c].profile.name>> \notin revocations
  <1>1. TypeOK /\ [Next]_vars => Refused
    <2> SUFFICES ASSUME TypeOK, [Next]_vars, NEW c \in Callers,
                        call[c] = None, call'[c] # None
                 PROVE  <<store[c].module, call'[c].cap, store[c].profile.name>> \notin revocations
      OBVIOUS
    <2>1. ASSUME NEW d \in Callers, NEW r, Calls(d, r)
          PROVE  <<store[c].module, call'[c].cap, store[c].profile.name>> \notin revocations
      <3>1. d = c /\ RunHandler(d, r)
        BY Zenon, <2>1 DEF TypeOK, Calls, Refuse, RefuseCharged, Bounce, RunHandler
      <3>2. call'[c].cap = r.cap
        BY Zenon, <3>1 DEF RunHandler, TypeOK
      <3>3. ~is_revoked(store[c], r.cap)
        BY <3>1 DEF RunHandler, Allowed, Admits
      <3> QED
        BY SMTT(40), <3>2, <3>3 DEF is_revoked
    <2>2. ASSUME NEW d \in Callers, NEW path, Returns(d, path)
          PROVE  FALSE
      <3>1. call[d] # None /\ call' = [call EXCEPT ![d] = None]
        BY Zenon, <2>2 DEF Returns
      <3>2. call \in [Callers -> InFlight \cup {None}]
        BY Zenon DEF TypeOK
      <3> QED
        BY Zenon, <3>1, <3>2
    <2>3. call' # call
      BY Zenon
    <2>4. CASE \E r \in Requests("call_capability") : call_capability(r)
      BY Zenon, <2>1, <2>4 DEF call_capability, Callers
    <2>5. CASE \E i \in Instances :
                  \/ \E r \in Requests("host_call") : dispatch_host_call(i, r)
                  \/ \E r \in Requests("host_call_write") : dispatch_host_call_write(i, r)
      BY <2>1, <2>5 DEF dispatch_host_call, dispatch_host_call_write, Callers
    <2>6. CASE \/ call_capability_returns
               \/ \E i \in Instances :
                      dispatch_host_call_returns(i) \/ dispatch_host_call_write_returns(i)
      BY <2>2, <2>6 DEF call_capability_returns, dispatch_host_call_returns,
                        dispatch_host_call_write_returns, Callers
    <2> QED
      BY Zenon, <2>3, <2>4, <2>5, <2>6
         DEF Next, vars, preflight, validate_and_instantiate, preflight_failed, invoke,
             invoke_returns, revoke, Tick, execute_with_rollback, execute_ok, execute_err, EndGroup,
             commit_directly, rollback_directly, Settle
  <1>2. Spec => []TypeOK
    BY RuntimeInvariant, PTL
  <1> QED
    BY <1>1, <1>2, PTL DEF Spec, RevocationIsImmediate
=============================================================================
