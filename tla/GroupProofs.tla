----------------------------- MODULE GroupProofs -----------------------------
(* What holds of the transaction groups of the runtime host, for every set   *)
(* of groups and however their closures nest.                                *)
EXTENDS RuntimeHost, TLAPS

(* A sequence with one element more.                                         *)
LEMMA OneMore ==
    ASSUME NEW S, NEW s \in Seq(S), NEW e \in S
    PROVE  /\ Append(s, e) \in Seq(S) /\ Len(s) \in Nat
           /\ DOMAIN s = 1..Len(s) /\ DOMAIN Append(s, e) = 1..(Len(s) + 1)
           /\ Append(s, e)[Len(s) + 1] = e
           /\ \A n \in DOMAIN s : Append(s, e)[n] = s[n]
  OBVIOUS

LEMMA LastOrBefore ==
    ASSUME NEW n \in Nat \ {0}, NEW k \in 1..n
    PROVE  k = n \/ k \in 1..(n - 1)
  OBVIOUS

(* What was asked of the groups, in order.                                   *)
Settlements == [group : Groups, action : {"committed", "rolled_back"},
                event : {"committed", "rolled_back", "no_change", "unlogged"}]

LEMMA SettledAreGroups ==
    ASSUME NEW s \in Seq(Settlements), NEW n \in DOMAIN s
    PROVE  s[n].group \in Groups
  <1>1. s[n] \in Settlements
    OBVIOUS
  <1> QED
    BY Zenon, <1>1 DEF Settlements

(* GroupsSettleOnce, with what it needs to know of the history and of the    *)
(* closures that are running: a group of which something was asked is not    *)
(* pending any more.                                                         *)
GroupInv ==
    /\ open \in Seq(Groups)
    /\ status \in [Groups -> {"pending", "committed", "rolled_back"}]
    /\ settled \in Seq(Settlements)
    /\ \A n \in DOMAIN settled : status[settled[n].group] # "pending"
    /\ GroupsSettleOnce

(* What is asked of a pending group becomes its status, and the log may say  *)
(* so; of a settled one it changes nothing, and the log may not.             *)
Outcome(g, action) == IF status[g] = "pending" THEN action ELSE status[g]

Events(g, action) == {"unlogged", IF status[g] = "pending" THEN action ELSE "no_change"}

(* One more thing asked of a group keeps GroupInv.                           *)
LEMMA SettlingOnceMore ==
    ASSUME GroupInv, NEW g \in Groups, NEW action \in {"committed", "rolled_back"},
           NEW event \in Events(g, action),
           status' = [status EXCEPT ![g] = Outcome(g, action)],
           settled' = Append(settled, [group |-> g, action |-> action, event |-> event]),
           open' \in Seq(Groups)
    PROVE  GroupInv'
  <1> DEFINE e == [group |-> g, action |-> action, event |-> event]
             N == Len(settled) + 1
  <1>1. /\ status \in [Groups -> {"pending", "committed", "rolled_back"}]
        /\ settled \in Seq(Settlements)
    BY Zenon DEF GroupInv
  <1>2. e \in Settlements
    BY DEF Events, Settlements
  <1>3. status' \in [Groups -> {"pending", "committed", "rolled_back"}]
    BY <1>1 DEF Outcome
  <1>4. /\ settled' \in Seq(Settlements)
        /\ DOMAIN settled' = 1..N /\ DOMAIN settled = 1..(N - 1) /\ N \in Nat \ {0}
        /\ settled'[N] = e
        /\ \A n \in DOMAIN settled : settled'[n] = settled[n]
    <2>1. settled' = Append(settled, e)
      OBVIOUS
    <2> HIDE DEF e
    <2> QED
      BY <1>1, <1>2, <2>1, OneMore
  <1>5. e.group = g /\ e.action = action /\ e.event = event
    OBVIOUS
  <1> HIDE DEF e, N
  <1>6. ASSUME NEW h \in Groups, \A n \in DOMAIN settled' : settled'[n].group # h
        PROVE  status'[h] = "pending"
    <2>1. h # g
      BY <1>4, <1>5, <1>6
    <2>2. \A n \in DOMAIN settled : settled[n].group # h
      BY <1>4, <1>6
    <2>3. status[h] = "pending"
      BY Zenon, <1>6, <2>2 DEF GroupInv, GroupsSettleOnce
    <2> QED
      BY Zenon, <1>1, <2>1, <2>3
  <1>7. ASSUME NEW n \in DOMAIN settled'
        PROVE  IF \E m \in 1..(n - 1) : settled'[m].group = settled'[n].group
               THEN settled'[n].event \in {"no_change", "unlogged"}
               ELSE /\ status'[settled'[n].group] = settled'[n].action
                    /\ settled'[n].event \in {settled'[n].action, "unlogged"}
    <2>1. CASE n \in DOMAIN settled
      <3>1. settled'[n] = settled[n] /\ \A m \in 1..(n - 1) : settled'[m] = settled[m]
        BY <1>4, <2>1
      <3>2. settled[n].group \in Groups
        BY Zenon, <1>1, <2>1, SettledAreGroups
      <3>3. status'[settled[n].group] = status[settled[n].group]
        BY Zenon, <1>1, <2>1, <3>2 DEF GroupInv, Outcome
      <3>4. IF \E m \in 1..(n - 1) : settled[m].group = settled[n].group
            THEN settled[n].event \in {"no_change", "unlogged"}
            ELSE /\ status[settled[n].group] = settled[n].action
                 /\ settled[n].event \in {settled[n].action, "unlogged"}
        BY Zenon, <2>1 DEF GroupInv, GroupsSettleOnce
      <3> QED
        BY Zenon, <3>1, <3>3, <3>4
    <2>2. CASE n \notin DOMAIN settled
      <3>1. n = N /\ 1..(n - 1) = DOMAIN settled
        BY <1>4, <2>2
      <3>2. \A m \in DOMAIN settled : settled'[m] = settled[m]
        BY Zenon, <1>4
      <3>3. CASE \E m \in DOMAIN settled : settled[m].group = g
        <4>1. status[g] # "pending"
          BY Zenon, <3>3 DEF GroupInv
        <4>2. event \in {"no_change", "unlogged"}
          BY Zenon, <4>1 DEF Events
        <4> QED
          BY Zenon, <1>4, <1>5, <3>1, <3>2, <3>3, <4>2
      <3>4. CASE \A m \in DOMAIN settled : settled[m].group # g
        <4>1. status[g] = "pending"
          BY Zenon, <3>4 DEF GroupInv, GroupsSettleOnce
        <4>2. event \in {action, "unlogged"} /\ status'[g] = action
          BY Zenon, <1>1, <4>1 DEF Events, Outcome
        <4> QED
          BY Zenon, <1>4, <1>5, <3>1, <3>2, <3>4, <4>2
      <3> QED
        BY Zenon, <3>3, <3>4
    <2> QED
      BY Zenon, <2>1, <2>2
  <1>8. ASSUME NEW n \in DOMAIN settled'
        PROVE  status'[settled'[n].group] # "pending"
    <2>1. Outcome(g, action) # "pending" /\ status'[g] = Outcome(g, action)
      BY <1>1 DEF Outcome
    <2>2. settled'[n].group = g \/ (n \in DOMAIN settled /\ settled'[n] = settled[n])
      <3>1. \A k \in 1..N : k = N \/ k \in 1..(N - 1)
        BY Zenon, <1>4, LastOrBefore
      <3> QED
        BY Zenon, <1>4, <1>5, <3>1
    <2>3. \A h \in Groups \ {g} : status'[h] = status[h]
      BY Zenon, <1>1
    <2>4. n \in DOMAIN settled => settled[n].group \in Groups
      BY Zenon, <1>1, SettledAreGroups
    <2> QED
      BY Zenon, <2>1, <2>2, <2>3, <2>4 DEF GroupInv
  <1> QED
    BY Zenon, <1>3, <1>4, <1>6, <1>7, <1>8 DEF GroupInv, GroupsSettleOnce

(* Whatever execute_with_rollback runs, nested or again, and whoever settles *)
(* a TransactionGroup, its first outcome stands and is logged at most once.  *)
THEOREM FirstOutcomeStands == Spec => []GroupsSettleOnce
  <1>1. Init => GroupInv
    BY SMTT(40) DEF Init, GroupInv, GroupsSettleOnce
  <1>2. GroupInv /\ [Next]_vars => GroupInv'
    <2> SUFFICES ASSUME GroupInv, [Next]_vars PROVE GroupInv'
      OBVIOUS
    <2>1. CASE UNCHANGED transactions
      BY <2>1 DEF GroupInv, GroupsSettleOnce, transactions
    <2>2. ASSUME NEW g \in Groups, execute_with_rollback(g)
          PROVE  GroupInv'
      BY <2>2 DEF execute_with_rollback, GroupInv, GroupsSettleOnce
    <2>3. CASE execute_ok \/ execute_err
      <3>1. open # <<>> /\ open \in Seq(Groups)
        BY Zenon, <2>3 DEF execute_ok, execute_err, GroupInv
      <3> DEFINE g == open[Len(open)]
      <3>2. g \in Groups /\ SubSeq(open, 1, Len(open) - 1) \in Seq(Groups)
        BY SMTT(40), <3>1
      <3>3. PICK action \in {"committed", "rolled_back"} :
               /\ status' = [status EXCEPT ![g] = Outcome(g, action)]
               /\ \E event \in Events(g, action) :
                     settled' = Append(settled, [group |-> g, action |-> action, event |-> event])
               /\ open' = SubSeq(open, 1, Len(open) - 1)
        BY Zenon, <2>3 DEF execute_ok, execute_err, EndGroup, Settle, commit, rollback,
                           audit_category, Outcome, Events
      <3> HIDE DEF g
      <3> QED
        BY Zenon, <3>2, <3>3, SettlingOnceMore
    <2>4. ASSUME NEW g \in Groups, commit_directly(g) \/ rollback_directly(g)
          PROVE  GroupInv'
      <3>1. PICK action \in {"committed", "rolled_back"} :
               /\ status' = [status EXCEPT ![g] = Outcome(g, action)]
               /\ \E event \in Events(g, action) :
                     settled' = Append(settled, [group |-> g, action |-> action, event |-> event])
               /\ open' = open
        BY Zenon, <2>4 DEF commit_directly, rollback_directly, Settle, commit, rollback,
                           Outcome, Events
      <3>2. open' \in Seq(Groups)
        BY Zenon, <3>1 DEF GroupInv
      <3> QED
        BY Zenon, <3>1, <3>2, SettlingOnceMore
    <2> QED
      BY Zenon, <2>1, <2>2, <2>3, <2>4
         DEF Next, vars, transactions, call_capability, call_capability_returns,
             dispatch_host_call, dispatch_host_call_write, dispatch_host_call_returns,
             dispatch_host_call_write_returns, Calls, Returns, preflight,
             validate_and_instantiate, preflight_failed, invoke, invoke_returns, revoke, Tick
  <1>3. GroupInv => GroupsSettleOnce
    BY Zenon DEF GroupInv
  <1> QED
    BY <1>1, <1>2, <1>3, PTL DEF Spec
=============================================================================
