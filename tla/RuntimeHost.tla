---------------------------- MODULE RuntimeHost ----------------------------
(* The runtime host of ail-runtime: a RuntimeHost, the RuntimeInstances it   *)
(* made, and the capability calls of both.                                   *)
(*                                                                           *)
(* The host and every instance are callers: each has its own profile,        *)
(* counters and rate windows (RuntimeHost, HostState), so they run side by   *)
(* side on threads of their own.  They share the registry of revocations,    *)
(* the clock and the audit log.  A caller makes one call at a time.  The     *)
(* checks of a call are one step, the one in which it reads the registry:    *)
(* all the rest is the caller's own.  A call that passes them is in flight   *)
(* until its handler returns, while the others go on.                        *)
EXTENDS Integers, Sequences, FiniteSets

CONSTANTS
    None,           \* Rust's Option::None
    Host,           \* the RuntimeHost
    Instances,      \* the RuntimeInstances it may make
    Capabilities,   \* CapabilityId
    LogWrite,       \* log.write with its operation write, whose text is limited when decoded
    Packed,         \* the capabilities whose argument is a packed text
    Schemas,        \* the capabilities with a registered definition
    Bound,          \* the capabilities some registered handler serves
    Profiles,       \* RuntimeProfile
    Manifests,      \* CapabilityManifest: a module and what it requires
    Revocable,      \* the grants that may be revoked: module, capability, profile name
    Groups,         \* TransactionGroup
    WINDOW,         \* the length of a rate window: one second
    MaxClock,       \* bound on the clock
    MaxCalls,       \* bound on the calls of each caller
    MaxMixed,       \* bound on the calls of each caller when groups are used too
    MaxUses         \* bound on the uses of groups

Callers == {Host} \cup Instances

Limit == Nat \cup {None}

(* A rate limit is global or on one capability.                              *)
Scopes == Capabilities \cup {None}

(* The three ways to call a capability, and a call whose handler is running. *)
Paths == {"call_capability", "host_call", "host_call_write"}
InFlight == [cap : Capabilities, path : Paths]

ASSUME CallersDiffer == Host \notin Instances
ASSUME NoneIsNothing ==
    None \notin Capabilities \cup Nat /\ None \notin Profiles /\ None \notin InFlight
ASSUME BoundsAreNumbers ==
    /\ WINDOW \in Nat \ {0} /\ MaxClock \in Nat /\ MaxUses \in Nat
    /\ MaxCalls \in [Callers -> Nat] /\ MaxMixed \in [Callers -> Nat]
ASSUME LimitsAreLimits == \A p \in Profiles : p.max_capability_calls \in Limit
ASSUME RatesAreRates ==
    \A p \in Profiles : p.rate_limits \subseteq [capability : Scopes, max : Nat]

VARIABLES
    revocations,    \* CapabilityRevocationRegistry, shared by all callers
    clock,          \* what clock_fn returns
    phase,          \* of each instance: "none", "starting", "ready" or "running"
    store,          \* of each caller: profile, module and counters
    call,           \* of each caller: the call whose handler is running, or None
    audited,        \* of each caller: CapabilityCallExecuted events in the audit log
    status,         \* of each group: TransactionStatus
    settled,        \* history: what was asked of the groups, with its event in the audit log
    open,           \* the groups execute_with_rollback is running a closure for
    issued,         \* history: calls each caller made
    ran,            \* history: handlers run since capability_calls_used was reset
    passed          \* history: what passed a rate limit, and when

shared == <<revocations, clock>>
transactions == <<status, settled, open>>
vars == <<revocations, clock, phase, store, call, audited, status, settled, open,
          issued, ran, passed>>

-----------------------------------------------------------------------------
(* Profiles, grants and limits                                               *)

NoWindows == [k \in Scopes |-> None]

HostState(p, m, used, concurrent, depth, windows) ==
    [profile |-> p, module |-> m, used |-> used, concurrent |-> concurrent, depth |-> depth,
     windows |-> windows]

NewStore(p, m) == HostState(p, m, 0, 0, 0, NoWindows)

(* A budget of calls starts again; what is in flight and the rate windows    *)
(* stay.                                                                     *)
Renewed(s, p, m) == HostState(p, m, 0, s.concurrent, s.depth, s.windows)

Init ==
    /\ revocations = {}
    /\ clock = 0
    /\ phase = [i \in Instances |-> "none"]
    /\ store = [c \in Callers |-> NewStore(None, None)]
    /\ call = [c \in Callers |-> None]
    /\ audited = [c \in Callers |-> 0]
    /\ status = [g \in Groups |-> "pending"]
    /\ settled = <<>>
    /\ open = <<>>
    /\ issued = [c \in Callers |-> 0]
    /\ ran = [c \in Callers |-> 0]
    /\ passed = [c \in Callers |-> <<>>]

grants_capability(p, module, cap) == p # None /\ <<module, cap>> \in p.grants

(* Mutant: the registry is asked once per invocation.                        *)
RevokedAtFirstCall(s, cap) == s.used = 0 /\ <<s.module, cap, s.profile.name>> \in revocations

is_revoked(s, cap) == <<s.module, cap, s.profile.name>> \in revocations

(* The scopes whose limits apply to cap.                                     *)
applicable_scopes(p, cap) == {l.capability : l \in p.rate_limits} \cap {None, cap}

(* Mutant: the global limit lets one call more into a window.                *)
GlobalLimitLate(p, k, n) ==
    \A l \in p.rate_limits : l.capability = k => IF k = None THEN n <= l.max ELSE n < l.max

(* Of two limits on the same scope the stricter counts: n calls are below it *)
(* when they are below both.                                                 *)
BelowLimits(p, k, n) == \A l \in p.rate_limits : l.capability = k => n < l.max

Expired(w) == clock - w.start >= WINDOW

InWindow(w) == IF w = None \/ Expired(w) THEN 0 ELSE w.count

check_rate_limits(s, cap) ==
    \A k \in applicable_scopes(s.profile, cap) :
        BelowLimits(s.profile, k, InWindow(s.windows[k]))

(* Mutant: the call that opens a window is not counted in it.                *)
CountedFromZero(w) == IF w = None \/ Expired(w) THEN [start |-> clock, count |-> 0]
                                                ELSE [start |-> w.start, count |-> w.count + 1]

Counted(w) == IF w = None \/ Expired(w) THEN [start |-> clock, count |-> 1]
                                        ELSE [start |-> w.start, count |-> w.count + 1]

CountedWindows(s, cap) ==
    [k \in Scopes |-> IF k \in applicable_scopes(s.profile, cap) THEN Counted(s.windows[k])
                                                                 ELSE s.windows[k]]

AtLimit(n, limit) == limit # None /\ n >= limit

(* What is checked before the rate limits.                                   *)
Admits(s, r) ==
    /\ ~(r.path = "host_call_write" /\ r.bad_buffer)
    /\ grants_capability(s.profile, s.module, r.cap)
    /\ ~is_revoked(s, r.cap)
    /\ r.large /\ s.profile.payload_size_limit => r.path # "call_capability" /\ r.cap = LogWrite
    /\ ~AtLimit(s.used, s.profile.max_capability_calls)

(* What is checked after they have been charged.                             *)
HasRoom(s) ==
    /\ ~AtLimit(s.concurrent, s.profile.concurrency_limit)
    /\ ~AtLimit(s.depth, s.profile.recursion_stack_limit)

(* A call enters and leaves a caller's counters.                             *)
Enter(s) ==
    HostState(s.profile, s.module, s.used + 1, s.concurrent + 1, s.depth + 1, s.windows)
Leave(s) ==
    HostState(s.profile, s.module, s.used, s.concurrent - 1, s.depth - 1, s.windows)

Charged(s, cap) ==
    HostState(s.profile, s.module, s.used, s.concurrent, s.depth, CountedWindows(s, cap))

(* A call that never gets to its handler: there is none, or the schema or    *)
(* the decoder refuses the input.  host_call_write looks the handler up      *)
(* before it counts the call, the other two after.                           *)
Bounced(s, r) ==
    IF r.path = "host_call_write" /\ r.cap \notin Bound THEN s ELSE Leave(Enter(s))

CanBounce(s, r) ==
    \/ r.cap \notin Bound
    \/ r.path = "call_capability" /\ r.cap \in Schemas /\ r.bad_input
    \/ /\ r.path # "call_capability" /\ r.cap \in Packed
       /\ r.bad_input \/ (r.cap = LogWrite /\ r.large /\ s.profile.payload_size_limit)

-----------------------------------------------------------------------------
(* Capability calls                                                          *)

(* The calls a module or an embedder may make.  One whose capability,        *)
(* operation or argument words cannot be read from the module's memory       *)
(* returns before anything is recorded and is no request.                    *)
Requests(path) ==
    [cap : Capabilities, path : {path}, large : BOOLEAN, bad_input : BOOLEAN,
     bad_buffer : IF path = "host_call_write" THEN BOOLEAN ELSE {FALSE}]

(* One audit event closes every call.                                        *)
Audit(c) == audited' = [audited EXCEPT ![c] = @ + 1]

CallBound(c) == IF open = <<>> /\ settled = <<>> THEN MaxCalls[c] ELSE MaxMixed[c]

Issue(c) == issued[c] < CallBound(c) /\ issued' = [issued EXCEPT ![c] = @ + 1]

Pass(c, r) ==
    passed' = IF applicable_scopes(store[c].profile, r.cap) = {} THEN passed
              ELSE [passed EXCEPT ![c] =
                      Append(@, [cap |-> r.cap, at |-> clock, profile |-> store[c].profile])]

Allowed(c, r) == Admits(store[c], r) /\ check_rate_limits(store[c], r.cap)

Refuse(c, r) ==
    /\ ~Allowed(c, r)
    /\ Audit(c)
    /\ UNCHANGED <<store, passed, call, ran>>

RefuseCharged(c, r) ==
    /\ Allowed(c, r)
    /\ ~HasRoom(store[c])
    /\ Pass(c, r)
    /\ Audit(c)
    /\ store' = [store EXCEPT ![c] = Charged(@, r.cap)]
    /\ UNCHANGED <<call, ran>>

Bounce(c, r) ==
    /\ Allowed(c, r) /\ HasRoom(store[c])
    /\ CanBounce(store[c], r)
    /\ Pass(c, r)
    /\ Audit(c)
    /\ store' = [store EXCEPT ![c] = Bounced(Charged(@, r.cap), r)]
    /\ UNCHANGED <<call, ran>>

RunHandler(c, r) ==
    /\ Allowed(c, r) /\ HasRoom(store[c])
    /\ ~CanBounce(store[c], r)
    /\ Pass(c, r)
    /\ store' = [store EXCEPT ![c] = Enter(Charged(@, r.cap))]
    /\ call' = [call EXCEPT ![c] = [cap |-> r.cap, path |-> r.path]]
    /\ ran' = [ran EXCEPT ![c] = @ + 1]
    /\ UNCHANGED audited

Calls(c, r) ==
    /\ call[c] = None
    /\ Issue(c)
    /\ Refuse(c, r) \/ RefuseCharged(c, r) \/ Bounce(c, r) \/ RunHandler(c, r)
    /\ UNCHANGED <<shared, transactions, phase>>

(* The host runs one method at a time: it makes no call while it starts an   *)
(* instance.                                                                 *)
HostIsFree == call[Host] = None /\ \A i \in Instances : phase[i] # "starting"

call_capability(r) == HostIsFree /\ Calls(Host, r)

(* A module makes calls from an export that is being invoked, and from its   *)
(* start function while it is instantiated.                                  *)
Executing(i) == phase[i] \in {"starting", "running"}

dispatch_host_call(i, r) == Executing(i) /\ Calls(i, r)

dispatch_host_call_write(i, r) == Executing(i) /\ Calls(i, r)

(* The points at which a call leaves once its handler has run.  Two paths    *)
(* have one for success, handler error and refused output alike;             *)
(* host_call_write has six, and each takes the counters down by itself.      *)
Exits(path) ==
    IF path # "host_call_write" THEN {"result"}
    ELSE {"handler_error", "output_size_limit", "output_buffer_too_small", "memory_missing",
          "memory_write", "result"}

(* Mutant: the exit for a response that does not fit the buffer forgets to.  *)
LeaveUnlessTooSmall(s, exit) == IF exit = "output_buffer_too_small" THEN s ELSE Leave(s)

AtExit(s, exit) == Leave(s)

Returns(c, path) ==
    /\ call[c] # None
    /\ call[c].path = path
    /\ \E exit \in Exits(path) : store' = [store EXCEPT ![c] = AtExit(@, exit)]
    /\ Audit(c)
    /\ call' = [call EXCEPT ![c] = None]
    /\ UNCHANGED <<shared, transactions, phase, issued, ran, passed>>

call_capability_returns == Returns(Host, "call_capability")
dispatch_host_call_returns(i) == Returns(i, "host_call")
dispatch_host_call_write_returns(i) == Returns(i, "host_call_write")

-----------------------------------------------------------------------------
(* The life of an instance                                                   *)

(* validate_and_instantiate up to the start function.  A preflight that      *)
(* fails before it leaves only an audit event.                               *)
preflight(i, p, m) ==
    /\ HostIsFree
    /\ phase[i] = "none"
    /\ \A cap \in m.requires : grants_capability(p, m.module, cap)
    /\ phase' = [phase EXCEPT ![i] = "starting"]
    /\ store' = [store EXCEPT ![i] = NewStore(p, m.module)]
    /\ ran' = [ran EXCEPT ![i] = 0]
    /\ passed' = [passed EXCEPT ![i] = <<>>]
    /\ UNCHANGED <<shared, transactions, call, audited, issued>>

HandlersAreBound(p) ==
    p.require_handler_binding => \A g \in p.grants : g[2] \in Bound

(* The start function has returned and the handler gates hold: the host now  *)
(* calls under the profile and module of the new instance.                   *)
validate_and_instantiate(i) ==
    /\ phase[i] = "starting"
    /\ call[i] = None
    /\ HandlersAreBound(store[i].profile)
    /\ phase' = [phase EXCEPT ![i] = "ready"]
    /\ store' = [store EXCEPT ![Host] = Renewed(@, store[i].profile, store[i].module)]
    /\ ran' = [ran EXCEPT ![Host] = 0]
    /\ UNCHANGED <<shared, transactions, call, audited, issued, passed>>

(* The start function traps, or a handler is missing or not trusted enough.  *)
preflight_failed(i) ==
    /\ phase[i] = "starting"
    /\ call[i] = None
    /\ phase' = [phase EXCEPT ![i] = "none"]
    /\ UNCHANGED <<shared, transactions, store, call, audited, issued, ran, passed>>

invoke(i) ==
    /\ phase[i] = "ready"
    /\ phase' = [phase EXCEPT ![i] = "running"]
    /\ store' = [store EXCEPT ![i] = Renewed(@, @.profile, @.module)]
    /\ ran' = [ran EXCEPT ![i] = 0]
    /\ UNCHANGED <<shared, transactions, call, audited, issued, passed>>

(* The export returns or traps.                                              *)
invoke_returns(i) ==
    /\ phase[i] = "running"
    /\ call[i] = None
    /\ phase' = [phase EXCEPT ![i] = "ready"]
    /\ UNCHANGED <<shared, transactions, store, call, audited, issued, ran, passed>>

-----------------------------------------------------------------------------
(* Revocation, time, transactions                                            *)

(* Any thread that holds a clone of the registry may revoke, at any time.    *)
revoke(grant) ==
    /\ revocations' = revocations \cup {grant}
    /\ UNCHANGED <<clock, phase, store, call, audited, transactions, issued, ran, passed>>

Tick ==
    /\ clock < MaxClock
    /\ clock' = clock + 1
    /\ UNCHANGED <<revocations, phase, store, call, audited, transactions, issued, ran, passed>>

(* A group in use is borrowed by execute_with_rollback: no one else can name *)
(* it.  One that is settled may be used again.                               *)
Borrowed(g) == \E n \in DOMAIN open : open[n] = g

MayUse(g) ==
    /\ ~Borrowed(g)
    /\ Len(open) + Len(settled) < MaxUses
    /\ \A c \in Callers : issued[c] <= MaxMixed[c]

(* execute_with_rollback hands the host to a closure; the closure may make   *)
(* calls, start instances and run further groups.                            *)
execute_with_rollback(g) ==
    /\ HostIsFree
    /\ MayUse(g)
    /\ open' = Append(open, g)
    /\ UNCHANGED <<shared, phase, store, call, audited, status, settled, issued, ran, passed>>

(* Mutant: the last outcome counts.                                          *)
RollbackAnyway(g) == "rolled_back"

(* commit and rollback do nothing to a group that is not pending, and the    *)
(* event says so.                                                            *)
commit(g) == IF status[g] = "pending" THEN "committed" ELSE status[g]
rollback(g) == IF status[g] = "pending" THEN "rolled_back" ELSE status[g]

audit_category(g, action) ==
    IF status[g] = "pending" THEN action ELSE "no_change"

Settle(g, action, after, event) ==
    /\ status' = [status EXCEPT ![g] = after]
    /\ settled' = Append(settled, [group |-> g, action |-> action, event |-> event])
    /\ UNCHANGED <<shared, phase, store, call, audited, issued, ran, passed>>

(* The closure of the innermost group has returned.                          *)
EndGroup(g, action, after) ==
    /\ HostIsFree
    /\ Settle(g, action, after, audit_category(g, action))
    /\ open' = SubSeq(open, 1, Len(open) - 1)

execute_ok ==
    /\ open # <<>>
    /\ LET g == open[Len(open)] IN EndGroup(g, "committed", commit(g))

execute_err ==
    /\ open # <<>>
    /\ LET g == open[Len(open)] IN EndGroup(g, "rolled_back", rollback(g))

(* The owner of a group settles it without the host, which logs nothing;     *)
(* rollback_with_compensation is a rollback with another result.             *)
commit_directly(g) ==
    MayUse(g) /\ Settle(g, "committed", commit(g), "unlogged") /\ UNCHANGED open

rollback_directly(g) ==
    MayUse(g) /\ Settle(g, "rolled_back", rollback(g), "unlogged") /\ UNCHANGED open

-----------------------------------------------------------------------------
Next ==
    \/ \E r \in Requests("call_capability") : call_capability(r)
    \/ call_capability_returns
    \/ \E i \in Instances :
          \/ \E r \in Requests("host_call") : dispatch_host_call(i, r)
          \/ \E r \in Requests("host_call_write") : dispatch_host_call_write(i, r)
          \/ dispatch_host_call_returns(i)
          \/ dispatch_host_call_write_returns(i)
          \/ \E p \in Profiles, m \in Manifests : preflight(i, p, m)
          \/ validate_and_instantiate(i)
          \/ preflight_failed(i)
          \/ invoke(i)
          \/ invoke_returns(i)
    \/ \E grant \in Revocable : revoke(grant)
    \/ Tick
    \/ \E g \in Groups : execute_with_rollback(g) \/ commit_directly(g) \/ rollback_directly(g)
    \/ execute_ok
    \/ execute_err

Spec == Init /\ [][Next]_vars

-----------------------------------------------------------------------------
(* Properties                                                                *)

Modules == {m.module : m \in Manifests}
Windows == [start : Nat, count : Nat \ {0}]

ASSUME NoneIsNoWindow == None \notin Windows

Stores == [profile : Profiles \cup {None}, module : Modules \cup {None}, used : Nat,
           concurrent : Nat, depth : Nat, windows : [Scopes -> Windows \cup {None}]]

(* The variables have their types: the counters of a store are natural       *)
(* numbers (in the code they are u64 and would wrap), and a rate window      *)
(* counts at least the call that opened it.                                  *)
TypeOK ==
    /\ clock \in Nat
    /\ phase \in [Instances -> {"none", "starting", "ready", "running"}]
    /\ store \in [Callers -> Stores]
    /\ call \in [Callers -> InFlight \cup {None}]
    /\ audited \in [Callers -> Nat] /\ issued \in [Callers -> Nat] /\ ran \in [Callers -> Nat]
    /\ status \in [Groups -> {"pending", "committed", "rolled_back"}]
    /\ open \in Seq(Groups)

(* Whichever way a call leaves (denied, no handler, bad input, handler       *)
(* error, output too large, success), concurrent_calls and call_depth go     *)
(* back: they are exactly what is in flight.  A path that forgot to would    *)
(* close the caller for good under a concurrency limit.                      *)
SlotsAreReturned ==
    \A c \in Callers :
        LET inflight == IF call[c] = None THEN 0 ELSE 1
        IN  store[c].concurrent = inflight /\ store[c].depth = inflight

(* Every capability call that could be read from the module's memory leaves  *)
(* exactly one CapabilityCallExecuted event, refused ones included; only     *)
(* what is in flight has none yet.                                           *)
EveryCallIsAudited ==
    \A c \in Callers : issued[c] = audited[c] + (IF call[c] = None THEN 0 ELSE 1)

(* In one invocation (of the host: under one instantiated profile) no more   *)
(* handlers run than max_capability_calls, on whichever of the three paths   *)
(* the calls come.                                                           *)
RunsStayInBudget ==
    \A c \in Callers :
        /\ ran[c] <= store[c].used
        /\ \A p \in Profiles :
              store[c].profile = p /\ p.max_capability_calls # None
                => store[c].used <= p.max_capability_calls

RuntimeInv == SlotsAreReturned /\ EveryCallIsAudited /\ RunsStayInBudget

(* Windows are fixed and open with a call: a burst at the end of one may be  *)
(* followed by a full one, so that within any WINDOW ticks a caller gets at  *)
(* most 2 * max - 1 calls past a limit, and exactly max when max is one.     *)
RateIsBounded ==
    \A c \in Callers, p \in Profiles : \A l \in p.rate_limits : \A t \in 0..clock :
        LET Hits == {n \in DOMAIN passed[c] :
                        /\ passed[c][n].profile = p
                        /\ l.capability \in {None, passed[c][n].cap}
                        /\ passed[c][n].at \in t..(t + WINDOW - 1)}
        IN  Cardinality(Hits) <= IF l.max = 0 THEN 0 ELSE 2 * l.max - 1

(* revoke() is seen by callers that were instantiated long before: no call   *)
(* gets past the checks once its module, capability and profile are revoked. *)
(* One that is past them already goes on.                                    *)
RevocationIsImmediate ==
    [][\A c \in Callers :
          call[c] = None /\ call'[c] # None =>
              <<store[c].module, call'[c].cap, store[c].profile.name>> \notin revocations]_vars

(* A group is settled once: whatever closures are run for it later, however  *)
(* groups are nested, and whether the host or the owner of the group settles *)
(* it, its status is what was asked first, and the audit log never says      *)
(* again that it was committed or rolled back.                               *)
GroupsSettleOnce ==
    /\ \A g \in Groups :
          (\A n \in DOMAIN settled : settled[n].group # g) => status[g] = "pending"
    /\ \A n \in DOMAIN settled :
          IF \E m \in 1..(n - 1) : settled[m].group = settled[n].group
          THEN settled[n].event \in {"no_change", "unlogged"}
          ELSE /\ status[settled[n].group] = settled[n].action
               /\ settled[n].event \in {settled[n].action, "unlogged"}
=============================================================================
