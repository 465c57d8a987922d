--------------------------- MODULE MCRuntimeHost ---------------------------
(* Small instances of the runtime host.                                      *)
EXTENDS RuntimeHost

CONSTANT i1

Limits(n, rates) ==
    [max_capability_calls |-> n, rate_limits |-> rates, payload_size_limit |-> TRUE,
     concurrency_limit |-> 1, recursion_stack_limit |-> None, require_handler_binding |-> FALSE]

Rate(cap, n) == [capability |-> cap, max |-> n]

Profile(name, granted, limits) ==
    [name |-> name, grants |-> {"m"} \X granted, max_capability_calls |-> limits.max_capability_calls,
     rate_limits |-> limits.rate_limits, payload_size_limit |-> limits.payload_size_limit,
     concurrency_limit |-> limits.concurrency_limit,
     recursion_stack_limit |-> limits.recursion_stack_limit,
     require_handler_binding |-> limits.require_handler_binding]

(* dev counts calls and grants a capability that has no handler; prod limits *)
(* their rate, twice on the same scope, and insists on handlers.             *)
Dev  == Profile("dev", {"db", "log", "pay"}, Limits(2, {}))
Prod == Profile("prod", {"db", "log"},
                [Limits(None, {Rate(None, 2), Rate("db", 1), Rate("db", 3)})
                   EXCEPT !.require_handler_binding = TRUE])
Shut == Profile("shut", {"db", "pay"},
                [Limits(None, {Rate(None, 2)}) EXCEPT !.concurrency_limit = None,
                                                      !.recursion_stack_limit = 0,
                                                      !.require_handler_binding = TRUE])

AllProfiles == {Dev, Prod, Shut}
CallsOfEach == [c \in Callers |-> IF c = Host THEN 1 ELSE 5]
MixedOfEach == [c \in Callers |-> IF c = Host THEN 1 ELSE 0]
SomeGrants == {<<"m", "db", "dev">>}
OneManifest == {[module |-> "m", requires |-> {"db"}]}
=============================================================================
