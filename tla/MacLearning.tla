----------------------------- MODULE MacLearning -----------------------------
(***************************************************************************)
(* What the learning switch of case 05 promises, without its digests,      *)
(* queues, writes and retries.  A source address may be pointed at a port  *)
(* it has been seen on; its notifications may be suppressed only once it   *)
(* is forwarded; and once the controller has bound it to a port, that port *)
(* is final (05_l2_learning_switch/README.md: "the same MAC uses the port  *)
(* first learned").                                                        *)
(***************************************************************************)
EXTENDS Naturals

CONSTANTS
    Macs,           \* source addresses that can appear in frames
    UnicastMacs,    \* those that are non-zero unicast addresses
    SwitchPorts,    \* ports a frame can enter by
    N               \* the controller's -ports flag: host ports are 1..N

NoPort == 0

VARIABLES
    seen,           \* pairs <<mac, port>> of frames received by the switch
    forwarding,     \* mac -> the port frames for it are sent to, or NoPort
    suppressed,     \* macs whose frames raise no more notifications
    bound           \* mac -> the port the controller holds it bound to

absVars == <<seen, forwarding, suppressed, bound>>

AbsInit ==
    /\ seen = {}
    /\ forwarding = [m \in Macs |-> NoPort]
    /\ suppressed = {}
    /\ bound = [m \in Macs |-> NoPort]

\* A frame with source m enters through port p.
See(m, p) ==
    /\ seen' = seen \cup {<<m, p>>}
    /\ UNCHANGED <<forwarding, suppressed, bound>>

\* Frames for m go to a port m was seen on; never once m is bound.
Point(m, p) ==
    /\ <<m, p>> \in seen
    /\ m \in UnicastMacs /\ p \in 1..N
    /\ bound[m] = NoPort
    /\ forwarding' = [forwarding EXCEPT ![m] = p]
    /\ UNCHANGED <<seen, suppressed, bound>>

\* Notifications for m stop; only for an address that is forwarded.
Suppress(m) ==
    /\ forwarding[m] # NoPort
    /\ suppressed' = suppressed \cup {m}
    /\ UNCHANGED <<seen, forwarding, bound>>

\* Notifications for m stop and m is bound to where its frames go, for good.
Bind(m) ==
    /\ forwarding[m] # NoPort
    /\ bound[m] = NoPort
    /\ suppressed' = suppressed \cup {m}
    /\ bound' = [bound EXCEPT ![m] = forwarding[m]]
    /\ UNCHANGED <<seen, forwarding>>

AbsNext ==
    \E m \in Macs :
        \/ \E p \in SwitchPorts : See(m, p) \/ Point(m, p)
        \/ Suppress(m)
        \/ Bind(m)

AbsSpec == AbsInit /\ [][AbsNext]_absVars
==============================================================================
