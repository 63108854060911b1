----------------------------- MODULE MCHostParts -----------------------------
(***************************************************************************)
(* The parts that work on the host's resources and share no state with one *)
(* another, side by side: a behaviour picks a part and follows it, the     *)
(* others stay where they began.                                           *)
(***************************************************************************)
EXTENDS ContainerVolumes, ContainerOutput, ExecSessions, HealthProbe, ContainerInit, DnsServer,
        RootfsAccess, EventStream, TLC

CONSTANTS c1, c2, a1, a2

(* ContainerVolumes: the anonymous volume of each container.               *)
AnonVolumes == (c1 :> a1) @@ (c2 :> a2)

(* ExecSessions: one data root for two daemons, one run root for two.      *)
DataRoots == [e1 |-> "x1", e2 |-> "x1", e3 |-> "x2"]
RunRoots == [e1 |-> "y1", e2 |-> "y2", e3 |-> "y1"]

(* ContainerOutput.                                                        *)
Policies == {[size |-> 2, files |-> 2], [size |-> 1, files |-> 3], [size |-> 2, files |-> 1]}

(* ContainerInit.                                                          *)
KnownCaps == {"SETPCAP", "SETUID", "SETGID", "SYS_RESOURCE", "KILL"}
UsualCaps == KnownCaps \ {"SYS_RESOURCE"}
DropLists == {{}, {"ALL"}, {"SETPCAP"}, {"SETUID"}}
AddLists == {{}, {"ALL"}, {"SYS_RESOURCE"}, {"SETUID", "SETGID"}}

(* DnsServer: both endpoints have one name; one of them another, which the *)
(* other reaches through its search domain.                                *)
DnsKeys == [d1 |-> {<<"web">>}, d2 |-> {<<"web">>, <<"db", "corp">>}]
DnsSearches == [d1 |-> << <<"corp">> >>, d2 |-> <<>>]
DnsAsked == {<<"web">>, <<"db">>}

(* EventStream: one type until a time, everything since a time, everything. *)
EventFilters ==
    {[since |-> 0, until |-> 1, kinds |-> {"die"}], [since |-> 2, until |-> 0, kinds |-> {}],
     [since |-> 0, until |-> 0, kinds |-> {}]}

VARIABLE part

(* The parts whose initial state is a choice rest at one of the choices.   *)
HostInit ==
    /\ part \in {"volumes", "output", "exec", "health", "init", "dns", "rootfs", "events"}
    /\ VolInit /\ ExecInit /\ HealthInit /\ EventInit
    /\ OutInit
    /\ part # "output" => rotation = CHOOSE r \in Rotations : TRUE
    /\ DnsInit
    /\ part # "dns" => ~dual
    /\ RootInit
    /\ part # "rootfs" => ~autoRemove
    /\ InitInit
    /\ part # "init" => ask = [kind |-> "init", privileged |-> FALSE, drop |-> {}, add |-> {},
                               user |-> "unset", readonly |-> FALSE, seccomp |-> TRUE,
                               noNewPrivs |-> FALSE]

HostNext ==
    \/ /\ part = "volumes" /\ VolNext
       /\ UNCHANGED <<part, outVars, execVars, healthVars, initVars, dnsVars, rootVars, eventVars>>
    \/ /\ part = "output" /\ OutNext
       /\ UNCHANGED <<part, volVars, execVars, healthVars, initVars, dnsVars, rootVars, eventVars>>
    \/ /\ part = "exec" /\ ExecNext
       /\ UNCHANGED <<part, volVars, outVars, healthVars, initVars, dnsVars, rootVars, eventVars>>
    \/ /\ part = "health" /\ HealthNext
       /\ UNCHANGED <<part, volVars, outVars, execVars, initVars, dnsVars, rootVars, eventVars>>
    \/ /\ part = "init" /\ InitNext
       /\ UNCHANGED <<part, volVars, outVars, execVars, healthVars, dnsVars, rootVars, eventVars>>
    \/ /\ part = "dns" /\ DnsNext
       /\ UNCHANGED <<part, volVars, outVars, execVars, healthVars, initVars, rootVars, eventVars>>
    \/ /\ part = "rootfs" /\ RootNext
       /\ UNCHANGED <<part, volVars, outVars, execVars, healthVars, initVars, dnsVars, eventVars>>
    \/ /\ part = "events" /\ EventNext
       /\ UNCHANGED <<part, volVars, outVars, execVars, healthVars, initVars, dnsVars, rootVars>>

HostSpec == HostInit /\ [][HostNext]_<<part, volVars, outVars, execVars, healthVars, initVars, dnsVars,
                                       rootVars, eventVars>>

=============================================================================
