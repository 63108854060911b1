---------------------------- MODULE ContainerInit ----------------------------
(***************************************************************************)
(* The child side of a start, of a build step (child_main) and of an exec  *)
(* session (start_exec's second child): a straight line of system calls    *)
(* between the clone and the execve.  Every step may fail, and what a step *)
(* may do depends on what earlier ones have given away: the order is the   *)
(* algorithm.                                                              *)
(*                                                                         *)
(* The kernel's part, capabilities above all, is modelled as the code uses *)
(* it: dropping from the bounding set takes SETPCAP, changing ids takes    *)
(* SETGID and SETUID, leaving root clears the effective set, and a program *)
(* executed by root gets the bounding set.                                 *)
(***************************************************************************)
EXTENDS Naturals, Sequences

CONSTANTS
    AllCaps, DefaultCaps,    \* every capability, and the default set
    Drops, Adds              \* the CapDrop and CapAdd lists tried

ASSUME InitAssumption ==
    /\ {"SETPCAP", "SETUID", "SETGID", "SYS_RESOURCE"} \subseteq AllCaps
    /\ DefaultCaps \subseteq AllCaps
    /\ Drops \cup Adds \subseteq SUBSET (AllCaps \cup {"ALL"})

(* User: none given, a number, a name of the container's passwd file, or   *)
(* one that resolves to nothing.                                           *)
Users == {"unset", "number", "name", "unknown"}

VARIABLES
    ask,    \* what the container's record asks for
    step,   \* position in Order
    init    \* the process being set up

initVars == <<ask, step, init>>

(* child_main()                                                            *)
InitOrder == <<"ready", "private", "mounts", "maskBefore", "pivot", "detach", "maskAfter", "seal",
               "tmpfs", "limits", "resolve", "confine", "switch", "restore", "nnp", "filter",
               "enter", "execute">>

(* the second child of start_exec()                                        *)
ExecOrder == <<"join", "chroot", "limits", "confine", "switch", "restore", "nnp", "filter",
               "enter", "execute">>

Order == IF ask.kind = "init" THEN InitOrder ELSE ExecOrder
At(s) == init.state = "setup" /\ Order[step] = s
Go(p) == init' = p /\ step' = step + 1 /\ UNCHANGED ask
Failed == init' = [init EXCEPT !.state = "failed"] /\ UNCHANGED <<ask, step>>

(* compute_keep(): drop from the default set, then add.                    *)
Keep ==
    LET left == IF "ALL" \in ask.drop THEN {} ELSE DefaultCaps \ ask.drop IN
    IF "ALL" \in ask.add THEN AllCaps ELSE left \cup ask.add

InitInit ==
    /\ ask \in [kind : {"init", "exec"}, privileged : BOOLEAN, drop : Drops, add : Adds,
                user : Users, readonly : BOOLEAN, seccomp : BOOLEAN, noNewPrivs : BOOLEAN]
    /\ step = 1
    /\ init = [state |-> "setup", root |-> "host", masked |-> {}, sealed |-> FALSE,
               tmpfs |-> "none", bound |-> AllCaps, perm |-> AllCaps, eff |-> AllCaps,
               uid |-> "root", target |-> "root", nnp |-> FALSE, filter |-> FALSE]

(* The parent's go-ahead; anything else than 'g' ends the child.           *)
AwaitReady ==
    /\ At("ready")
    /\ Go(init) \/ Failed

(* A private mount tree; /etc files, /dev, /proc, /sys and the cgroup tree *)
(* mounted below the container's root.                                     *)
MountTree ==
    /\ At("private") \/ At("mounts")
    /\ Go(init) \/ Failed

MaskPaths ==
    /\ At("maskBefore") \/ At("maskAfter")
    /\ Go([init EXCEPT !.masked = @ \cup {Order[step]}]) \/ Failed

(* pivot_root() puts the host's tree below the new root ...                *)
PivotRoot ==
    /\ At("pivot")
    /\ Go([init EXCEPT !.root = "both"]) \/ Failed

(* ... until it is detached; when that fails, so does the start.           *)
DetachOldRoot ==
    /\ At("detach")
    /\ Go([init EXCEPT !.root = "container"]) \/ Failed

(* The recursive read-only remount covers whatever is mounted by then.     *)
SealRoot ==
    /\ At("seal")
    /\ \/ Go([init EXCEPT !.sealed = ask.readonly,
                          !.tmpfs = IF ask.readonly /\ @ = "writable" THEN "sealed" ELSE @])
       \/ ask.readonly /\ Failed

MountTmpfs ==
    /\ At("tmpfs")
    /\ Go([init EXCEPT !.tmpfs = "writable"]) \/ Failed

(* exec: the namespaces of the container, its masked mounts with them; the *)
(* root through a descriptor taken before the fork.                        *)
JoinNamespaces ==
    /\ At("join")
    /\ Go([init EXCEPT !.masked = {"maskBefore", "maskAfter"}]) \/ Failed

EnterRoot ==
    /\ At("chroot")
    /\ Go([init EXCEPT !.root = "container"]) \/ Failed

(* sysctls and rlimits; raising a hard limit takes privilege.              *)
ApplyLimits ==
    /\ At("limits")
    /\ \/ "SYS_RESOURCE" \in init.eff /\ Go(init)
       \/ Failed

(* resolve_user() with the container's passwd and group files.             *)
ResolveUser ==
    /\ At("resolve")
    /\ IF ask.user = "unknown" THEN Failed
       ELSE Go([init EXCEPT !.target = IF ask.user = "unset" THEN "root" ELSE "user"])

(* confine_caps(): the bounding set first, while SETPCAP is still held.    *)
MutConfineCaps ==
    /\ At("confine")
    /\ Go(IF ask.privileged THEN init ELSE [init EXCEPT !.perm = Keep, !.eff = Keep])

ConfineCaps ==
    /\ At("confine")
    /\ \/ ask.privileged /\ Go(init)
       \/ /\ ~ask.privileged /\ "SETPCAP" \in init.eff /\ Keep \subseteq init.perm
          /\ Go([init EXCEPT !.bound = @ \cap Keep, !.perm = Keep, !.eff = Keep])
       \/ ~ask.privileged /\ Failed

(* setgroups(), setresgid(), setresuid(): their results are not looked at. *)
(* exec's parse_user() takes numbers only and otherwise switches nothing.  *)
Switch(p, target) ==
    IF {"SETUID", "SETGID"} \subseteq p.eff
    THEN [p EXCEPT !.uid = target, !.eff = IF target = "root" THEN @ ELSE {}]
    ELSE p

SwitchUser ==
    /\ At("switch")
    /\ Go(IF ask.kind = "init" THEN Switch(init, init.target)
          ELSE IF ask.user = "number" THEN Switch(init, "user")
          ELSE init)

RestoreEffective ==
    /\ At("restore")
    /\ LET restores == ~ask.privileged /\ (ask.kind = "init" \/ ask.user = "number") IN
       \/ ~restores /\ Go(init)
       \/ restores /\ Keep \subseteq init.perm /\ Go([init EXCEPT !.eff = Keep])
       \/ restores /\ Failed

(* NO_NEW_PRIVS as asked, and always before a filter; an exec of a         *)
(* container that is not privileged always sets it.                        *)
Filtered == ask.seccomp /\ ~ask.privileged

NoNewPrivs ==
    /\ At("nnp")
    /\ \/ Go([init EXCEPT !.nnp = IF ask.kind = "init" THEN ask.noNewPrivs \/ Filtered
                                  ELSE ~ask.privileged])
       \/ ask.kind = "exec" /\ ~ask.privileged /\ Failed

InstallFilter ==
    /\ At("filter")
    /\ Go([init EXCEPT !.filter = Filtered]) \/ (Filtered /\ Failed)

(* The working directory, which exec replaces by / when it is missing.     *)
EnterWorkdir ==
    /\ At("enter")
    /\ Go(init) \/ (ask.kind = "init" /\ Failed)

(* execve(), after the byte that tells the parent.                         *)
Execute ==
    /\ At("execute")
    /\ \/ /\ init' = [init EXCEPT !.state = "running",
                                  !.perm = IF init.uid = "root" THEN init.bound ELSE {},
                                  !.eff = IF init.uid = "root" THEN init.bound ELSE {}]
          /\ UNCHANGED <<ask, step>>
       \/ Failed

InitNext ==
    \/ AwaitReady \/ MountTree \/ MaskPaths \/ PivotRoot \/ DetachOldRoot \/ SealRoot
    \/ MountTmpfs \/ JoinNamespaces \/ EnterRoot \/ ApplyLimits \/ ResolveUser \/ ConfineCaps
    \/ SwitchUser \/ RestoreEffective \/ NoNewPrivs \/ InstallFilter \/ EnterWorkdir \/ Execute

InitSpec == InitInit /\ [][InitNext]_initVars

-----------------------------------------------------------------------------

Executed == init.state = "running"

(* The effective set never exceeds the permitted one, nor that one the     *)
(* bounding set once the process has been confined.                        *)
InitTypeOK ==
    /\ init.state \in {"setup", "running", "failed"} /\ step \in 1..Len(Order)
    /\ init.eff \subseteq init.perm
    /\ init.bound # AllCaps => init.perm \subseteq init.bound

(* "if it cannot be detached the container would see host mounts, so fail  *)
(* closed": what runs sees its own tree, masked, and has no capability     *)
(* that its record does not grant, whichever step failed on the way.       *)
ConfinedWhenRunning ==
    Executed =>
        /\ init.root = "container" /\ init.masked = {"maskBefore", "maskAfter"}
        /\ ~ask.privileged => init.eff \cup init.bound \subseteq Keep

(* A container that is not privileged and not unconfined runs filtered,    *)
(* its exec sessions too, and neither can gain privileges by an execve.    *)
FilteredWhenRunning ==
    Executed /\ Filtered => init.filter /\ init.nnp

(* "an explicit User that resolves to nobody must never silently run as    *)
(* root": the user asked for is the user that runs, provided the ids can   *)
(* still be changed with the capabilities kept, and, in an exec session,   *)
(* that the user is given as a number.                                     *)
UserHonoured ==
    Executed /\ {"SETUID", "SETGID"} \subseteq Keep =>
        /\ ask.kind = "init" => init.uid = (IF ask.user = "unset" THEN "root" ELSE "user")
        /\ ask.kind = "exec" /\ ask.user = "number" => init.uid = "user"

(* "the documented contract that tmpfs stays writable under --read-only".  *)
TmpfsStaysWritable ==
    Executed /\ ask.kind = "init" => init.tmpfs = "writable" /\ init.sealed = ask.readonly

(* When the program is executed it is confined, filtered, of the asked     *)
(* user and on the asked mounts, whichever of the set-up's system calls    *)
(* failed on the way (child_main, the exec child).                         *)
RunsAsAsked ==
    /\ InitTypeOK
    /\ ConfinedWhenRunning
    /\ FilteredWhenRunning
    /\ UserHonoured
    /\ TmpfsStaysWritable
====
