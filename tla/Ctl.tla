-------------------------------- MODULE Ctl ---------------------------------
(***************************************************************************)
(* The command-line tool of src/ctl: each invocation runs one command and  *)
(* answers with its exit status.  Loading and unloading the kernel module  *)
(* go through KernelModule::Load and Unload (src/kernel/kernel-module.cpp) *)
(* to insmod and rmmod; every other command has an empty handler.  Any     *)
(* number of invocations may run at the same time, on the one module of    *)
(* KernelModule, which they share with the processes that use its device.  *)
(***************************************************************************)
EXTENDS Integers, FiniteSets

CONSTANTS
    Ctls,       \* the invocations of ctl
    Users, Capacity, Messages, MaxLoads \* see KernelModule

ASSUME CtlAssumption ==
    /\ IsFiniteSet(Ctls)
    /\ Capacity \in Nat \ {0} /\ Messages \in Nat \ {0} /\ MaxLoads \in Nat

VARIABLES
    module, pc, loads, region, cdev, buffer, allocated, writeIdx, count, slots, idx, sent,
    file, map, orphaning, \* see KernelModule
    step,     \* step[c]: "start", "visit", "insmod", "rmmod", "returned" or "exited"
    cmd,      \* cmd[c]: the command of c
    ret,      \* ret[c]: 0 or 1 once insmod or rmmod has succeeded or failed for c, else -1
    status    \* status[c]: the exit status of c once it has exited, else -1

KM == INSTANCE KernelModule

system == <<module, pc, loads, region, cdev, buffer, allocated, writeIdx, count, slots, idx,
            sent, file, map, orphaning>>
vars == <<system, step, cmd, ret, status>>

\* "other" stands for the commands with an empty handler (those on eBPF, on
\* filters and on prometheus, and the status commands) and for the help.
Command == {"load", "unload", "other"}

Init ==
    /\ KM!Init
    /\ step = [c \in Ctls |-> "start"]
    /\ cmd = [c \in Ctls |-> "other"]
    /\ ret = [c \in Ctls |-> -1]
    /\ status = [c \in Ctls |-> -1]

Exit(c, s) ==
    /\ step' = [step EXCEPT ![c] = "exited"]
    /\ status' = [status EXCEPT ![c] = s]

\* parse_args and initialize_cmd.
Parse(c) ==
    /\ step[c] = "start"
    /\ \/ /\ \E k \in Command : cmd' = [cmd EXCEPT ![c] = k]
          /\ step' = [step EXCEPT ![c] = "visit"] /\ UNCHANGED status
       \/ Exit(c, 1) /\ UNCHANGED cmd
    /\ UNCHANGED <<system, ret>>

\* The empty handlers, and the help.
Empty(c) ==
    /\ step[c] = "visit" /\ cmd[c] \notin {"load", "unload"}
    /\ Exit(c, 0)
    /\ UNCHANGED <<system, cmd, ret>>

\* insmod or rmmod has ended, and left r for std::system to return.
Ended(c, r) ==
    /\ step' = [step EXCEPT ![c] = "returned"]
    /\ ret' = [ret EXCEPT ![c] = r]

\* KernelModule::Load: system("insmod ...") has the kernel run init.
Load(c) ==
    /\ step[c] = "visit" /\ cmd[c] = "load"
    /\ KM!Insmod
    /\ step' = [step EXCEPT ![c] = "insmod"]
    /\ UNCHANGED <<cmd, ret, status>>

\* Mutant: the command is "rmmod -f".
UnloadForced(c) ==
    /\ step[c] = "visit" /\ cmd[c] = "unload"
    /\ KM!RmmodForced
    /\ step' = [step EXCEPT ![c] = "rmmod"]
    /\ UNCHANGED <<cmd, ret, status>>

\* KernelModule::Unload: system("rmmod ...") has the kernel run exit.
Unload(c) ==
    /\ step[c] = "visit" /\ cmd[c] = "unload"
    /\ KM!Rmmod
    /\ step' = [step EXCEPT ![c] = "rmmod"]
    /\ UNCHANGED <<cmd, ret, status>>

\* Mutant: rmmod waits until the module is not in use.
RefusedWaiting(c) ==
    /\ step[c] = "visit" /\ cmd[c] \in {"load", "unload"}
    /\ cmd[c] = "unload" => module # "live"
    /\ Ended(c, 1)
    /\ UNCHANGED <<system, cmd, status>>

\* insmod and rmmod may fail without running any of the module's code: there is
\* no such file, no permission, the module is loaded already, not loaded, or in
\* use.
Refused(c) ==
    /\ step[c] = "visit" /\ cmd[c] \in {"load", "unload"}
    /\ Ended(c, 1)
    /\ UNCHANGED <<system, cmd, status>>

\* Mutant: what std::system returns is not looked at.
ReturnIgnoring(c) ==
    /\ step[c] = "returned"
    /\ Exit(c, 0)
    /\ UNCHANGED <<system, cmd, ret>>

\* std::system returns, and the handler; main answers 1 for an error.  By then
\* other invocations may have loaded or unloaded the module, and answered.
Return(c) ==
    /\ step[c] = "returned"
    /\ Exit(c, ret[c])
    /\ UNCHANGED <<system, cmd, ret>>

\* Mutant: nobody waits for the child.
ModuleStepAlone ==
    /\ KM!InitSteps \/ KM!ExitSteps
    /\ UNCHANGED <<step, cmd, ret, status>>

\* The module's own steps.  The one that ends init or exit ends the insmod or
\* rmmod that waits for it.
ModuleStep ==
    /\ KM!InitSteps \/ KM!ExitSteps
    /\ IF pc' = "none"
       THEN \E c \in Ctls :
               /\ step[c] \in {"insmod", "rmmod"}
               /\ Ended(c, IF step[c] = "insmod" /\ module' # "live" THEN 1 ELSE 0)
       ELSE UNCHANGED <<step, ret>>
    /\ UNCHANGED <<cmd, status>>

UserStep == KM!UserSteps /\ UNCHANGED <<step, cmd, ret, status>>

Invocation(c) == Parse(c) \/ Empty(c) \/ Load(c) \/ Unload(c) \/ Refused(c) \/ Return(c)

Next == ModuleStep \/ UserStep \/ \E c \in Ctls : Invocation(c)

Spec == Init /\ [][Next]_vars

\* Every process that can run does, insmod and rmmod included; processes need
\* not use the device.
FairSpec == Spec /\ WF_vars(ModuleStep) /\ \A c \in Ctls : WF_vars(Invocation(c))

-----------------------------------------------------------------------------
(***************************************************************************)
(* Properties.                                                             *)
(***************************************************************************)
\* Types; and at most one insmod or rmmod runs the module's init or exit.
TypeOK ==
    /\ KM!TypeOK
    /\ step \in [Ctls -> {"start", "visit", "insmod", "rmmod", "returned", "exited"}]
    /\ cmd \in [Ctls -> Command]
    /\ ret \in [Ctls -> {-1, 0, 1}] /\ status \in [Ctls -> {-1, 0, 1}]
    /\ \A c, d \in Ctls : {step[c], step[d]} \subseteq {"insmod", "rmmod"} => c = d

Answered(k) == {c \in Ctls : cmd[c] = k /\ status[c] = 0}

\* The invocations that run insmod or rmmod, or have yet to answer what it returned.
Pending == {c \in Ctls : step[c] \in {"insmod", "rmmod", "returned"}}

\* Whenever no answer is outstanding, the answers of all invocations add up,
\* however they raced: the loads that were answered with success are one more
\* than the unloads if the module is in the kernel, and as many if it is not
\* (src/ctl/main.cpp:164-181, src/kernel/kernel-module.cpp:125, 140).
AnswersAddUp ==
    Pending = {} =>
        Cardinality(Answered("load")) - Cardinality(Answered("unload"))
            = (IF module = "live" THEN 1 ELSE 0)

\* ctl always exits: no command waits for another, nor for the users of the
\* device.
AllExit == \A c \in Ctls : <>(step[c] = "exited")

\* The module is managed as KernelModule says, whatever the invocations do.
UsesKernelModule == KM!Spec
=============================================================================
