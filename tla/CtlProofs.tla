----------------------------- MODULE CtlProofs ------------------------------
(* Theorems about Ctl, for every number of invocations.                      *)
EXTENDS Ctl, FiniteSetTheorems, TLAPS

KMP == INSTANCE KernelModuleProofs

-----------------------------------------------------------------------------
(* The module below ctl is the one of KernelModule.                          *)
LEMMA StepOfModule == [Next]_vars => [KM!Next]_(KM!modvars)
<1> SUFFICES ASSUME [Next]_vars PROVE [KM!Next]_(KM!modvars)
  OBVIOUS
<1> USE DEF KM!Next, KM!modvars, KM!loader, KM!memory, KM!users, system
<1>1. CASE ModuleStep
  BY <1>1 DEF ModuleStep
<1>2. CASE UserStep
  BY <1>2 DEF UserStep
<1>3. ASSUME NEW c \in Ctls, Invocation(c)
      PROVE  [KM!Next]_(KM!modvars)
  BY <1>3 DEF Invocation, Parse, Empty, Load, Unload, Refused, Return
<1>4. CASE UNCHANGED vars
  BY <1>4 DEF vars
<1> QED
  BY <1>1, <1>2, <1>3, <1>4 DEF Next

\* Whatever the invocations do, the module is managed as KernelModule says: ctl
\* has no step of its own on it (src/kernel/kernel-module.cpp:120-148).
THEOREM UsesModule == Spec => UsesKernelModule
<1>1. Init => KM!Init
  BY DEF Init
<1> QED
  BY <1>1, StepOfModule, PTL DEF Spec, UsesKernelModule, KM!Spec

\* KM and KMP are the same module.
LEMMA ModuleTyped == Spec => []KM!TypeOK
<1>1. KMP!Spec => []KMP!TypeOK
  BY CtlAssumption, KMP!TypeCorrect
<1>2. KM!Init <=> KMP!Init
  BY DEF KM!Init, KMP!Init, KM!Slot, KMP!Slot, KM!Garbage, KMP!Garbage
<1>3. [KM!Next]_(KM!modvars) <=> [KMP!Next]_(KMP!modvars)
  BY DEF
     KM!Next, KMP!Next, KM!InitSteps, KMP!InitSteps, KM!ExitSteps, KMP!ExitSteps,
     KM!UserSteps, KMP!UserSteps, KM!SendMessage, KMP!SendMessage, KM!Insmod, KMP!Insmod,
     KM!Rmmod, KMP!Rmmod, KM!AllocRegion, KMP!AllocRegion, KM!AddCdev, KMP!AddCdev,
     KM!AllocBuffer, KMP!AllocBuffer, KM!Allocate, KMP!Allocate, KM!ZeroCounters,
     KMP!ZeroCounters, KM!Claim, KMP!Claim, KM!Clear, KMP!Clear, KM!Copy, KMP!Copy, KM!Count,
     KMP!Count, KM!Publish, KMP!Publish, KM!Return, KMP!Return, KM!Fail, KMP!Fail,
     KM!FreeBuffer, KMP!FreeBuffer, KM!ForgetBuffer, KMP!ForgetBuffer, KM!Unregister,
     KMP!Unregister, KM!Open, KMP!Open, KM!Mmap, KMP!Mmap, KM!Munmap, KMP!Munmap, KM!Release,
     KMP!Release, KM!Referrers, KMP!Referrers, KM!Slot, KMP!Slot, KM!Garbage, KMP!Garbage,
     KM!modvars, KMP!modvars, KM!loader, KMP!loader, KM!memory, KMP!memory, KM!users,
     KMP!users
<1>4. KM!TypeOK <=> KMP!TypeOK
  BY DEF KM!TypeOK, KMP!TypeOK, KM!Points, KMP!Points, KM!Slot, KMP!Slot, KM!Content, KMP!Content,
     KM!Garbage, KMP!Garbage
<1>5. KM!Spec => KMP!Spec
  BY <1>2, <1>3, PTL DEF KM!Spec, KMP!Spec
<1> QED
  BY <1>1, <1>4, <1>5, UsesModule, PTL DEF UsesKernelModule

-----------------------------------------------------------------------------
(* The inductive invariant: who waits for the module's init or exit.         *)
Running == {c \in Ctls : step[c] \in {"insmod", "rmmod"}}

InitPoints == {"region", "cdev", "alloc", "zero", "claim", "clear", "copy", "count", "publish"}
ExitPoints == {"free", "forget", "unregister"}

Loader ==
    /\ pc = "none" => module \in {"unloaded", "live"}
    /\ pc \in InitPoints => module = "coming"
    /\ pc \in ExitPoints => module = "going"
    /\ module \in {"unloaded", "live", "coming", "going"}
    /\ pc \in {"none"} \cup InitPoints \cup ExitPoints

Waiting ==
    /\ module \in {"unloaded", "live"} => Running = {}
    /\ module = "coming" => \E c \in Ctls : Running = {c} /\ step[c] = "insmod"
    /\ module = "going" => \E c \in Ctls : Running = {c} /\ step[c] = "rmmod"

Types ==
    /\ step \in [Ctls -> {"start", "visit", "insmod", "rmmod", "returned", "exited"}]
    /\ cmd \in [Ctls -> Command]
    /\ ret \in [Ctls -> {-1, 0, 1}] /\ status \in [Ctls -> {-1, 0, 1}]

\* What is answered is what insmod or rmmod returned.
Commanded ==
    \A c \in Ctls :
        /\ step[c] = "start" => cmd[c] = "other"
        /\ step[c] = "insmod" => cmd[c] = "load"
        /\ step[c] = "rmmod" => cmd[c] = "unload"
        /\ step[c] \in {"start", "visit", "insmod", "rmmod"} => ret[c] = -1
        /\ step[c] \notin {"returned", "exited"} => status[c] = -1
        /\ step[c] = "returned" => status[c] = -1 /\ ret[c] \in {0, 1}
        /\ step[c] = "exited" /\ cmd[c] \in {"load", "unload"} => status[c] = ret[c]

\* The commands that were done, whether they have been answered or not.
Done(k) == {c \in Ctls : cmd[c] = k /\ ret[c] = 0}

\* What insmod and rmmod returned always adds up.
ReturnsAddUp ==
    Cardinality(Done("load")) - Cardinality(Done("unload"))
        = (IF module \in {"live", "going"} THEN 1 ELSE 0)

CInv == Types /\ Loader /\ Waiting /\ Commanded /\ ReturnsAddUp

-----------------------------------------------------------------------------
LEMMA CInvInit == Init => CInv
<1> SUFFICES ASSUME Init PROVE CInv
  OBVIOUS
<1> USE DEF Init, KM!Init
<1>1. Types
  BY DEF Types, Command
<1>2. Loader /\ Waiting /\ Commanded
  BY DEF Loader, InitPoints, ExitPoints, Waiting, Running, Commanded
<1>3. ReturnsAddUp
  <2>1. Done("load") = {} /\ Done("unload") = {}
    BY DEF Done
  <2>2. Cardinality(Done("load")) = 0 /\ Cardinality(Done("unload")) = 0
    BY <2>1, FS_EmptySet
  <2>3. module = "unloaded"
    OBVIOUS
  <2> HIDE DEF Init, KM!Init
  <2> QED
    BY ONLY <2>2, <2>3, SMT DEF ReturnsAddUp
<1> QED
  BY <1>1, <1>2, <1>3 DEF CInv

-----------------------------------------------------------------------------
(* What the steps of the module do to module and pc.                         *)
LEMMA InitStepEnds ==
  ASSUME Loader, KM!InitSteps
  PROVE  /\ module = "coming" /\ Loader'
         /\ pc' = "none" => module' \in {"live", "unloaded"}
         /\ pc' # "none" => module' = "coming"
<1>1. pc \in InitPoints /\ module = "coming"
  BY DEF KM!InitSteps, KM!SendMessage, KM!AllocRegion, KM!AddCdev, KM!AllocBuffer, KM!ZeroCounters,
         KM!Claim, KM!Clear, KM!Copy, KM!Count, KM!Publish, Loader, InitPoints
<1>2. \/ pc' \in InitPoints /\ module' = module
      \/ pc' = "none" /\ module' \in {"live", "unloaded"}
  BY DEF KM!InitSteps, KM!SendMessage, KM!AllocRegion, KM!AddCdev, KM!AllocBuffer, KM!ZeroCounters,
         KM!Claim, KM!Clear, KM!Copy, KM!Count, KM!Publish, KM!Return, KM!Fail, InitPoints
<1> QED
  BY <1>1, <1>2 DEF Loader, InitPoints, ExitPoints

LEMMA ExitStepEnds ==
  ASSUME Loader, KM!ExitSteps
  PROVE  /\ module = "going" /\ Loader'
         /\ pc' = "none" => module' = "unloaded"
         /\ pc' # "none" => module' = "going"
  BY DEF KM!ExitSteps, KM!FreeBuffer, KM!ForgetBuffer, KM!Unregister, Loader, InitPoints, ExitPoints

\* A step in which no insmod and no rmmod ends leaves the sums as they are.
LEMMA SameReturns ==
  ASSUME ReturnsAddUp, Done("load")' = Done("load"),
         Done("unload")' = Done("unload"),
         module \in {"live", "going"} <=> module' \in {"live", "going"}
  PROVE  ReturnsAddUp'
  BY DEF ReturnsAddUp

LEMMA CommandStep ==
  ASSUME CInv, NEW c \in Ctls, Parse(c) \/ Empty(c) \/ Refused(c) \/ Return(c)
  PROVE  CInv'
<1> USE DEF CInv, Parse, Empty, Refused, Return, Exit, Ended, system
<1>1. step[c] \in {"start", "visit", "returned"} /\ UNCHANGED <<module, pc>>
  OBVIOUS
<1>2. Types' /\ Loader'
  <2>1. CASE Return(c)
    BY <2>1 DEF Types, Loader, Commanded
  <2>2. CASE Parse(c) \/ Empty(c) \/ Refused(c)
    BY <2>2 DEF Types, Loader, Command
  <2> QED
    BY <2>1, <2>2
<1>3. Running' = Running /\ \A d \in Running : step'[d] = step[d]
  BY DEF Running, Types
<1>4. Waiting'
  BY <1>1, <1>3 DEF Waiting
<1>5. Commanded'
  <2>1. CASE Parse(c)
    BY <2>1 DEF Commanded, Types
  <2>2. CASE Empty(c)
    BY <2>2 DEF Commanded, Types
  <2>3. CASE Refused(c)
    BY <2>3 DEF Commanded, Types
  <2>4. CASE Return(c)
    BY <2>4 DEF Commanded, Types
  <2> QED
    BY <2>1, <2>2, <2>3, <2>4
<1>6. \A k \in {"load", "unload"} : Done(k)' = Done(k)
  <2> SUFFICES ASSUME NEW k \in {"load", "unload"}, NEW d \in Ctls
               PROVE  (cmd'[d] = k /\ ret'[d] = 0) <=> (cmd[d] = k /\ ret[d] = 0)
    BY DEF Done
  <2>1. CASE Parse(c)
    BY <2>1 DEF Types, Commanded
  <2>2. CASE Empty(c) \/ Return(c)
    BY <2>2
  <2>3. CASE Refused(c)
    BY <2>3 DEF Types, Commanded
  <2> QED
    BY <2>1, <2>2, <2>3
<1>7. ReturnsAddUp'
  BY <1>1, <1>6, SameReturns
<1> QED
  BY <1>2, <1>4, <1>5, <1>7

LEMMA LoadStep ==
  ASSUME CInv, NEW c \in Ctls, Load(c)
  PROVE  CInv'
<1> USE DEF CInv, Load, KM!Insmod
<1>1. Types' /\ Loader'
  BY DEF Types, Loader, InitPoints, ExitPoints
<1>2. Waiting'
  <2>1. Running = {}
    BY DEF Waiting
  <2>2. Running' = {c} /\ step'[c] = "insmod"
    BY <2>1 DEF Running, Types
  <2> QED
    BY <2>2 DEF Waiting
<1>3. Commanded'
  BY DEF Commanded, Types
<1>4. ReturnsAddUp'
  BY SameReturns DEF Done
<1> QED
  BY <1>1, <1>2, <1>3, <1>4

LEMMA UnloadStep ==
  ASSUME CInv, NEW c \in Ctls, Unload(c)
  PROVE  CInv'
<1> USE DEF CInv, Unload, KM!Rmmod
<1>1. Types' /\ Loader'
  BY DEF Types, Loader, InitPoints, ExitPoints
<1>2. Waiting'
  <2>1. Running = {}
    BY DEF Waiting
  <2>2. Running' = {c} /\ step'[c] = "rmmod"
    BY <2>1 DEF Running, Types
  <2> QED
    BY <2>2 DEF Waiting
<1>3. Commanded'
  BY DEF Commanded, Types
<1>4. ReturnsAddUp'
  BY SameReturns DEF Done
<1> QED
  BY <1>1, <1>2, <1>3, <1>4

LEMMA UserStepKeeps ==
  ASSUME CInv, UserStep
  PROVE  CInv'
<1>1. UNCHANGED <<module, pc, step, cmd, ret, status>>
  BY DEF UserStep, KM!UserSteps, KM!Open, KM!Mmap, KM!Munmap, KM!Release, KM!loader
<1> QED
  BY <1>1 DEF CInv, Types, Loader, Waiting, Running, Commanded, ReturnsAddUp, Done

\* One more command is done.
LEMMA OneMore ==
  ASSUME NEW k, NEW c \in Ctls, cmd[c] = k, ret[c] = -1, UNCHANGED cmd,
         ret \in [Ctls -> {-1, 0, 1}], ret' = [ret EXCEPT ![c] = 0]
  PROVE  Cardinality(Done(k)') = Cardinality(Done(k)) + 1
<1>1. Done(k)' = Done(k) \cup {c} /\ c \notin Done(k)
  BY DEF Done
<1>2. IsFiniteSet(Done(k))
  BY CtlAssumption, FS_Subset DEF Done
<1> QED
  BY <1>1, <1>2, FS_AddElement

LEMMA DoneAreFinite == \A k : IsFiniteSet(Done(k)) /\ Cardinality(Done(k)) \in Nat
  BY CtlAssumption, FS_Subset, FS_CardinalityType DEF Done

LEMMA ModuleStepKeeps ==
  ASSUME CInv, ModuleStep
  PROVE  CInv'
<1> USE DEF CInv
<1>1. Loader' /\ module \in {"coming", "going"} /\ UNCHANGED <<cmd, status>>
  BY InitStepEnds, ExitStepEnds DEF ModuleStep
<1>2. \/ pc' = "none" /\ module = "coming" /\ module' \in {"live", "unloaded"}
      \/ pc' = "none" /\ module = "going" /\ module' = "unloaded"
      \/ pc' # "none" /\ module' = module
  BY InitStepEnds, ExitStepEnds DEF ModuleStep
<1>3. CASE pc' # "none"
  <2>1. UNCHANGED <<step, ret, status, module>>
    BY <1>2, <1>3 DEF ModuleStep
  <2> QED
    BY <1>1, <2>1 DEF Types, Waiting, Running, Commanded, ReturnsAddUp, Done
<1>4. CASE pc' = "none"
  <2>1. PICK c \in Ctls :
            /\ step[c] \in {"insmod", "rmmod"}
            /\ Ended(c, IF step[c] = "insmod" /\ module' # "live" THEN 1 ELSE 0)
    BY <1>4 DEF ModuleStep
  <2>2. Running = {c} /\ step[c] = (IF module = "coming" THEN "insmod" ELSE "rmmod")
    BY <1>1, <2>1 DEF Waiting, Running
  <2>3. Types'
    BY <1>1, <2>1 DEF Types, Ended
  <2>4. Waiting'
    <3>1. Running' = {}
      BY <2>1, <2>2 DEF Running, Types, Ended
    <3> QED
      BY <1>2, <1>4, <3>1 DEF Waiting
  <2>5. Commanded'
    BY <1>1, <2>1 DEF Commanded, Types, Ended
  <2>6. ReturnsAddUp'
    <3>1. ret[c] = -1 /\ cmd[c] = (IF module = "coming" THEN "load" ELSE "unload")
      BY <1>1, <2>1, <2>2 DEF Commanded
    <3>2. CASE module = "coming" /\ module' = "live"
      <4>1. ret' = [ret EXCEPT ![c] = 0]
        BY <2>1, <3>2 DEF Ended
      <4>2. Cardinality(Done("load")') = Cardinality(Done("load")) + 1
        BY <1>1, <3>1, <3>2, <4>1, OneMore DEF Types
      <4>3. Done("unload")' = Done("unload")
        BY <1>1, <3>1, <3>2, <4>1 DEF Done, Types
      <4> QED
        BY <3>2, <4>2, <4>3, DoneAreFinite DEF ReturnsAddUp
    <3>3. CASE module = "coming" /\ module' = "unloaded"
      <4>1. ret' = [ret EXCEPT ![c] = 1]
        BY <2>1, <2>2, <3>3 DEF Ended
      <4>2. \A k : Done(k)' = Done(k)
        BY <1>1, <3>1, <4>1 DEF Done, Types
      <4> QED
        BY <3>3, <4>2, SameReturns
    <3>4. CASE module = "going" /\ module' = "unloaded"
      <4>1. ret' = [ret EXCEPT ![c] = 0]
        BY <2>1, <2>2, <3>4 DEF Ended
      <4>2. Cardinality(Done("unload")') = Cardinality(Done("unload")) + 1
        BY <1>1, <3>1, <3>4, <4>1, OneMore DEF Types
      <4>3. Done("load")' = Done("load")
        BY <1>1, <3>1, <3>4, <4>1 DEF Done, Types
      <4> QED
        BY <3>4, <4>2, <4>3, DoneAreFinite DEF ReturnsAddUp
    <3> QED
      BY <1>2, <1>4, <3>2, <3>3, <3>4
  <2> QED
    BY <1>1, <2>3, <2>4, <2>5, <2>6
<1> QED
  BY <1>3, <1>4

LEMMA CInvStep == CInv /\ [Next]_vars => CInv'
<1> SUFFICES ASSUME CInv, [Next]_vars PROVE CInv'
  OBVIOUS
<1>1. CASE ModuleStep
  BY <1>1, ModuleStepKeeps
<1>2. CASE UserStep
  BY <1>2, UserStepKeeps
<1>3. ASSUME NEW c \in Ctls, Invocation(c) PROVE CInv'
  BY <1>3, CommandStep, LoadStep, UnloadStep DEF Invocation
<1>4. CASE UNCHANGED vars
  BY <1>4 DEF vars, system, CInv, Types, Loader, Waiting, Running, Commanded, ReturnsAddUp, Done
<1> QED
  BY <1>1, <1>2, <1>3, <1>4 DEF Next

LEMMA Invariance == Spec => []CInv
  BY CInvInit, CInvStep, PTL DEF Spec

-----------------------------------------------------------------------------
\* The variables keep their types, and at most one insmod or rmmod at a time runs
\* the module's init or exit (src/kernel/kernel-module.cpp:125, 140).
THEOREM TypesHold == Spec => []TypeOK
<1>1. CInv /\ KM!TypeOK => TypeOK
  <2> SUFFICES ASSUME CInv, KM!TypeOK,
                      NEW c \in Ctls, NEW d \in Ctls,
                      {step[c], step[d]} \subseteq {"insmod", "rmmod"}
               PROVE  c = d
    BY DEF TypeOK, CInv, Types
  <2>1. c \in Running /\ d \in Running
    BY DEF Running
  <2> QED
    BY <2>1 DEF CInv, Waiting, Loader
<1> QED
  BY <1>1, Invariance, ModuleTyped, PTL

\* Whenever no answer is outstanding, the answers of any number of invocations
\* add up to the module's state (src/ctl/main.cpp:164-181).
THEOREM AnswersHold == Spec => []AnswersAddUp
<1>1. CInv => AnswersAddUp
  <2> SUFFICES ASSUME CInv, Pending = {}
               PROVE  Cardinality(Answered("load")) - Cardinality(Answered("unload"))
                        = (IF module = "live" THEN 1 ELSE 0)
    BY DEF AnswersAddUp
  <2>1. \A c \in Ctls : step[c] \in {"start", "visit", "exited"}
    BY DEF Pending, CInv, Types
  <2>2. \A k \in {"load", "unload"} : Answered(k) = Done(k)
    BY <2>1 DEF Answered, Done, CInv, Commanded
  <2>3. module # "going"
    BY <2>1 DEF CInv, Waiting, Running
  <2> QED
    BY <2>2, <2>3 DEF CInv, ReturnsAddUp
<1> QED
  BY <1>1, Invariance, PTL
=============================================================================
