---------------------------- MODULE TargetStorage ---------------------------
(***************************************************************************)
(* The files of a target calculation (infrastructure/                      *)
(* target_pipeline_artifacts.py) and what RunDurableTargetPolicyPipeline-  *)
(* UseCase reads from them (recommend_replenishment/application/           *)
(* target_durable.py).  Objects are named by their content: the sealed     *)
(* INPUT, the PARTs of the result, the MANIFEST that lists them, and a     *)
(* SLOT record behind each slot.  A slot is a small file that points, once *)
(* and for all, at the input of the run or at its complete result.         *)
(*                                                                         *)
(* The disk is a record [objects, harmed, slots]: the objects there are,   *)
(* those of them whose bytes no longer are what their name says, and the   *)
(* reference each slot holds.  The numbers are left out: a calculation is  *)
(* a function of its input, so an object is named by the input it is of.   *)
(***************************************************************************)
EXTENDS Naturals

CONSTANTS Inputs, NParts, None

ASSUME PartsAssumption == NParts \in Nat \ {0}

Input(i)         == <<"INPUT", i>>
Part(i, k)       == <<"PART", i, k>>
Manifest(i)      == <<"MANIFEST", i>>
Slot(phase, ref) == <<"SLOT", phase, ref>>

ASSUME NoneAssumption == None \notin { Input(i) : i \in Inputs } \cup { Manifest(i) : i \in Inputs }

Phases == {"INPUT", "COMPLETE"}

EmptyDisk == [objects |-> {}, harmed |-> {}, slots |-> [f \in Phases |-> None]]

\* The parts of a result, in the order its manifest lists them.
ResultParts(i) == { Part(i, k) : k \in 1 .. NParts }

Readable(disk, object) == object \in disk.objects \ disk.harmed

\* An object is published under an exclusive name: one that is there is
\* compared, never replaced, so that a harmed one refuses its own content.
CanPut(disk, object) == object \notin disk.harmed

Put(disk, object) == [disk EXCEPT !.objects = @ \cup {object}]

\* The defect in which a slot follows the last object bound to it.
BindsAgain(disk, phase, ref) == Readable(disk, ref) /\ CanPut(disk, Slot(phase, ref))

\* A slot is bound only to an object that can be read, and once.
CanBind(disk, phase, ref) ==
    /\ Readable(disk, ref)
    /\ CanPut(disk, Slot(phase, ref))
    /\ disk.slots[phase] \in {None, ref}

Bind(disk, phase, ref) ==
    [Put(disk, Slot(phase, ref)) EXCEPT !.slots[phase] = ref]

\* The slot file points at the slot record: without the file nothing is
\* bound, without the record the lookup fails.
LookupFails(disk, phase) ==
    disk.slots[phase] # None /\ ~Readable(disk, Slot(phase, disk.slots[phase]))

Holds(disk, phase, ref) == disk.slots[phase] = ref /\ ~LookupFails(disk, phase)

\* The whole package of a manifest: the input, every listed part and nothing
\* that its hash does not account for.
PackageWhole(disk, i) ==
    /\ Readable(disk, Manifest(i))
    /\ Readable(disk, Input(i))
    /\ \A part \in ResultParts(i) : Readable(disk, part)

\* An input can be used again while the slot of the run still names it.
InputReadable(disk, i) == Readable(disk, Input(i)) /\ Holds(disk, "INPUT", Input(i))

\* A verified read: both slots, the manifest of the run's own input, every
\* part, and a replay of the calculation that must give the same parts.
ReadVerified(disk, i) ==
    /\ Holds(disk, "INPUT", Input(i))
    /\ Holds(disk, "COMPLETE", Manifest(i))
    /\ PackageWhole(disk, i)

-----------------------------------------------------------------------------
(* What can happen to the files.                                           *)

LoseObject(disk, object) ==
    [disk EXCEPT !.objects = @ \ {object}, !.harmed = @ \ {object}]
HarmObject(disk, object) == [disk EXCEPT !.harmed = @ \cup {object}]
LoseSlot(disk, phase) == [disk EXCEPT !.slots[phase] = None]
=============================================================================
