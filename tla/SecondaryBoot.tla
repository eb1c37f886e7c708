--------------------------- MODULE SecondaryBoot ---------------------------
(***************************************************************************)
(* Bring-up of the secondary cores: the park loop of the boot ROM stub,    *)
(* the WKUPGEN register stub with its write hook, and the machine reset    *)
(* (qemu/hw/arm/garmin_gpsmap.c).                                          *)
(*                                                                         *)
(* A secondary core executes the loop one instruction at a time in its own *)
(* thread; only its MMIO load and the primary's MMIO stores are serialised *)
(* by QEMU's global lock.  The primary runs the firmware, which is not in  *)
(* the repository: as the comment of the hook has it, it publishes the     *)
(* entry point in AUX_CORE_BOOT_1 and then a flag in AUX_CORE_BOOT_0.      *)
(***************************************************************************)
EXTENDS Integers

CONSTANTS
    Cores,      \* the secondary cores
    Entries,    \* entry points the firmware may publish
    None,       \* no entry point
    MaxBoots    \* bound: how often the machine is reset, plus one

VARIABLES
    boot0,   \* AUX_CORE_BOOT_0 holds a non-zero flag
    boot1,   \* AUX_CORE_BOOT_1: an entry point or None
    cpu0,    \* progress of the primary's firmware: start, entry, released
    pc,      \* pc[c]: where secondary core c is in the park loop, or "run"
    r0,      \* r0[c]: the flag as core c last loaded it
    at,      \* at[c]: the entry point core c jumped to
    boots    \* which boot this is

vars == <<boot0, boot1, cpu0, pc, r0, at, boots>>

Init ==
    /\ boot0 = FALSE
    /\ boot1 = None
    /\ cpu0 = "start"
    /\ pc = [c \in Cores |-> "rom"]
    /\ r0 = [c \in Cores |-> FALSE]
    /\ at = [c \in Cores |-> None]
    /\ boots = 1
-----------------------------------------------------------------------------
Goto(c, from, to) == pc[c] = from /\ pc' = [pc EXCEPT ![c] = to]

(* 0x40..0x87 and 0x140: drop to the Non-secure world, point r1 at BOOT_0. *)
EnterPark(c) ==
    /\ Goto(c, "rom", "loop")
    /\ UNCHANGED <<boot0, boot1, cpu0, r0, at, boots>>

(* 0x144: ldr r0, [r1].                                                    *)
LoadFlag(c) ==
    /\ Goto(c, "loop", "test")
    /\ r0' = [r0 EXCEPT ![c] = boot0]
    /\ UNCHANGED <<boot0, boot1, cpu0, at, boots>>

(* 0x148, 0x14c: cmp r0, #0; bne go.                                       *)
TestFlag(c) ==
    /\ Goto(c, "test", IF r0[c] THEN "go" ELSE "wfi")
    /\ UNCHANGED <<boot0, boot1, cpu0, r0, at, boots>>

(* 0x150: wfi.  Nothing is pending for a parked core, so QEMU halts it.    *)
WaitForInterrupt(c) ==
    /\ Goto(c, "wfi", "halted")
    /\ UNCHANGED <<boot0, boot1, cpu0, r0, at, boots>>

(* 0x158: ldr pc, [r1, #4].                                                *)
Jump(c) ==
    /\ Goto(c, "go", "run")
    /\ at' = [at EXCEPT ![c] = boot1]
    /\ UNCHANGED <<boot0, boot1, cpu0, r0, boots>>

(* regstub_write to AUX_CORE_BOOT_1: the hook returns early.               *)
PublishEntry(e) ==
    /\ cpu0 = "start"
    /\ cpu0' = "entry"
    /\ boot1' = e
    /\ UNCHANGED <<boot0, pc, r0, at, boots>>

(* regstub_write to AUX_CORE_BOOT_0 of a non-zero flag: wkupgen_write_hook *)
(* takes the halted cores out of halt; they go on after the wfi, with the  *)
(* branch back to the load.                                                *)
WriteFlag ==
    /\ cpu0 = "entry"
    /\ cpu0' = "released"
    /\ boot0' = TRUE
    /\ pc' = [c \in Cores |-> IF pc[c] = "halted" THEN "loop" ELSE pc[c]]
    /\ UNCHANGED <<boot1, r0, at, boots>>

(* gpsmap_machine_reset: the cores restart in the ROM.  The register stub  *)
(* has no reset handler and keeps its registers.                           *)
MachineReset ==
    /\ boots < MaxBoots
    /\ boots' = boots + 1
    /\ cpu0' = "start"
    /\ pc' = [c \in Cores |-> "rom"]
    /\ r0' = [c \in Cores |-> FALSE]
    /\ at' = [c \in Cores |-> None]
    /\ UNCHANGED <<boot0, boot1>>
-----------------------------------------------------------------------------
CoreStep(c) ==
    \/ EnterPark(c)
    \/ LoadFlag(c)
    \/ TestFlag(c)
    \/ WaitForInterrupt(c)
    \/ Jump(c)

Next ==
    \/ \E c \in Cores : CoreStep(c)
    \/ \E e \in Entries : PublishEntry(e)
    \/ WriteFlag
    \/ MachineReset

(* Every core that is not halted executes instructions.                    *)
Spec ==
    /\ Init
    /\ [][Next]_vars
    /\ \A c \in Cores : WF_vars(CoreStep(c))
-----------------------------------------------------------------------------
(* The write of AUX_CORE_BOOT_0 releases the core: a core that the flag    *)
(* has been set for leaves the park loop.                                  *)
FlagReleasesCore ==
    \A c \in Cores : (cpu0 = "released") ~> (pc[c] = "run" \/ cpu0 # "released")
=============================================================================
