------------------------------ MODULE GptUpdate ------------------------------
(* The fail-safe update of the boot critical partitions of a UFS device:      *)
(* gpt-utils/gpt-utils.cpp, prepare_boot_update and prepare_partitions.  Each *)
(* LUN has a primary and a secondary partition table; the boot loader reads   *)
(* the primary unless its signature is bad.  XBL is chosen by the boot LUN.   *)
(* Every write is a step.  It goes to the kernel's cache of the device, where *)
(* reads see it; its page reaches the device later, in any order, at the      *)
(* latest in the fsync at the end of a LUN.  A write may fail or be cut short *)
(* (which blk_rw takes for success), a page may be lost on its way (fsync's   *)
(* result is ignored), and the device may restart between any two steps.  A   *)
(* sector (a GPT header) is written whole or not at all.  The updater that    *)
(* calls the three stages and writes and syncs the images is external.        *)
EXTENDS Integers

CONSTANTS NumLuns,      \* LUNs that hold boot critical images
          MaxCrashes,   \* bound: restarts of the device
          MaxFailures   \* bound: device operations that fail

ASSUME GptAssumption ==
  /\ NumLuns \in Nat \ {0}
  /\ MaxCrashes \in Nat
  /\ MaxFailures \in Nat

UPDATE_MAIN == 1
UPDATE_BACKUP == 2
UPDATE_FINALIZE == 3
Stage == {UPDATE_MAIN, UPDATE_BACKUP, UPDATE_FINALIZE}
NoStage == 0

Chain == {"NORMAL_BOOT", "BACKUP_BOOT"}
GptState == {"GPT_OK", "GPT_BAD_SIGNATURE"}
Lun == 1 .. NumLuns
Xbl == 0
Part == Lun \cup {Xbl}      \* the images of each LUN, and XBL

\* The pages of a LUN the update writes: the primary header, the secondary
\* header (its signature and its CRC) and the secondary entries array.
Page == {"primary", "header2", "entries2"}
Entries == Chain \cup {"torn"}

VARIABLES
  primary, secondary, \* [Lun -> GptState]: signatures of the two headers
  crc2,               \* [Lun -> Chain]: the entries the secondary header's CRC is of
  entries2,           \* [Lun -> Entries]: the secondary entries array
  dev,                \* [Lun -> the same four]: what is on the device itself
  dirty,              \* pages of the LUN at hand that are still to be written back
  bootLun,            \* the chain XBL is loaded from (boot LUN A or B)
  image,              \* [Chain -> [Part -> "old", "torn" or "new"]]
  stage, lun, pc, isError,  \* the call of prepare_boot_update
  r,                  \* the result of prepare_partitions, -1 as 1
  granted,            \* the stage whose call was the last and returned 0
  last,               \* the last stage the updater tried since it started
  past,               \* history: see Trouble
  crashes, failures

cache == <<primary, secondary, crc2, entries2>>
disk == <<cache, dev, dirty, bootLun>>
call == <<stage, lun, pc, isError, r, granted>>
vars == <<disk, image, call, last, past, crashes, failures>>

PC == {"idle", "open", "xbl", "header", "entries", "primary", "secondary", "sync"}

\* What the code neither prevents nor notices: a write that was cut short, a
\* page that could not be written back, and a restart of the device that found
\* a corrupted header on it but not yet the page that replaces the header.
Trouble == {"short", "unsynced", "overtaken"}

TypeOK ==
  /\ primary \in [Lun -> GptState]
  /\ secondary \in [Lun -> GptState]
  /\ crc2 \in [Lun -> Chain]
  /\ entries2 \in [Lun -> Entries]
  /\ dev \in [Lun -> [primary : GptState, secondary : GptState,
                      crc2 : Chain, entries2 : Entries]]
  /\ dirty \subseteq Page
  /\ bootLun \in Chain
  /\ image \in [Chain -> [Part -> {"old", "torn", "new"}]]
  /\ stage \in Stage
  /\ lun \in Lun
  /\ pc \in PC
  /\ isError \in {0, 1} /\ r \in {0, 1}
  /\ granted \in Stage \cup {NoStage}
  /\ last \in Stage \cup {NoStage}
  /\ past \subseteq Trouble
  /\ crashes \in 0 .. MaxCrashes
  /\ failures \in 0 .. MaxFailures

Init ==
  /\ primary = [l \in Lun |-> "GPT_OK"]
  /\ secondary = [l \in Lun |-> "GPT_OK"]
  /\ crc2 = [l \in Lun |-> "NORMAL_BOOT"]
  /\ entries2 = [l \in Lun |-> "NORMAL_BOOT"]
  /\ dev = [l \in Lun |-> [primary |-> "GPT_OK", secondary |-> "GPT_OK",
                          crc2 |-> "NORMAL_BOOT", entries2 |-> "NORMAL_BOOT"]]
  /\ dirty = {}
  /\ bootLun = "NORMAL_BOOT"
  /\ image = [c \in Chain |-> [p \in Part |-> "old"]]
  /\ stage = UPDATE_MAIN /\ lun = 1 /\ pc = "idle" /\ isError = 0 /\ r = 0
  /\ granted = NoStage /\ last = NoStage
  /\ past = {}
  /\ crashes = 0 /\ failures = 0

-----------------------------------------------------------------------------
(* The updater. *)

Written(c) == \A p \in Part : image[c][p] = "new"

\* The stage that makes a chain unused is called only when the other is whole.
Allowed(s) ==
  /\ s = UPDATE_BACKUP => Written("NORMAL_BOOT")
  /\ s = UPDATE_FINALIZE => Written("NORMAL_BOOT") /\ Written("BACKUP_BOOT")

\* The chain the last successful call gave the updater to write.
Given(c) == \/ granted = UPDATE_MAIN /\ c = "NORMAL_BOOT"
            \/ granted = UPDATE_BACKUP /\ c = "BACKUP_BOOT"

\* The stages in turn, whatever the calls return; any stage after a restart.
Turn(s) ==
  \/ last = NoStage
  \/ s # UPDATE_MAIN /\ last = s - 1
  \/ /\ s = UPDATE_MAIN
     /\ last = UPDATE_FINALIZE \/ ~Allowed(last + 1)

\* A call of prepare_boot_update, up to the loop over the LUNs.
prepare_boot_update(s) ==
  /\ pc = "idle" /\ granted # UPDATE_FINALIZE
  /\ \A c \in Chain : Given(c) => Written(c)
  /\ Allowed(s) /\ Turn(s)
  /\ stage' = s /\ last' = s
  /\ lun' = 1 /\ pc' = "open" /\ isError' = 0 /\ r' = 0 /\ granted' = NoStage
  /\ UNCHANGED <<disk, image, past, crashes, failures>>

\* The updater starts to write an image of a chain it was given, and ends:
\* an image that is whole is not written again.
WriteImage(c, p) ==
  /\ pc = "idle" /\ Given(c)
  /\ \/ image[c][p] = "old" /\ image' = [image EXCEPT ![c][p] = "torn"]
     \/ image[c][p] = "torn" /\ image' = [image EXCEPT ![c][p] = "new"]
  /\ UNCHANGED <<disk, call, last, past, crashes, failures>>

-----------------------------------------------------------------------------
(* prepare_partitions on one LUN. *)

\* Mutant: the loop over the LUNs runs to i <= num_valid_entries.
NextLunTooFar ==
  /\ isError' = IF r = 1 THEN 1 ELSE isError
  /\ r' = 0
  /\ IF lun <= NumLuns
     THEN lun' = lun + 1 /\ pc' = "open" /\ UNCHANGED granted
     ELSE lun' = lun /\ pc' = "idle" /\ granted' = IF isError' = 1 THEN NoStage ELSE stage

\* Mutant: only the result of the last LUN counts.
NextLunLastResult ==
  /\ isError' = r
  /\ r' = 0
  /\ IF lun < NumLuns
     THEN lun' = lun + 1 /\ pc' = "open" /\ UNCHANGED granted
     ELSE lun' = lun /\ pc' = "idle" /\ granted' = IF isError' = 1 THEN NoStage ELSE stage

\* The result of prepare_partitions goes into is_error; an error does not stop
\* the loop.  After the last LUN the call returns.
NextLun ==
  /\ isError' = IF r = 1 THEN 1 ELSE isError
  /\ r' = 0
  /\ IF lun < NumLuns
     THEN lun' = lun + 1 /\ pc' = "open" /\ UNCHANGED granted
     ELSE lun' = lun /\ pc' = "idle" /\ granted' = IF isError' = 1 THEN NoStage ELSE stage

\* The stage a LUN is to be prepared for next, from the state of its headers
\* (a bad CRC needs a header that was not written whole).
internal_stage(l) ==
  IF primary[l] = "GPT_BAD_SIGNATURE" THEN UPDATE_BACKUP
  ELSE IF secondary[l] = "GPT_BAD_SIGNATURE" THEN UPDATE_FINALIZE
  ELSE UPDATE_MAIN

BothBad(l) == primary[l] = "GPT_BAD_SIGNATURE" /\ secondary[l] = "GPT_BAD_SIGNATURE"

\* Mutant: a stage that is already set is an unexpected stage.
OpenNotIdempotent ==
  /\ pc = "open"
  /\ IF stage # internal_stage(lun)
     THEN pc' = "sync" /\ r' = 1
     ELSE pc' = (IF stage = UPDATE_FINALIZE THEN "header" ELSE "xbl") /\ r' = r
  /\ UNCHANGED <<disk, image, stage, lun, isError, granted, last, past, crashes, failures>>

\* Read both headers; goto EXIT, or go to the case of the stage.
Open ==
  /\ pc = "open"
  /\ IF stage # internal_stage(lun) \/ BothBad(lun)
     THEN /\ pc' = "sync"
          /\ r' = IF stage = internal_stage(lun) - 1 /\ ~BothBad(lun) THEN 0 ELSE 1
     ELSE pc' = (IF stage = UPDATE_FINALIZE THEN "header" ELSE "xbl") /\ r' = r
  /\ UNCHANGED <<disk, image, stage, lun, isError, granted, last, past, crashes, failures>>

\* Mutant: UPDATE_BACKUP corrupts the secondary header before it fixes the primary.
AfterCorruptFirst(p) ==
  CASE p = "xbl" -> IF stage = UPDATE_MAIN THEN "header" ELSE "secondary"
    [] p = "header" -> "entries"
    [] p = "entries" -> IF stage = UPDATE_MAIN THEN "primary" ELSE "secondary"
    [] p = "secondary" -> IF stage = UPDATE_BACKUP THEN "primary" ELSE "sync"
    [] OTHER -> "sync"

\* The next write of the stage, in the order of the case; then EXIT.
After(p) ==
  CASE p = "xbl" -> IF stage = UPDATE_MAIN THEN "header" ELSE "primary"
    [] p = "header" -> "entries"
    [] p = "entries" -> IF stage = UPDATE_MAIN THEN "primary" ELSE "secondary"
    [] p = "primary" -> IF stage = UPDATE_MAIN THEN "sync" ELSE "secondary"
    [] OTHER -> "sync"

\* A call that returned 0: on to what follows it.
Advance ==
  /\ pc' = After(pc)
  /\ UNCHANGED <<image, stage, lun, isError, r, granted, last, crashes>>

\* A write that the cache took in full.
Taken(page) ==
  /\ dirty' = dirty \cup {page}
  /\ Advance
  /\ UNCHANGED <<dev, past, failures>>

\* gpt_utils_set_xbl_boot_partition: an ioctl, on the device when it returns.
SetXblBootPartition ==
  /\ pc = "xbl"
  /\ bootLun' = IF stage = UPDATE_MAIN THEN "BACKUP_BOOT" ELSE "NORMAL_BOOT"
  /\ Advance
  /\ UNCHANGED <<cache, dev, dirty, past, failures>>

\* The chain gpt2_set_boot_chain is called with.
boot == IF stage = UPDATE_MAIN THEN "BACKUP_BOOT" ELSE "NORMAL_BOOT"

\* gpt2_set_boot_chain: the header with the CRC of the new entries first,
\* its signature left as it is ...
WriteHeader ==
  /\ pc = "header"
  /\ crc2' = [crc2 EXCEPT ![lun] = boot]
  /\ Taken("header2")
  /\ UNCHANGED <<primary, secondary, entries2, bootLun>>

\* ... then the entries array: those of the primary table, swapped for the
\* backup chain.
WriteEntries ==
  /\ pc = "entries"
  /\ entries2' = [entries2 EXCEPT ![lun] = boot]
  /\ Taken("entries2")
  /\ UNCHANGED <<primary, secondary, crc2, bootLun>>

\* gpt_set_state(fd, PRIMARY_GPT, ...)
SetPrimaryState ==
  /\ pc = "primary"
  /\ primary' = [primary EXCEPT ![lun] =
       IF stage = UPDATE_MAIN THEN "GPT_BAD_SIGNATURE" ELSE "GPT_OK"]
  /\ Taken("primary")
  /\ UNCHANGED <<secondary, crc2, entries2, bootLun>>

\* gpt_set_state(fd, SECONDARY_GPT, ...)
SetSecondaryState ==
  /\ pc = "secondary"
  /\ secondary' = [secondary EXCEPT ![lun] =
       IF stage = UPDATE_BACKUP THEN "GPT_BAD_SIGNATURE" ELSE "GPT_OK"]
  /\ Taken("header2")
  /\ UNCHANGED <<primary, crc2, entries2, bootLun>>

\* What a write that was cut short leaves: nothing new of a header, some of the
\* entries array.
MayTear ==
  \/ UNCHANGED <<entries2, dirty>>
  \/ /\ pc = "entries"
     /\ entries2' = [entries2 EXCEPT ![lun] = "torn"]
     /\ dirty' = dirty \cup {"entries2"}

\* A write returns less than was asked for: blk_rw returns 0 and the stage goes on.
ShortWrite ==
  /\ pc \in {"header", "entries", "primary", "secondary"}
  /\ failures < MaxFailures /\ failures' = failures + 1
  /\ past' = past \cup {"short"}
  /\ MayTear
  /\ Advance
  /\ UNCHANGED <<primary, secondary, crc2, dev, bootLun>>

\* A read, a write or an ioctl fails: goto EXIT with an error.
Fail ==
  /\ pc \notin {"idle", "sync"}
  /\ failures < MaxFailures /\ failures' = failures + 1
  /\ MayTear
  /\ pc' = "sync" /\ r' = 1
  /\ UNCHANGED <<primary, secondary, crc2, dev, bootLun, image, stage, lun,
                 isError, granted, last, past, crashes>>

\* EXIT: fsync returns when every page was written back; its result is ignored.
Sync ==
  /\ pc = "sync" /\ dirty = {}
  /\ NextLun
  /\ UNCHANGED <<disk, image, stage, last, past, crashes, failures>>

-----------------------------------------------------------------------------
(* The kernel and the device. *)

Landed(page) ==
  CASE page = "primary" -> [dev[lun] EXCEPT !.primary = primary[lun]]
    [] page = "header2" -> [dev[lun] EXCEPT !.secondary = secondary[lun],
                                            !.crc2 = crc2[lun]]
    [] OTHER -> [dev[lun] EXCEPT !.entries2 = entries2[lun]]

\* A dirty page is written to the device at any time, in any order ...
WriteBack(page) ==
  /\ page \in dirty
  /\ dev' = [dev EXCEPT ![lun] = Landed(page)]
  /\ dirty' = dirty \ {page}
  /\ UNCHANGED <<cache, bootLun, image, call, last, past, crashes, failures>>

\* ... the entries array, of several sectors, in parts ...
WriteBackPart ==
  /\ "entries2" \in dirty
  /\ dev[lun].entries2 \notin {"torn", entries2[lun]}
  /\ dev' = [dev EXCEPT ![lun] = [@ EXCEPT !.entries2 = "torn"]]
  /\ UNCHANGED <<cache, dirty, bootLun, image, call, last, past, crashes, failures>>

\* ... or it cannot be, which only fsync would report.
WriteBackFails(page) ==
  /\ page \in dirty
  /\ failures < MaxFailures /\ failures' = failures + 1
  /\ dirty' = dirty \ {page}
  /\ past' = past \cup {"unsynced"}
  /\ UNCHANGED <<cache, dev, bootLun, image, call, last, crashes>>

\* A header is corrupted on the device while the page that replaces it is not
\* written back: no order of the pages is asked for before the fsync.
Overtaken ==
  \/ /\ dev[lun].primary = "GPT_BAD_SIGNATURE" /\ "primary" \notin dirty
     /\ dirty \cap {"header2", "entries2"} # {}
  \/ /\ dev[lun].secondary = "GPT_BAD_SIGNATURE" /\ "header2" \notin dirty
     /\ "primary" \in dirty

\* The device restarts: what is on it stays, the cache, the call and the
\* updater are gone.
Crash ==
  /\ crashes < MaxCrashes /\ crashes' = crashes + 1
  /\ primary' = [l \in Lun |-> dev[l].primary]
  /\ secondary' = [l \in Lun |-> dev[l].secondary]
  /\ crc2' = [l \in Lun |-> dev[l].crc2]
  /\ entries2' = [l \in Lun |-> dev[l].entries2]
  /\ dirty' = {}
  /\ past' = IF Overtaken THEN past \cup {"overtaken"} ELSE past
  /\ stage' = UPDATE_MAIN /\ lun' = 1 /\ pc' = "idle" /\ isError' = 0 /\ r' = 0
  /\ granted' = NoStage /\ last' = NoStage
  /\ UNCHANGED <<dev, bootLun, image, failures>>

-----------------------------------------------------------------------------
Write == \/ SetXblBootPartition \/ WriteHeader \/ WriteEntries
         \/ SetPrimaryState \/ SetSecondaryState

Step == \/ \E s \in Stage : prepare_boot_update(s)
        \/ \E c \in Chain, p \in Part : WriteImage(c, p)
        \/ Open
        \/ Write
        \/ \E page \in Page : WriteBack(page)
        \/ Sync

Failure == \/ ShortWrite \/ Fail
           \/ \E page \in Page : WriteBackFails(page)

Next == Step \/ WriteBackPart \/ Failure \/ Crash

\* The caller goes on and so do the call and the write-back that fsync waits
\* for; nothing has to crash or to fail.
Spec == Init /\ [][Next]_vars /\ WF_vars(Step)

-----------------------------------------------------------------------------
(* What the boot loader finds after a restart. *)

Valid2(l) == dev[l].secondary = "GPT_OK" /\ dev[l].entries2 = dev[l].crc2

\* The chain each image is loaded from; "none" if no table of the LUN is valid.
Used(p) ==
  IF p = Xbl THEN bootLun
  ELSE IF dev[p].primary = "GPT_OK" THEN "NORMAL_BOOT"
  ELSE IF Valid2(p) THEN dev[p].entries2 ELSE "none"

\* Whenever the device restarts, at any point of the update, after any errors
\* that the code is told of and with the pages written back in any order, every
\* LUN has a valid partition table and the tables and the boot LUN name whole
\* images only (prepare_partitions) - as long as no write was cut short and no
\* page was lost, and but for the moments when the corruption of a header has
\* overtaken the page that replaces it.
Bootable ==
  past = {} /\ ~Overtaken =>
    \A p \in Part : Used(p) \in Chain /\ image[Used(p)][p] # "torn"

\* When prepare_boot_update(MAIN) returns 0 and the normal images are still to
\* be written, the device boots from the backup ones only; after BACKUP it
\* boots from the normal ones; after FINALIZE both tables of every LUN are
\* valid and name the normal chain, as before the update.  All of it is on the
\* device by then, whatever the order of the write-back - as long as no write
\* was cut short, no page was lost and no restart came at one of those moments.
GrantedIsReady ==
  past = {} =>
    /\ granted = UPDATE_MAIN /\ ~Written("NORMAL_BOOT")
         => \A p \in Part : Used(p) = "BACKUP_BOOT"
    /\ granted = UPDATE_BACKUP => \A p \in Part : Used(p) = "NORMAL_BOOT"
    /\ granted = UPDATE_FINALIZE =>
         /\ bootLun = "NORMAL_BOOT"
         /\ \A l \in Lun : /\ dev[l].primary = "GPT_OK" /\ Valid2(l)
                           /\ dev[l].entries2 = "NORMAL_BOOT"

\* An updater that keeps trying the stages in turn completes the update,
\* whatever restarts and errors came in between: no combination of the LUNs'
\* header states makes every stage return -1 for ever, unless a write was cut
\* short, a page was lost or a restart found a header corrupted too early.
UpdateCompletes == [](past = {}) => <>[](granted = UPDATE_FINALIZE)
=============================================================================
