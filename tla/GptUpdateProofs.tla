--------------------------- MODULE GptUpdateProofs ---------------------------
(* Theorems about GptUpdate, for any number of LUNs, crashes and failures and *)
(* any order in which the pages are written back: type correctness; the       *)
(* device can boot at every point of an update; what a stage that returned 0  *)
(* promises is on the device - both as long as past is empty.                 *)
EXTENDS GptUpdate, TLAPS

\* A stage is called only while the images it stops using may be left.
CallsAllowed == pc # "idle" => Allowed(stage)

\* Nothing of another LUN or call is still to be written back.
Quiet == pc \in {"idle", "open", "xbl", "header"} => dirty = {}

\* A page that is not dirty is on the device as reads see it.
Agree == \A l \in Lun :
  /\ l # lun \/ "primary" \notin dirty => dev[l].primary = primary[l]
  /\ l # lun \/ "header2" \notin dirty =>
       dev[l].secondary = secondary[l] /\ dev[l].crc2 = crc2[l]
  /\ l # lun \/ "entries2" \notin dirty => dev[l].entries2 = entries2[l]

\* A table that is in use for want of the other one is whole.
BadPrimary == \A l \in Lun : primary[l] = "GPT_BAD_SIGNATURE" =>
  secondary[l] = "GPT_OK" /\ crc2[l] = "BACKUP_BOOT" /\ entries2[l] = "BACKUP_BOOT"

AllBad(h) == \A l \in Lun : h[l] = "GPT_BAD_SIGNATURE"

\* XBL comes from the normal chain when every LUN can only boot from it; while
\* normal images are to be written, no secondary table is touched and a LUN
\* that boots from its backup has XBL there too.
BootLunFollows ==
  /\ AllBad(secondary) => bootLun = "NORMAL_BOOT"
  /\ ~Written("NORMAL_BOOT") =>
       \A l \in Lun : /\ secondary[l] = "GPT_OK"
                      /\ primary[l] = "GPT_BAD_SIGNATURE" => bootLun = "BACKUP_BOOT"

\* Where the call stands on the LUN it works on.
AtLun ==
  /\ pc \in {"xbl", "header", "entries", "primary"} /\ stage = UPDATE_MAIN =>
       primary[lun] = "GPT_OK" /\ secondary[lun] = "GPT_OK"
  /\ pc \in {"header", "entries", "primary"} /\ stage = UPDATE_MAIN /\ ~Written("NORMAL_BOOT") =>
       bootLun = "BACKUP_BOOT"
  /\ pc \in {"entries", "primary"} => stage = UPDATE_BACKUP \/ crc2[lun] = boot
  /\ pc = "primary" /\ stage = UPDATE_MAIN => entries2[lun] = "BACKUP_BOOT"
  /\ pc \in {"xbl", "primary"} /\ stage = UPDATE_BACKUP =>
       primary[lun] = "GPT_BAD_SIGNATURE" /\ dirty = {}
  /\ pc = "secondary" => primary[lun] = "GPT_OK"
  /\ pc = "secondary" /\ stage = UPDATE_BACKUP =>
       secondary[lun] = "GPT_OK" /\ dirty \subseteq {"primary"}
  /\ pc \in {"primary", "secondary"} /\ stage = UPDATE_BACKUP => bootLun = "NORMAL_BOOT"
  /\ pc \in {"header", "entries", "secondary"} /\ stage = UPDATE_FINALIZE =>
       primary[lun] = "GPT_OK" /\ secondary[lun] = "GPT_BAD_SIGNATURE"
  /\ pc = "secondary" /\ stage = UPDATE_FINALIZE =>
       crc2[lun] = "NORMAL_BOOT" /\ entries2[lun] = "NORMAL_BOOT"
  /\ pc = "xbl" => stage # UPDATE_FINALIZE
  /\ pc \in {"header", "entries"} => stage # UPDATE_BACKUP
  /\ pc = "primary" => stage # UPDATE_FINALIZE
  /\ pc = "secondary" => stage # UPDATE_MAIN

\* What the device has in place of a page that is still to be written back.
PrimaryPending == "primary" \in dirty =>
  /\ stage # UPDATE_FINALIZE
  /\ stage = UPDATE_MAIN =>
       /\ pc = "sync" /\ primary[lun] = "GPT_BAD_SIGNATURE"
       /\ dev[lun].primary = "GPT_OK"
  /\ stage = UPDATE_BACKUP =>
       /\ primary[lun] = "GPT_OK" /\ bootLun = "NORMAL_BOOT"
       /\ dev[lun].primary = "GPT_BAD_SIGNATURE"
       /\ dev[lun].crc2 = "BACKUP_BOOT" /\ crc2[lun] = "BACKUP_BOOT"
       /\ dev[lun].entries2 = "BACKUP_BOOT" /\ "entries2" \notin dirty

Header2Pending == "header2" \in dirty =>
  /\ stage = UPDATE_MAIN => secondary[lun] = "GPT_OK" /\ dev[lun].secondary = "GPT_OK"
  /\ stage = UPDATE_BACKUP =>
       /\ pc = "sync" /\ bootLun = "NORMAL_BOOT"
       /\ secondary[lun] = "GPT_BAD_SIGNATURE" /\ dev[lun].secondary = "GPT_OK"
  /\ stage = UPDATE_FINALIZE => dev[lun].secondary = "GPT_BAD_SIGNATURE"

Pending ==
  /\ PrimaryPending /\ Header2Pending
  /\ "entries2" \in dirty => stage # UPDATE_BACKUP

\* What a stage without an error has done on a LUN.
Prepared(s, l) ==
  /\ s = UPDATE_MAIN => primary[l] = "GPT_BAD_SIGNATURE"
  /\ s = UPDATE_BACKUP => secondary[l] = "GPT_BAD_SIGNATURE" /\ primary[l] = "GPT_OK"
  /\ s = UPDATE_FINALIZE => /\ primary[l] = "GPT_OK" /\ secondary[l] = "GPT_OK"
                            /\ crc2[l] = "NORMAL_BOOT" /\ entries2[l] = "NORMAL_BOOT"

\* The LUNs the call is through with, but for their write-back, and the others.
Done(l) == l < lun \/ (l = lun /\ pc = "sync")

Loop ==
  /\ pc # "idle" => granted = NoStage
  /\ pc # "sync" => r = 0
  /\ pc # "idle" /\ isError = 0 /\ r = 0 =>
       /\ \A l \in Lun : Done(l) => Prepared(stage, l)
       /\ stage = UPDATE_FINALIZE
            /\ (\A l \in Lun : ~Done(l) => secondary[l] = "GPT_BAD_SIGNATURE")
            => bootLun = "NORMAL_BOOT"

Granted ==
  /\ granted # NoStage => \A l \in Lun : Prepared(granted, l)
  /\ granted = UPDATE_FINALIZE => bootLun = "NORMAL_BOOT"

IsTorn(c) == \E p \in Part : image[c][p] = "torn"

\* A chain with an image half written is used by nothing.
Torn ==
  /\ IsTorn("NORMAL_BOOT") => AllBad(primary)
  /\ IsTorn("BACKUP_BOOT") => AllBad(secondary)

\* The same of the tables that are on the device.
DevFollows ==
  /\ (\A l \in Lun : dev[l].secondary = "GPT_BAD_SIGNATURE") => bootLun = "NORMAL_BOOT"
  /\ IsTorn("NORMAL_BOOT") => \A l \in Lun : dev[l].primary = "GPT_BAD_SIGNATURE"
  /\ IsTorn("BACKUP_BOOT") => \A l \in Lun : dev[l].secondary = "GPT_BAD_SIGNATURE"

Sound == /\ Agree /\ BadPrimary /\ BootLunFollows /\ AtLun /\ Pending
         /\ Loop /\ Granted /\ Torn /\ DevFollows

IInv == TypeOK /\ CallsAllowed /\ Quiet /\ (past = {} => Sound)

-----------------------------------------------------------------------------
(* Type correctness. *)

\* Leaving a LUN goes to the next one or returns from the call.
LEMMA NextLunType ==
  ASSUME TypeOK, NextLun
  PROVE  /\ lun' \in Lun /\ pc' \in PC /\ isError' \in {0, 1} /\ r' \in {0, 1}
         /\ granted' \in Stage \cup {NoStage}
BY GptAssumption DEF TypeOK, NextLun, Lun, PC, NoStage

LEMMA AdvanceType ==
  ASSUME TypeOK, Advance
  PROVE  /\ pc' \in PC
         /\ UNCHANGED <<image, stage, lun, isError, r, granted, last, crashes>>
BY DEF Advance, After, PC

\* What a page of the cache puts on the device.
LEMMA LandedFields ==
  ASSUME TypeOK, NEW page \in Page, WriteBack(page)
  PROVE  /\ dev' \in [Lun -> [primary : GptState, secondary : GptState,
                              crc2 : Chain, entries2 : Entries]]
         /\ \A l \in Lun : l # lun => dev'[l] = dev[l]
         /\ dev'[lun].primary =
              IF page = "primary" THEN primary[lun] ELSE dev[lun].primary
         /\ dev'[lun].secondary =
              IF page = "header2" THEN secondary[lun] ELSE dev[lun].secondary
         /\ dev'[lun].crc2 =
              IF page = "header2" THEN crc2[lun] ELSE dev[lun].crc2
         /\ dev'[lun].entries2 =
              IF page = "entries2" THEN entries2[lun] ELSE dev[lun].entries2
<1>. DEFINE Table == [primary : GptState, secondary : GptState,
                      crc2 : Chain, entries2 : Entries]
<1>1. lun \in Lun /\ dev \in [Lun -> Table] /\ dev[lun] \in Table
  BY DEF TypeOK
<1>2. dev' = [dev EXCEPT ![lun] = Landed(page)]
  BY DEF WriteBack
<1>3. /\ primary[lun] \in GptState /\ secondary[lun] \in GptState
      /\ crc2[lun] \in Chain /\ entries2[lun] \in Entries
  BY DEF TypeOK
<1>4. /\ Landed(page) \in Table
      /\ Landed(page).primary =
           IF page = "primary" THEN primary[lun] ELSE dev[lun].primary
      /\ Landed(page).secondary =
           IF page = "header2" THEN secondary[lun] ELSE dev[lun].secondary
      /\ Landed(page).crc2 = IF page = "header2" THEN crc2[lun] ELSE dev[lun].crc2
      /\ Landed(page).entries2 =
           IF page = "entries2" THEN entries2[lun] ELSE dev[lun].entries2
  <2>1. CASE page = "primary"
    BY <1>1, <1>3, <2>1 DEF Landed
  <2>2. CASE page = "header2"
    BY <1>1, <1>3, <2>2 DEF Landed
  <2>3. CASE page = "entries2"
    BY <1>1, <1>3, <2>3 DEF Landed
  <2>. QED BY <2>1, <2>2, <2>3 DEF Page
<1>. QED BY <1>1, <1>2, <1>4

LEMMA PartFields ==
  ASSUME TypeOK, WriteBackPart
  PROVE  /\ dev' \in [Lun -> [primary : GptState, secondary : GptState,
                              crc2 : Chain, entries2 : Entries]]
         /\ \A l \in Lun : l # lun => dev'[l] = dev[l]
         /\ dev'[lun].primary = dev[lun].primary
         /\ dev'[lun].secondary = dev[lun].secondary
         /\ dev'[lun].crc2 = dev[lun].crc2
         /\ dev'[lun].entries2 = "torn"
<1>. DEFINE Table == [primary : GptState, secondary : GptState,
                      crc2 : Chain, entries2 : Entries]
           New == [dev[lun] EXCEPT !.entries2 = "torn"]
<1>1. lun \in Lun /\ dev \in [Lun -> Table] /\ dev[lun] \in Table
  BY DEF TypeOK
<1>2. dev' = [dev EXCEPT ![lun] = New]
  BY DEF WriteBackPart
<1>3. /\ New \in Table /\ New.primary = dev[lun].primary
      /\ New.secondary = dev[lun].secondary /\ New.crc2 = dev[lun].crc2
      /\ New.entries2 = "torn"
  BY <1>1 DEF Entries
<1>. QED BY <1>1, <1>2, <1>3

\* Every step keeps the variables' types.
LEMMA TypeStep ==
  ASSUME TypeOK, [Next]_vars
  PROVE  TypeOK'
<1>1. ASSUME NEW s \in Stage, prepare_boot_update(s) PROVE TypeOK'
  BY <1>1, GptAssumption DEF TypeOK, prepare_boot_update, disk, cache, Lun, PC
<1>2. ASSUME NEW c \in Chain, NEW p \in Part, WriteImage(c, p) PROVE TypeOK'
  <2>1. image' \in [Chain -> [Part -> {"old", "torn", "new"}]]
    <3>1. PICK v \in {"torn", "new"} : image' = [image EXCEPT ![c][p] = v]
      BY <1>2 DEF WriteImage
    <3>. QED BY <3>1 DEF TypeOK
  <2>. QED BY <1>2, <2>1 DEF TypeOK, WriteImage, disk, cache, call
<1>3. CASE Open
  BY <1>3 DEF Open, TypeOK, disk, cache, PC
<1>4. CASE SetXblBootPartition
  BY <1>4, AdvanceType DEF SetXblBootPartition, TypeOK, Chain, cache
<1>5. CASE WriteHeader
  BY <1>5, AdvanceType DEF WriteHeader, Taken, TypeOK, Chain, boot, Page
<1>6. CASE WriteEntries
  BY <1>6, AdvanceType DEF WriteEntries, Taken, TypeOK, Chain, Entries, boot, Page
<1>7. CASE SetPrimaryState
  BY <1>7, AdvanceType DEF SetPrimaryState, Taken, TypeOK, GptState, Page
<1>8. CASE SetSecondaryState
  BY <1>8, AdvanceType DEF SetSecondaryState, Taken, TypeOK, GptState, Page
<1>9. ASSUME NEW page \in Page, WriteBack(page) PROVE TypeOK'
  <2>1. dev' \in [Lun -> [primary : GptState, secondary : GptState,
                          crc2 : Chain, entries2 : Entries]]
    BY <1>9, LandedFields
  <2>. QED BY <1>9, <2>1 DEF WriteBack, TypeOK, cache, call
<1>10. CASE WriteBackPart
  <2>1. dev' \in [Lun -> [primary : GptState, secondary : GptState,
                          crc2 : Chain, entries2 : Entries]]
    BY <1>10, PartFields
  <2>. QED BY <1>10, <2>1 DEF WriteBackPart, TypeOK, cache, call
<1>11. CASE Sync
  BY <1>11, NextLunType DEF Sync, TypeOK, disk, cache
<1>12. ASSUME Failure PROVE TypeOK'
  <2>1. failures < MaxFailures /\ failures' = failures + 1
    BY <1>12 DEF Failure, ShortWrite, Fail, WriteBackFails
  <2>2. failures' \in 0 .. MaxFailures
    BY <2>1, GptAssumption DEF TypeOK
  <2>3. CASE ShortWrite
    BY <2>2, <2>3, AdvanceType DEF ShortWrite, MayTear, TypeOK, Entries, Page, Trouble
  <2>4. CASE Fail
    BY <2>2, <2>4 DEF Fail, MayTear, TypeOK, Entries, Page, PC
  <2>5. ASSUME NEW page \in Page, WriteBackFails(page) PROVE TypeOK'
    BY <2>2, <2>5 DEF WriteBackFails, TypeOK, cache, call, Trouble
  <2>. QED BY <1>12, <2>3, <2>4, <2>5 DEF Failure
<1>13. CASE Crash
  <2>1. /\ primary' \in [Lun -> GptState] /\ secondary' \in [Lun -> GptState]
        /\ crc2' \in [Lun -> Chain] /\ entries2' \in [Lun -> Entries]
    BY <1>13 DEF Crash, TypeOK
  <2>2. crashes' \in 0 .. MaxCrashes /\ lun' \in Lun
    BY <1>13, GptAssumption DEF Crash, TypeOK, Lun
  <2>. QED BY <1>13, <2>1, <2>2 DEF Crash, TypeOK, Stage, PC, Page, Trouble
<1>14. CASE UNCHANGED vars
  BY <1>14 DEF vars, disk, cache, call, TypeOK
<1>. QED
  BY <1>1, <1>2, <1>3, <1>4, <1>5, <1>6, <1>7, <1>8, <1>9, <1>10, <1>11, <1>12,
     <1>13, <1>14
     DEF Next, Step, Write

\* The headers, the entries, the boot LUN, the images and the call keep their
\* types for every number of LUNs.
THEOREM TypeCorrect == Spec => []TypeOK
<1>1. Init => TypeOK
  BY GptAssumption DEF Init, TypeOK, GptState, Chain, Entries, Lun, Stage, PC, UPDATE_MAIN
<1>2. TypeOK /\ [Next]_vars => TypeOK'
  BY TypeStep
<1>. QED BY <1>1, <1>2, PTL DEF Spec

-----------------------------------------------------------------------------
(* The inductive invariant. *)

USE DEF UPDATE_MAIN, UPDATE_BACKUP, UPDATE_FINALIZE, NoStage

\* A step of a call is taken inside it and leaves the images and the stage alone.
CallStep == Open \/ Write \/ Fail \/ ShortWrite \/ Sync

\* A step of the kernel or the device.
DevStep == \/ \E page \in Page : WriteBack(page) \/ WriteBackFails(page)
           \/ WriteBackPart

LEMMA CallStepFrame ==
  ASSUME CallStep
  PROVE  pc # "idle" /\ UNCHANGED <<image, stage, last>>
BY DEF CallStep, Write, Open, SetXblBootPartition, WriteHeader, WriteEntries,
       SetPrimaryState, SetSecondaryState, Taken, Fail, ShortWrite, Sync, Advance

LEMMA DevStepFrame ==
  ASSUME DevStep
  PROVE  UNCHANGED <<primary, secondary, crc2, entries2, bootLun, image, stage,
                     lun, pc, isError, r, granted, last>>
         /\ dirty' \subseteq dirty
BY DEF DevStep, WriteBack, WriteBackFails, WriteBackPart, cache, call

\* A step outside the calls leaves the device alone; so do opening a LUN and
\* leaving it.
LEMMA DiskFrame ==
  ASSUME NEW s \in Stage, NEW c \in Chain, NEW p \in Part,
         prepare_boot_update(s) \/ WriteImage(c, p) \/ Open \/ Sync
  PROVE  UNCHANGED <<primary, secondary, crc2, entries2, dev, dirty, bootLun>>
BY DEF prepare_boot_update, WriteImage, Open, Sync, disk, cache

LEMMA StepCases ==
  ASSUME Next
  PROVE  \/ \E s \in Stage : prepare_boot_update(s)
         \/ \E c \in Chain, p \in Part : WriteImage(c, p)
         \/ CallStep
         \/ DevStep
         \/ Crash
BY DEF Next, Step, Failure, CallStep, DevStep

\* The steps that leave no trouble behind.
SoundCallStep == Open \/ Write \/ Fail \/ Sync
SoundDevStep == (\E page \in Page : WriteBack(page)) \/ WriteBackPart

LEMMA SoundCases ==
  ASSUME Next, past' = {}
  PROVE  /\ past = {}
         /\ \/ \E s \in Stage : prepare_boot_update(s)
            \/ \E c \in Chain, p \in Part : WriteImage(c, p)
            \/ SoundCallStep
            \/ SoundDevStep
            \/ Crash /\ ~Overtaken
<1>1. ~ShortWrite /\ (\A page \in Page : ~WriteBackFails(page))
  BY DEF ShortWrite, WriteBackFails
<1>2. Crash => past = {} /\ ~Overtaken
  BY DEF Crash
<1>3. ~Crash => past = {}
  BY <1>1 DEF Next, Step, Failure, Write, prepare_boot_update, WriteImage, Open,
     SetXblBootPartition, WriteHeader, WriteEntries, SetPrimaryState,
     SetSecondaryState, Taken, Fail, Sync, WriteBack, WriteBackPart
<1>. QED
  BY <1>1, <1>2, <1>3 DEF Next, Step, Failure, SoundCallStep, SoundDevStep

\* An image that was whole stays whole.
LEMMA WrittenStays ==
  ASSUME TypeOK, Next, NEW c \in Chain, Written(c)
  PROVE  Written(c)'
<1>1. ASSUME NEW d \in Chain, NEW p \in Part, WriteImage(d, p) PROVE Written(c)'
  <2>1. PICK v \in {"torn", "new"} : image' = [image EXCEPT ![d][p] = v]
    BY <1>1 DEF WriteImage
  <2>2. image[d][p] # "new"
    BY <1>1 DEF WriteImage
  <2>3. d # c
    BY <2>2 DEF Written
  <2>. QED BY <2>1, <2>3 DEF Written, TypeOK
<1>2. CASE image' = image
  BY <1>2 DEF Written
<1>. QED
  BY <1>1, <1>2, StepCases, CallStepFrame, DevStepFrame
  DEF prepare_boot_update, Crash

LEMMA CallsAllowedStep ==
  ASSUME IInv, Next
  PROVE  CallsAllowed'
<1>1. ASSUME NEW s \in Stage, prepare_boot_update(s) PROVE CallsAllowed'
  BY <1>1 DEF prepare_boot_update, CallsAllowed, Allowed, Written
<1>2. ASSUME NEW c \in Chain, NEW p \in Part, WriteImage(c, p) PROVE CallsAllowed'
  BY <1>2 DEF WriteImage, call, CallsAllowed
<1>3. CASE CallStep \/ DevStep
  BY <1>3, CallStepFrame, DevStepFrame DEF CallsAllowed, Allowed, Written, IInv
<1>4. CASE Crash
  BY <1>4 DEF Crash, CallsAllowed
<1>. QED BY <1>1, <1>2, <1>3, <1>4, StepCases

\* Every LUN is left with nothing to be written back.
LEMMA QuietStep ==
  ASSUME IInv, Next
  PROVE  Quiet'
<1>. USE DEF IInv, Quiet
<1>1. ASSUME NEW s \in Stage, prepare_boot_update(s) PROVE Quiet'
  BY <1>1 DEF prepare_boot_update, disk
<1>2. ASSUME NEW c \in Chain, NEW p \in Part, WriteImage(c, p) PROVE Quiet'
  BY <1>2 DEF WriteImage, disk, call
<1>3. CASE Open \/ Sync
  BY <1>3 DEF Open, Sync, disk
<1>4. CASE SetXblBootPartition
  BY <1>4 DEF SetXblBootPartition
<1>5. CASE pc' \notin {"idle", "open", "xbl", "header"}
  BY <1>5
<1>6. CASE WriteHeader \/ WriteEntries \/ SetPrimaryState \/ SetSecondaryState \/ ShortWrite
  <2>1. pc \in {"header", "entries", "primary", "secondary"} /\ pc' = After(pc)
    BY <1>6 DEF WriteHeader, WriteEntries, SetPrimaryState, SetSecondaryState,
                Taken, ShortWrite, Advance
  <2>. QED BY <1>5, <2>1 DEF After
<1>7. CASE Fail
  BY <1>5, <1>7 DEF Fail
<1>8. CASE DevStep
  BY <1>8, DevStepFrame
<1>9. CASE Crash
  BY <1>9 DEF Crash
<1>. QED
  BY <1>1, <1>2, <1>3, <1>4, <1>6, <1>7, <1>8, <1>9, StepCases DEF CallStep, Write

Good == TypeOK /\ CallsAllowed /\ Quiet /\ Sound

LEMMA AgreeStep ==
  ASSUME Good, Next, past' = {}
  PROVE  Agree'
<1>. USE DEF Good, Sound, Agree, TypeOK
<1>1. ASSUME NEW s \in Stage, prepare_boot_update(s) PROVE Agree'
  BY <1>1 DEF prepare_boot_update, Quiet, disk, cache
<1>2. ASSUME NEW c \in Chain, NEW p \in Part, WriteImage(c, p) PROVE Agree'
  BY <1>2 DEF WriteImage, disk, cache, call
<1>3. CASE Open
  BY <1>3 DEF Open, disk, cache
<1>4. CASE Sync
  BY <1>4 DEF Sync, disk, cache
<1>5. CASE SetXblBootPartition
  BY <1>5 DEF SetXblBootPartition, Advance, cache
<1>6. CASE WriteHeader
  BY <1>6 DEF WriteHeader, Taken, Advance
<1>7. CASE WriteEntries
  BY <1>7 DEF WriteEntries, Taken, Advance
<1>8. CASE SetPrimaryState
  BY <1>8 DEF SetPrimaryState, Taken, Advance
<1>9. CASE SetSecondaryState
  BY <1>9 DEF SetSecondaryState, Taken, Advance
<1>10. CASE Fail
  BY <1>10 DEF Fail, MayTear
<1>11. ASSUME NEW page \in Page, WriteBack(page) PROVE Agree'
  <2>1. /\ UNCHANGED <<primary, secondary, crc2, entries2, lun>>
        /\ dirty' = dirty \ {page}
    BY <1>11 DEF WriteBack, cache, call
  <2>2. ASSUME NEW l \in Lun, l # lun PROVE dev'[l] = dev[l]
    BY <1>11, <2>2, LandedFields
  <2>. QED BY <1>11, <2>1, <2>2, LandedFields DEF Page
<1>12. CASE WriteBackPart
  <2>1. UNCHANGED <<primary, secondary, crc2, entries2, lun, dirty>> /\ "entries2" \in dirty
    BY <1>12 DEF WriteBackPart, cache, call
  <2>2. ASSUME NEW l \in Lun, l # lun PROVE dev'[l] = dev[l]
    BY <1>12, <2>2, PartFields
  <2>. QED BY <1>12, <2>1, <2>2, PartFields
<1>13. CASE Crash
  BY <1>13 DEF Crash
<1>. QED
  BY <1>1, <1>2, <1>3, <1>4, <1>5, <1>6, <1>7, <1>8, <1>9, <1>10, <1>11, <1>12,
     <1>13, SoundCases
     DEF SoundCallStep, SoundDevStep, Write

\* A restart finds the other table whole where a header is corrupted.
LEMMA BadOnDevice ==
  ASSUME Good, ~Overtaken, NEW l \in Lun, dev[l].primary = "GPT_BAD_SIGNATURE"
  PROVE  /\ dev[l].secondary = "GPT_OK"
         /\ dev[l].crc2 = "BACKUP_BOOT" /\ dev[l].entries2 = "BACKUP_BOOT"
<1>. USE DEF Good, Sound, Agree, BadPrimary, Overtaken, TypeOK
<1>1. CASE l # lun
  BY <1>1
<1>2. CASE l = lun /\ "primary" \notin dirty
  <2>1. dirty = {}
    BY <1>2 DEF Page
  <2>. QED BY <1>2, <2>1
<1>3. CASE l = lun /\ "primary" \in dirty
  <2>1. stage = UPDATE_BACKUP
    BY <1>3 DEF Pending, PrimaryPending, Stage
  <2>2. dev[lun].crc2 = "BACKUP_BOOT" /\ dev[lun].entries2 = "BACKUP_BOOT"
    BY <1>3, <2>1 DEF Pending, PrimaryPending
  <2>3. CASE "header2" \in dirty
    BY <1>3, <2>1, <2>2, <2>3 DEF Pending, Header2Pending
  <2>4. CASE "header2" \notin dirty
    <3>1. dev[lun].secondary \in GptState
      OBVIOUS
    <3>. QED BY <1>3, <2>2, <2>4, <3>1 DEF GptState
  <2>. QED BY <2>3, <2>4
<1>. QED BY <1>1, <1>2, <1>3

LEMMA BadPrimaryStep ==
  ASSUME Good, Next, past' = {}
  PROVE  BadPrimary'
<1>. USE DEF Good, Sound, TypeOK, GptState, BadPrimary, AtLun, boot
<1>1. CASE UNCHANGED <<primary, secondary, crc2, entries2>>
  BY <1>1
<1>2. CASE WriteHeader
  <2>1. primary[lun] = "GPT_OK"
    BY <1>2 DEF WriteHeader, Stage
  <2>. QED BY <1>2, <2>1 DEF WriteHeader
<1>3. CASE WriteEntries
  BY <1>3 DEF WriteEntries
<1>4. CASE SetPrimaryState
  BY <1>4 DEF SetPrimaryState
<1>5. CASE SetSecondaryState
  BY <1>5 DEF SetSecondaryState
<1>6. CASE Fail
  <2>1. MayTear /\ UNCHANGED <<primary, secondary, crc2>>
    BY <1>6 DEF Fail
  <2>2. CASE entries2' = entries2
    BY <2>1, <2>2, <1>1
  <2>3. CASE pc = "entries" /\ entries2' = [entries2 EXCEPT ![lun] = "torn"]
    BY <2>1, <2>3
  <2>4. QED
    BY <2>1, <2>2, <2>3 DEF MayTear
<1>7. CASE Crash /\ ~Overtaken
  <2>1. \A l \in Lun : /\ primary'[l] = dev[l].primary
                       /\ secondary'[l] = dev[l].secondary
                       /\ crc2'[l] = dev[l].crc2
                       /\ entries2'[l] = dev[l].entries2
    BY <1>7 DEF Crash
  <2>. QED BY <1>7, <2>1, BadOnDevice
<1>8. CASE SetXblBootPartition
  BY <1>1, <1>8 DEF SetXblBootPartition, cache
<1>. QED
  BY <1>1, <1>2, <1>3, <1>4, <1>5, <1>6, <1>7, <1>8, SoundCases, DiskFrame, DevStepFrame
  DEF SoundCallStep, SoundDevStep, DevStep, Write, Chain, Stage, Part

\* While a normal image is to be written only UPDATE_MAIN is called.
LEMMA OnlyMain ==
  ASSUME Good, pc # "idle", ~Written("NORMAL_BOOT")
  PROVE  stage = UPDATE_MAIN
BY DEF Good, CallsAllowed, Allowed, TypeOK, Stage

\* A page is still to be written back only during a call.
LEMMA DirtyInCall ==
  ASSUME Good, dirty # {}
  PROVE  pc # "idle"
BY DEF Good, Quiet

\* While normal images are to be written, the device has every secondary header
\* valid, and XBL on the backup chain with any LUN there.
LEMMA UnwrittenOnDevice ==
  ASSUME Good, ~Written("NORMAL_BOOT"), NEW l \in Lun
  PROVE  /\ dev[l].secondary = "GPT_OK"
         /\ dev[l].primary = "GPT_BAD_SIGNATURE" => bootLun = "BACKUP_BOOT"
<1>. USE DEF Good, Sound, Agree, BootLunFollows
<1>1. dirty # {} => stage = UPDATE_MAIN
  BY OnlyMain, DirtyInCall
<1>2. dev[l].secondary = "GPT_OK"
  BY <1>1 DEF Pending, Header2Pending
<1>3. ASSUME dev[l].primary = "GPT_BAD_SIGNATURE" PROVE bootLun = "BACKUP_BOOT"
  BY <1>1, <1>3 DEF Pending, PrimaryPending
<1>. QED BY <1>2, <1>3

LEMMA BootLunFollowsStep ==
  ASSUME Good, Next, past' = {}
  PROVE  BootLunFollows'
<1>. USE DEF Good, Sound, TypeOK, GptState, BootLunFollows, AllBad, AtLun
<1>1. ~Written("NORMAL_BOOT")' => ~Written("NORMAL_BOOT")
  BY WrittenStays DEF Chain
<1>2. CASE UNCHANGED <<primary, secondary, bootLun>>
  BY <1>1, <1>2
<1>3. CASE SetXblBootPartition
  BY <1>1, <1>3, OnlyMain DEF SetXblBootPartition, Stage, cache
<1>4. CASE SetPrimaryState
  BY <1>1, <1>4, OnlyMain DEF SetPrimaryState
<1>5. CASE SetSecondaryState
  BY <1>1, <1>5, OnlyMain DEF SetSecondaryState, Stage
<1>6. CASE Crash
  <2>1. /\ bootLun' = bootLun
        /\ \A l \in Lun : primary'[l] = dev[l].primary /\ secondary'[l] = dev[l].secondary
    BY <1>6 DEF Crash
  <2>. QED BY <1>1, <2>1, UnwrittenOnDevice DEF DevFollows
<1>7. CASE WriteHeader \/ WriteEntries \/ Fail
  BY <1>2, <1>7 DEF WriteHeader, WriteEntries, Fail
<1>. QED
  BY <1>2, <1>3, <1>4, <1>5, <1>6, <1>7, SoundCases, DiskFrame, DevStepFrame
  DEF SoundCallStep, SoundDevStep, DevStep, Write, Chain, Stage, Part

LEMMA AtLunStep ==
  ASSUME Good, Next, past' = {}
  PROVE  AtLun'
<1>. USE DEF Good, Sound, TypeOK, GptState, AtLun, boot
<1>1. ~Written("NORMAL_BOOT")' => ~Written("NORMAL_BOOT")
  BY WrittenStays DEF Chain
<1>2. CASE pc' \in {"idle", "open", "sync"}
  BY <1>2
<1>3. CASE Open
  <2>1. CASE pc' \notin {"idle", "open", "sync"}
    <3>1. /\ stage = internal_stage(lun)
          /\ pc' = (IF stage = UPDATE_FINALIZE THEN "header" ELSE "xbl")
          /\ UNCHANGED <<lun, primary, secondary, stage, dirty>>
      BY <1>3, <2>1 DEF Open, disk, cache
    <3>2. primary[lun] \in GptState /\ secondary[lun] \in GptState /\ dirty = {}
      BY <1>3 DEF Open, Quiet
    <3>. QED BY <3>1, <3>2 DEF internal_stage
  <2>. QED BY <1>2, <2>1
<1>4. CASE SetXblBootPartition
  <2>1. /\ UNCHANGED <<primary, secondary, crc2, entries2, dirty, stage, lun>>
        /\ pc = "xbl" /\ dirty = {}
        /\ pc' = IF stage = UPDATE_MAIN THEN "header" ELSE "primary"
    BY <1>4 DEF SetXblBootPartition, Advance, After, Quiet, cache
  <2>. QED BY <1>1, <1>4, <2>1 DEF SetXblBootPartition, Stage
<1>5. CASE WriteHeader
  BY <1>1, <1>2, <1>5 DEF WriteHeader, Taken, Advance, After, Stage
<1>6. CASE WriteEntries
  BY <1>1, <1>2, <1>6 DEF WriteEntries, Taken, Advance, After, Stage
<1>7. CASE SetPrimaryState
  <2>1. CASE stage = UPDATE_MAIN
    BY <1>2, <1>7, <2>1 DEF SetPrimaryState, Taken, Advance, After
  <2>2. CASE stage = UPDATE_BACKUP
    BY <1>7, <2>2 DEF SetPrimaryState, Taken, Advance, After, BadPrimary
  <2>. QED BY <1>7, <2>1, <2>2 DEF SetPrimaryState, Stage
<1>8. CASE SetSecondaryState
  BY <1>2, <1>8 DEF SetSecondaryState, Taken, Advance, After
<1>9. CASE Fail \/ Crash
  BY <1>2, <1>9 DEF Fail, Crash
<1>10. ASSUME NEW s \in Stage, prepare_boot_update(s) PROVE AtLun'
  BY <1>2, <1>10 DEF prepare_boot_update
<1>11. ASSUME NEW c \in Chain, NEW p \in Part, WriteImage(c, p) PROVE AtLun'
  BY <1>2, <1>11 DEF WriteImage, call
<1>12. CASE Sync
  BY <1>2, <1>12 DEF Sync, NextLun
<1>13. CASE SoundDevStep
  <2>1. /\ UNCHANGED <<primary, secondary, crc2, entries2, bootLun, stage, lun, pc>>
        /\ dirty' \subseteq dirty
    BY <1>13, DevStepFrame DEF SoundDevStep, DevStep
  <2>. QED BY <1>1, <2>1
<1>. QED
  BY <1>3, <1>4, <1>5, <1>6, <1>7, <1>8, <1>9, <1>10, <1>11, <1>12, <1>13, SoundCases
  DEF SoundCallStep, Write

LEMMA PendingStep ==
  ASSUME Good, Next, past' = {}
  PROVE  Pending'
<1>. USE DEF Good, Sound, TypeOK, GptState, Pending, PrimaryPending, Header2Pending
<1>1. CASE dirty' = {}
  BY <1>1
<1>2. CASE WriteHeader
  <2>1. /\ dirty' = {"header2"} /\ stage \in {UPDATE_MAIN, UPDATE_FINALIZE}
        /\ UNCHANGED <<primary, secondary, dev, stage, lun>>
        /\ dev[lun].secondary = secondary[lun] /\ pc = "header"
    BY <1>2 DEF WriteHeader, Taken, Advance, Quiet, Agree, AtLun, Stage
  <2>. QED BY <2>1 DEF AtLun
<1>3. CASE WriteEntries
  <2>1. /\ dirty' = dirty \cup {"entries2"} /\ stage \in {UPDATE_MAIN, UPDATE_FINALIZE}
        /\ UNCHANGED <<primary, secondary, crc2, dev, stage, lun>> /\ pc = "entries"
    BY <1>3 DEF WriteEntries, Taken, Advance, AtLun, Stage
  <2>. QED BY <2>1
<1>4. CASE SetPrimaryState
  <2>1. /\ dirty' = dirty \cup {"primary"} /\ pc = "primary"
        /\ UNCHANGED <<secondary, crc2, entries2, dev, stage, lun, bootLun>>
        /\ primary'[lun] = IF stage = UPDATE_MAIN THEN "GPT_BAD_SIGNATURE" ELSE "GPT_OK"
    BY <1>4 DEF SetPrimaryState, Taken, Advance
  <2>2. CASE stage = UPDATE_MAIN
    <3>1. pc' = "sync" /\ "primary" \notin dirty /\ dev[lun].primary = "GPT_OK"
      BY <1>4, <2>1, <2>2 DEF SetPrimaryState, Taken, Advance, After, Agree, AtLun
    <3>. QED BY <2>1, <2>2, <3>1
  <2>3. CASE stage = UPDATE_BACKUP
    <3>1. /\ dirty = {} /\ bootLun = "NORMAL_BOOT"
          /\ primary[lun] = "GPT_BAD_SIGNATURE"
          /\ crc2[lun] = "BACKUP_BOOT" /\ entries2[lun] = "BACKUP_BOOT"
      BY <2>1, <2>3 DEF AtLun, BadPrimary
    <3>. QED BY <2>1, <2>3, <3>1 DEF Agree
  <2>. QED BY <2>1, <2>2, <2>3 DEF AtLun, Stage
<1>5. CASE SetSecondaryState
  <2>1. /\ dirty' = dirty \cup {"header2"} /\ pc = "secondary" /\ pc' = "sync"
        /\ UNCHANGED <<primary, crc2, entries2, dev, stage, lun, bootLun>>
        /\ secondary'[lun] = IF stage = UPDATE_BACKUP THEN "GPT_BAD_SIGNATURE" ELSE "GPT_OK"
    BY <1>5 DEF SetSecondaryState, Taken, Advance, After
  <2>2. CASE stage = UPDATE_BACKUP
    <3>1. "header2" \notin dirty /\ dev[lun].secondary = "GPT_OK" /\ bootLun = "NORMAL_BOOT"
      BY <2>1, <2>2 DEF AtLun, Agree
    <3>. QED BY <2>1, <2>2, <3>1
  <2>3. CASE stage = UPDATE_FINALIZE
    <3>1. dev[lun].secondary = "GPT_BAD_SIGNATURE"
      BY <2>1, <2>3 DEF AtLun, Agree
    <3>. QED BY <2>1, <2>3, <3>1
  <2>. QED BY <2>1, <2>2, <2>3 DEF AtLun, Stage
<1>6. CASE Fail
  <2>1. /\ UNCHANGED <<primary, secondary, crc2, dev, stage, lun, bootLun>>
        /\ pc # "sync" /\ MayTear
    BY <1>6 DEF Fail
  <2>2. CASE UNCHANGED <<entries2, dirty>>
    BY <2>1, <2>2
  <2>3. CASE pc = "entries" /\ dirty' = dirty \cup {"entries2"}
    BY <2>1, <2>3 DEF AtLun
  <2>. QED BY <2>1, <2>2, <2>3 DEF MayTear
<1>7. ASSUME NEW page \in Page, WriteBack(page) PROVE Pending'
  <2>1. /\ UNCHANGED <<primary, secondary, crc2, entries2, bootLun, stage, lun, pc>>
        /\ dirty' = dirty \ {page}
    BY <1>7 DEF WriteBack, cache, call
  <2>2. CASE page = "primary"
    <3>1. /\ dev'[lun].secondary = dev[lun].secondary
          /\ "primary" \notin dirty'
      BY <1>7, <2>1, <2>2, LandedFields
    <3>. QED BY <2>1, <3>1
  <2>3. CASE page = "header2"
    <3>1. /\ dev'[lun].primary = dev[lun].primary
          /\ dev'[lun].entries2 = dev[lun].entries2
          /\ dev'[lun].crc2 = crc2[lun]
          /\ "header2" \notin dirty'
      BY <1>7, <2>1, <2>3, LandedFields
    <3>. QED BY <2>1, <3>1
  <2>4. CASE page = "entries2"
    <3>1. /\ dev'[lun].primary = dev[lun].primary
          /\ dev'[lun].secondary = dev[lun].secondary
          /\ dev'[lun].crc2 = dev[lun].crc2
          /\ "entries2" \in dirty
      BY <1>7, <2>4, LandedFields DEF WriteBack
    <3>. QED BY <2>1, <3>1
  <2>. QED BY <2>2, <2>3, <2>4 DEF Page
<1>8. CASE WriteBackPart
  <2>1. /\ UNCHANGED <<primary, secondary, crc2, entries2, bootLun, stage, lun, pc, dirty>>
        /\ "entries2" \in dirty
    BY <1>8 DEF WriteBackPart, cache, call
  <2>. QED BY <1>8, <2>1, PartFields
<1>9. CASE Crash
  BY <1>1, <1>9 DEF Crash
<1>10. CASE pc \in {"idle", "open", "xbl"} /\ dirty' = dirty
  BY <1>1, <1>10 DEF Quiet
<1>11. ASSUME NEW s \in Stage, prepare_boot_update(s) PROVE Pending'
  BY <1>10, <1>11 DEF prepare_boot_update, disk
<1>12. ASSUME NEW c \in Chain, NEW p \in Part, WriteImage(c, p) PROVE Pending'
  BY <1>10, <1>12 DEF WriteImage, disk
<1>13. CASE Open
  BY <1>10, <1>13 DEF Open, disk
<1>14. CASE SetXblBootPartition
  BY <1>10, <1>14 DEF SetXblBootPartition
<1>15. CASE Sync
  BY <1>1, <1>15 DEF Sync, disk
<1>. QED
  BY <1>2, <1>3, <1>4, <1>5, <1>6, <1>7, <1>8, <1>9, <1>11, <1>12, <1>13, <1>14,
     <1>15, SoundCases
  DEF SoundCallStep, SoundDevStep, Write

\* A step on a LUN leaves the other LUNs alone.
LEMMA OtherLuns ==
  ASSUME TypeOK, SoundCallStep, NEW l \in Lun, l # lun
  PROVE  /\ \A s \in Stage : Prepared(s, l) => Prepared(s, l)'
         /\ secondary'[l] = secondary[l]
<1>1. CASE Fail
  BY <1>1 DEF Fail, MayTear, TypeOK, Prepared
<1>2. CASE Open \/ Sync \/ SetXblBootPartition
  BY <1>2 DEF Open, Sync, SetXblBootPartition, disk, cache, Prepared
<1>3. CASE WriteHeader \/ WriteEntries
  BY <1>3 DEF WriteHeader, WriteEntries, TypeOK, Prepared
<1>4. CASE SetPrimaryState \/ SetSecondaryState
  BY <1>4 DEF SetPrimaryState, SetSecondaryState, TypeOK, Prepared
<1>. QED BY <1>1, <1>2, <1>3, <1>4 DEF SoundCallStep, Write

\* A LUN whose writes are through without an error is prepared.
LEMMA LunPrepared ==
  ASSUME Good, Open \/ Write, pc' = "sync", r' = 0
  PROVE  /\ Prepared(stage, lun)'
         /\ stage = UPDATE_FINALIZE => secondary[lun] = "GPT_BAD_SIGNATURE" /\ bootLun' = bootLun
<1>. USE DEF Good, Sound, TypeOK, GptState, AtLun, Stage
<1>1. CASE Open
  <2>1. stage = internal_stage(lun) - 1
    BY <1>1 DEF Open
  <2>2. UNCHANGED <<primary, secondary, stage, lun>> /\ ~BothBad(lun)
    BY <1>1 DEF Open, disk, cache
  <2>3. Prepared(stage, lun) /\ stage # UPDATE_FINALIZE
    BY <2>1, <2>2 DEF internal_stage, BothBad, Prepared
  <2>. QED BY <2>2, <2>3 DEF Prepared
<1>2. CASE SetPrimaryState
  BY <1>2 DEF SetPrimaryState, Taken, Advance, After, Prepared
<1>3. CASE SetSecondaryState
  BY <1>3 DEF SetSecondaryState, Taken, Advance, Prepared
<1>4. CASE SetXblBootPartition \/ WriteHeader \/ WriteEntries
  BY <1>4 DEF SetXblBootPartition, WriteHeader, WriteEntries, Taken, Advance, After
<1>. QED BY <1>1, <1>2, <1>3, <1>4 DEF Write

\* A step on a LUN leaves the call where it is; XBL is switched in the first two
\* stages only, and the last stage's LUNs are left to prepare until it is done.
LEMMA InsideLun ==
  ASSUME Good, Open \/ Write
  PROVE  /\ UNCHANGED <<stage, lun, isError, granted>>
         /\ pc # "sync" /\ pc' # "idle"
         /\ pc' # "sync" => r' = r /\ secondary' = secondary
         /\ stage = UPDATE_FINALIZE => bootLun' = bootLun
<1>. USE DEF Good, Sound, TypeOK, AtLun, Stage
<1>1. CASE Open
  BY <1>1 DEF Open, disk, cache
<1>2. CASE SetXblBootPartition \/ WriteHeader \/ WriteEntries \/ SetPrimaryState
  BY <1>2 DEF SetXblBootPartition, WriteHeader, WriteEntries, SetPrimaryState,
              Taken, Advance, After, cache
<1>3. CASE SetSecondaryState
  BY <1>3 DEF SetSecondaryState, Taken, Advance, After
<1>. QED BY <1>1, <1>2, <1>3 DEF Write

LEMMA LoopStep ==
  ASSUME Good, Next, past' = {}
  PROVE  Loop'
<1>. USE DEF Good, Sound, Loop
<1>1. ASSUME NEW s \in Stage, prepare_boot_update(s) PROVE Loop'
  <2>1. \A l \in Lun : ~Done(l)'
    BY <1>1, GptAssumption DEF prepare_boot_update, Done, Lun
  <2>. QED BY <1>1, <2>1 DEF prepare_boot_update, disk, cache, BootLunFollows, AllBad
<1>2. ASSUME NEW c \in Chain, NEW p \in Part, WriteImage(c, p) PROVE Loop'
  BY <1>2 DEF WriteImage, call
<1>3. CASE Fail \/ Crash
  BY <1>3 DEF Fail, Crash
<1>4. CASE Open \/ Write
  <2>1. /\ UNCHANGED <<stage, lun, isError, granted>> /\ pc # "idle" /\ pc # "sync"
        /\ stage \in Stage /\ lun \in Lun /\ pc' # "idle" /\ r = 0
        /\ pc' # "sync" => r' = 0
    BY <1>4, InsideLun, CallStepFrame DEF CallStep, TypeOK
  <2>2. ASSUME isError = 0, r' = 0, NEW l \in Lun, Done(l)' PROVE Prepared(stage, l)'
    <3>1. CASE l = lun
      <4>1. pc' = "sync"
        BY <2>1, <2>2, <3>1 DEF Done, Lun
      <4>. QED BY <1>4, <2>1, <2>2, <3>1, <4>1, LunPrepared DEF Prepared
    <3>2. CASE l # lun
      <4>1. Done(l) /\ Prepared(stage, l)
        BY <2>1, <2>2, <3>2 DEF Done
      <4>. QED BY <1>4, <2>1, <3>2, <4>1, OtherLuns DEF SoundCallStep, Prepared
    <3>. QED BY <3>1, <3>2
  <2>3. ASSUME isError = 0, r' = 0, stage = UPDATE_FINALIZE,
               \A l \in Lun : ~Done(l)' => secondary'[l] = "GPT_BAD_SIGNATURE"
        PROVE  bootLun' = "NORMAL_BOOT"
    <3>1. bootLun' = bootLun
      BY <1>4, <2>3, InsideLun
    <3>2. ASSUME NEW l \in Lun, ~Done(l) PROVE secondary[l] = "GPT_BAD_SIGNATURE"
      <4>1. CASE l # lun
        <5>1. ~Done(l)'
          BY <2>1, <3>2, <4>1 DEF Done
        <5>. QED BY <1>4, <2>3, <4>1, <5>1, OtherLuns DEF SoundCallStep
      <4>2. CASE l = lun /\ pc' = "sync"
        BY <1>4, <2>3, <4>2, LunPrepared
      <4>3. CASE l = lun /\ pc' # "sync"
        <5>1. ~Done(l)' /\ secondary' = secondary
          BY <1>4, <2>1, <3>2, <4>3, InsideLun DEF Done
        <5>. QED BY <2>3, <5>1
      <4>. QED BY <4>1, <4>2, <4>3
    <3>. QED BY <2>1, <2>3, <3>1, <3>2
  <2>. QED BY <2>1, <2>2, <2>3
<1>5. CASE Sync
  <2>1. /\ pc = "sync" /\ stage' = stage /\ stage \in Stage /\ lun \in Lun /\ r' = 0
        /\ UNCHANGED <<primary, secondary, crc2, entries2, bootLun>>
        /\ isError' = 0 => isError = 0 /\ r = 0
    BY <1>5 DEF Sync, NextLun, disk, cache, TypeOK
  <2>2. CASE pc' = "idle"
    BY <2>1, <2>2
  <2>3. CASE lun < NumLuns
    <3>1. lun' = lun + 1 /\ pc' = "open" /\ granted' = granted
      BY <1>5, <2>3 DEF Sync, NextLun
    <3>2. \A l \in Lun : Done(l)' <=> Done(l)
      BY <2>1, <3>1 DEF Done, Lun
    <3>. QED BY <2>1, <3>1, <3>2 DEF Prepared
  <2>. QED BY <1>5, <2>2, <2>3 DEF Sync, NextLun
<1>6. CASE SoundDevStep
  BY <1>6, DevStepFrame DEF SoundDevStep, DevStep, Done, Prepared
<1>. QED BY <1>1, <1>2, <1>3, <1>4, <1>5, <1>6, SoundCases DEF SoundCallStep

LEMMA GrantedStep ==
  ASSUME Good, Next, past' = {}
  PROVE  Granted'
<1>. USE DEF Good, Sound, Granted
<1>1. ASSUME NEW s \in Stage, prepare_boot_update(s) PROVE Granted'
  BY <1>1 DEF prepare_boot_update
<1>2. ASSUME NEW c \in Chain, NEW p \in Part, WriteImage(c, p) PROVE Granted'
  BY <1>2 DEF WriteImage, call, disk, cache, Prepared
<1>3. CASE Fail \/ Crash
  BY <1>3 DEF Fail, Crash, Loop
<1>4. CASE Open \/ Write
  <2>1. granted' = NoStage
    BY <1>4, InsideLun, CallStepFrame DEF CallStep, Loop
  <2>. QED BY <2>1
<1>5. CASE Sync /\ granted' # NoStage
  <2>1. /\ UNCHANGED <<primary, secondary, crc2, entries2, bootLun>>
        /\ granted' = stage /\ isError = 0 /\ r = 0 /\ lun >= NumLuns
        /\ pc = "sync" /\ granted = NoStage
    <3>1. lun \in Nat /\ NumLuns \in Nat /\ isError \in {0, 1} /\ r \in {0, 1}
      BY GptAssumption DEF TypeOK, Lun
    <3>2. pc = "sync" /\ granted = NoStage
      BY <1>5 DEF Sync, Loop
    <3>. QED BY <1>5, <3>1, <3>2 DEF Sync, NextLun, disk, cache
  <2>2. \A l \in Lun : Done(l)
    BY <2>1, GptAssumption DEF Done, Lun, TypeOK
  <2>. QED BY <2>1, <2>2 DEF Loop, Prepared
<1>6. CASE granted' = NoStage
  BY <1>6
<1>7. CASE SoundDevStep
  BY <1>7, DevStepFrame DEF SoundDevStep, DevStep, Prepared
<1>. QED
  BY <1>1, <1>2, <1>3, <1>4, <1>5, <1>6, <1>7, SoundCases DEF SoundCallStep

\* A chain is given to the updater when no table and no LUN uses it, on the
\* device too; only the stage that leaves it there is called while it is torn.
LEMMA TornFrame ==
  ASSUME Good, Next, past' = {}
  PROVE  \A c \in Chain : IsTorn(c)' => IsTorn(c) \/ (pc = "idle" /\ Given(c))
<1>1. ASSUME NEW c \in Chain, NEW p \in Part, WriteImage(c, p),
             NEW d \in Chain, IsTorn(d)'
      PROVE  IsTorn(d) \/ (pc = "idle" /\ Given(d))
  <2>1. CASE d = c
    BY <1>1, <2>1 DEF WriteImage
  <2>2. CASE d # c
    BY <1>1, <2>2 DEF WriteImage, IsTorn, Good, TypeOK
  <2>. QED BY <2>1, <2>2
<1>2. CASE image' = image
  BY <1>2 DEF IsTorn
<1>. QED
  BY <1>1, <1>2, SoundCases, CallStepFrame, DevStepFrame
  DEF prepare_boot_update, Crash, SoundCallStep, CallStep, SoundDevStep, DevStep

LEMMA GivenUnused ==
  ASSUME Good, pc = "idle"
  PROVE  /\ Given("NORMAL_BOOT") => \A l \in Lun :
              primary[l] = "GPT_BAD_SIGNATURE" /\ dev[l].primary = "GPT_BAD_SIGNATURE"
         /\ Given("BACKUP_BOOT") => \A l \in Lun :
              secondary[l] = "GPT_BAD_SIGNATURE" /\ dev[l].secondary = "GPT_BAD_SIGNATURE"
BY DEF Good, Sound, Quiet, Agree, Granted, Prepared, Given

\* The stages a call may be of while images are torn.
LEMMA TornStage ==
  ASSUME Good, pc # "idle"
  PROVE  /\ IsTorn("NORMAL_BOOT") => stage = UPDATE_MAIN
         /\ IsTorn("BACKUP_BOOT") => stage # UPDATE_FINALIZE
BY DEF Good, CallsAllowed, Allowed, Written, IsTorn, TypeOK, Stage

LEMMA TornStep ==
  ASSUME Good, Next, past' = {}
  PROVE  Torn'
<1>. USE DEF Good, Sound, TypeOK, GptState, Torn, AllBad
<1>1. CASE UNCHANGED <<primary, secondary>>
  BY <1>1, TornFrame, GivenUnused DEF Chain
<1>2. CASE SetPrimaryState
  <2>1. UNCHANGED <<image, secondary>> /\ pc = "primary"
    BY <1>2 DEF SetPrimaryState, Taken, Advance
  <2>2. IsTorn("NORMAL_BOOT") => stage = UPDATE_MAIN
    BY <2>1, TornStage
  <2>. QED BY <1>2, <2>1, <2>2 DEF SetPrimaryState, IsTorn
<1>3. CASE SetSecondaryState
  <2>1. UNCHANGED <<image, primary>> /\ pc = "secondary"
    BY <1>3 DEF SetSecondaryState, Taken, Advance
  <2>2. IsTorn("BACKUP_BOOT") => stage = UPDATE_BACKUP
    BY <2>1, TornStage DEF AtLun, Stage
  <2>. QED BY <1>3, <2>1, <2>2 DEF SetSecondaryState, IsTorn
<1>4. CASE Crash
  <2>1. /\ image' = image
        /\ \A l \in Lun : primary'[l] = dev[l].primary /\ secondary'[l] = dev[l].secondary
    BY <1>4 DEF Crash
  <2>. QED BY <2>1 DEF DevFollows, IsTorn
<1>5. CASE WriteHeader \/ WriteEntries \/ Fail
  BY <1>1, <1>5 DEF WriteHeader, WriteEntries, Fail
<1>6. CASE SetXblBootPartition
  BY <1>1, <1>6 DEF SetXblBootPartition, cache
<1>. QED
  BY <1>1, <1>2, <1>3, <1>4, <1>5, <1>6, SoundCases, DiskFrame, DevStepFrame
  DEF SoundCallStep, SoundDevStep, DevStep, Write, Chain, Stage, Part

LEMMA DevFollowsStep ==
  ASSUME Good, Next, past' = {}
  PROVE  DevFollows'
<1>. USE DEF Good, Sound, TypeOK, GptState, DevFollows
<1>1. CASE UNCHANGED <<dev, bootLun>>
  BY <1>1, TornFrame, GivenUnused DEF Chain
<1>2. CASE SetXblBootPartition
  <2>1. /\ UNCHANGED <<dev, image>> /\ dirty = {} /\ pc = "xbl"
        /\ stage # UPDATE_MAIN => bootLun' = "NORMAL_BOOT"
    BY <1>2 DEF SetXblBootPartition, Advance, Quiet
  <2>2. stage = UPDATE_MAIN => dev[lun].secondary = "GPT_OK"
    BY <2>1 DEF AtLun, Agree
  <2>. QED BY <2>1, <2>2 DEF IsTorn
<1>3. ASSUME NEW page \in Page, WriteBack(page) PROVE DevFollows'
  <2>1. /\ UNCHANGED <<bootLun, image>> /\ page \in dirty
        /\ \A l \in Lun : l # lun => dev'[l] = dev[l]
        /\ pc # "idle"
    BY <1>3, LandedFields, DirtyInCall DEF WriteBack
  <2>2. CASE page = "primary"
    <3>1. /\ dev'[lun].secondary = dev[lun].secondary
          /\ dev'[lun].primary = primary[lun]
      BY <1>3, <2>2, LandedFields
    <3>2. IsTorn("NORMAL_BOOT") => primary[lun] = "GPT_BAD_SIGNATURE"
      BY DEF Torn, AllBad
    <3>3. \A l \in Lun : dev'[l].secondary = dev[l].secondary
      BY <2>1, <3>1
    <3>4. IsTorn("NORMAL_BOOT") => \A l \in Lun : dev'[l].primary = "GPT_BAD_SIGNATURE"
      BY <2>1, <3>1, <3>2
    <3>. QED BY <2>1, <3>3, <3>4 DEF IsTorn
  <2>3. CASE page = "header2"
    <3>1. /\ dev'[lun].secondary = secondary[lun]
          /\ dev'[lun].primary = dev[lun].primary
      BY <1>3, <2>3, LandedFields
    <3>2. IsTorn("BACKUP_BOOT") => secondary[lun] = "GPT_BAD_SIGNATURE"
      BY DEF Torn, AllBad
    <3>3. secondary[lun] = "GPT_BAD_SIGNATURE" =>
            bootLun = "NORMAL_BOOT" \/ dev[lun].secondary = "GPT_BAD_SIGNATURE"
      BY <2>1, <2>3 DEF Pending, Header2Pending, Stage
    <3>4. \A l \in Lun : dev'[l].primary = dev[l].primary
      BY <2>1, <3>1
    <3>5. IsTorn("BACKUP_BOOT") => \A l \in Lun : dev'[l].secondary = "GPT_BAD_SIGNATURE"
      BY <2>1, <3>1, <3>2
    <3>6. ASSUME \A l \in Lun : dev'[l].secondary = "GPT_BAD_SIGNATURE"
          PROVE  bootLun = "NORMAL_BOOT"
      <4>1. secondary[lun] = "GPT_BAD_SIGNATURE"
        BY <3>1, <3>6
      <4>2. CASE dev[lun].secondary = "GPT_BAD_SIGNATURE"
        <5>1. \A l \in Lun : dev[l].secondary = "GPT_BAD_SIGNATURE"
          BY <2>1, <3>6, <4>2
        <5>. QED BY <5>1
      <4>. QED BY <3>3, <4>1, <4>2
    <3>. QED BY <2>1, <3>4, <3>5, <3>6 DEF IsTorn
  <2>4. CASE page = "entries2"
    <3>1. /\ dev'[lun].secondary = dev[lun].secondary
          /\ dev'[lun].primary = dev[lun].primary
      BY <1>3, <2>4, LandedFields
    <3>2. \A l \in Lun : /\ dev'[l].primary = dev[l].primary
                         /\ dev'[l].secondary = dev[l].secondary
      BY <2>1, <3>1
    <3>. QED BY <2>1, <3>2 DEF IsTorn
  <2>. QED BY <2>2, <2>3, <2>4 DEF Page
<1>4. CASE WriteBackPart
  <2>1. UNCHANGED <<bootLun, image>>
    BY <1>4 DEF WriteBackPart
  <2>2. \A l \in Lun : /\ dev'[l].primary = dev[l].primary
                       /\ dev'[l].secondary = dev[l].secondary
    BY <1>4, PartFields
  <2>. QED BY <2>1, <2>2 DEF IsTorn
<1>5. CASE WriteHeader \/ WriteEntries \/ SetPrimaryState \/ SetSecondaryState
  BY <1>1, <1>5 DEF WriteHeader, WriteEntries, SetPrimaryState, SetSecondaryState, Taken
<1>6. CASE Fail \/ Crash
  BY <1>1, <1>6 DEF Fail, Crash
<1>. QED
  BY <1>1, <1>2, <1>3, <1>4, <1>5, <1>6, SoundCases, DiskFrame
  DEF SoundCallStep, SoundDevStep, Write, Chain, Stage, Part

\* What is known of the headers, the device, the boot LUN, the images and the
\* call holds at every step of prepare_boot_update, the updater and the kernel.
THEOREM Inductive == Spec => []IInv
<1>1. Init => IInv
  <2>. SUFFICES ASSUME Init PROVE IInv
    OBVIOUS
  <2>1. TypeOK
    BY GptAssumption DEF Init, TypeOK, GptState, Chain, Entries, Lun, Stage, PC
  <2>2. 1 \in Lun
    BY GptAssumption DEF Lun
  <2>3. /\ CallsAllowed /\ Quiet /\ Agree /\ BadPrimary /\ BootLunFollows /\ AtLun
        /\ Pending /\ Loop /\ Granted
    BY <2>2 DEF Init, CallsAllowed, Quiet, Agree, BadPrimary, BootLunFollows, AllBad,
       AtLun, Pending, PrimaryPending, Header2Pending, Loop, Granted
  <2>4. Torn /\ DevFollows
    BY DEF Init, Torn, IsTorn, DevFollows, Chain
  <2>. QED BY <2>1, <2>3, <2>4 DEF IInv, Sound
<1>2. IInv /\ [Next]_vars => IInv'
  <2>. SUFFICES ASSUME IInv, [Next]_vars PROVE IInv'
    OBVIOUS
  <2>1. CASE Next
    <3>1. TypeOK' /\ CallsAllowed' /\ Quiet'
      BY <2>1, TypeStep, CallsAllowedStep, QuietStep DEF IInv
    <3>2. ASSUME past' = {} PROVE Sound'
      <4>1. Good
        BY <2>1, <3>2, SoundCases DEF IInv, Good
      <4>. QED
        BY <2>1, <3>2, <4>1, AgreeStep, BadPrimaryStep, BootLunFollowsStep, AtLunStep,
           PendingStep, LoopStep, GrantedStep, TornStep, DevFollowsStep DEF Sound
    <3>. QED BY <3>1, <3>2 DEF IInv
  <2>2. CASE UNCHANGED vars
    <3>1. TypeOK' /\ CallsAllowed' /\ Quiet'
      BY <2>2, TypeStep DEF vars, disk, cache, call, IInv, CallsAllowed, Allowed, Written, Quiet
    <3>2. ASSUME Sound PROVE Sound'
      BY <2>2, <3>2 DEF vars, disk, cache, call, Written,
         Sound, Agree, BadPrimary, BootLunFollows, AllBad, AtLun, boot, Pending,
         PrimaryPending, Header2Pending, Loop, Done, Granted, Prepared, Torn, IsTorn, DevFollows
    <3>. QED BY <2>2, <3>1, <3>2 DEF vars, IInv
  <2>. QED BY <2>1, <2>2
<1>. QED BY <1>1, <1>2, PTL DEF Spec

\* Wherever a boot update is interrupted, however often, whatever errors the
\* code was told of before and in whatever order the pages reach the device,
\* each LUN has a valid table there and nothing it boots from is half written:
\* prepare_partitions is fail-safe as far as blk_rw and fsync let it be.
THEOREM BootableAlways == Spec => []Bootable
<1>1. IInv => Bootable
  <2>. SUFFICES ASSUME IInv, past = {}, ~Overtaken, NEW p \in Part
                PROVE  Used(p) \in Chain /\ image[Used(p)][p] # "torn"
    BY DEF Bootable
  <2>0. Good
    BY DEF IInv, Good
  <2>. USE DEF IInv, Sound, TypeOK, GptState, Chain
  <2>1. 1 \in Lun
    BY GptAssumption DEF Lun
  <2>2. CASE p = Xbl
    <3>1. ASSUME bootLun = "NORMAL_BOOT" PROVE image["NORMAL_BOOT"][p] # "torn"
      <4>1. ASSUME IsTorn("NORMAL_BOOT") PROVE FALSE
        <5>1. ~Written("NORMAL_BOOT") /\ primary[1] = "GPT_BAD_SIGNATURE"
          BY <2>1, <4>1 DEF Torn, AllBad, IsTorn, Written
        <5>. QED BY <2>1, <3>1, <5>1 DEF BootLunFollows
      <4>. QED BY <4>1 DEF IsTorn
    <3>2. bootLun = "BACKUP_BOOT" => image["BACKUP_BOOT"][p] # "torn"
      BY DEF DevFollows, IsTorn
    <3>. QED BY <2>2, <3>1, <3>2 DEF Used
  <2>3. CASE p # Xbl
    <3>1. p \in Lun
      BY <2>3 DEF Part
    <3>2. CASE dev[p].primary = "GPT_OK"
      <4>1. image["NORMAL_BOOT"][p] # "torn"
        BY <3>1, <3>2 DEF DevFollows, IsTorn
      <4>. QED BY <2>3, <3>2, <4>1 DEF Used
    <3>3. CASE dev[p].primary = "GPT_BAD_SIGNATURE"
      <4>1. /\ dev[p].secondary = "GPT_OK"
            /\ dev[p].crc2 = "BACKUP_BOOT" /\ dev[p].entries2 = "BACKUP_BOOT"
        BY <2>0, <3>1, <3>3, BadOnDevice
      <4>2. image["BACKUP_BOOT"][p] # "torn"
        BY <3>1, <4>1 DEF DevFollows, IsTorn
      <4>. QED BY <2>3, <3>3, <4>1, <4>2 DEF Used, Valid2
    <3>. QED BY <3>1, <3>2, <3>3
  <2>. QED BY <2>2, <2>3
<1>. QED BY <1>1, Inductive, PTL

\* A call of prepare_boot_update that returned 0 has put on the device, for
\* every LUN, what its stage stands for - unless a write was cut short, a page
\* was lost or a restart found a header corrupted too early.
THEOREM GrantedCorrect == Spec => []GrantedIsReady
<1>1. IInv => GrantedIsReady
  <2>. SUFFICES ASSUME IInv, past = {} PROVE GrantedIsReady
    BY DEF GrantedIsReady
  <2>. USE DEF IInv, Sound, TypeOK, GptState
  <2>1. 1 \in Lun /\ Xbl \notin Lun /\ (\A p \in Part : p # Xbl => p \in Lun)
    BY GptAssumption DEF Lun, Part, Xbl
  <2>2. granted # NoStage => dirty = {}
    BY DEF Loop, Quiet
  <2>3. ASSUME granted # NoStage, NEW l \in Lun
        PROVE  /\ dev[l].primary = primary[l] /\ dev[l].secondary = secondary[l]
               /\ dev[l].crc2 = crc2[l] /\ dev[l].entries2 = entries2[l]
    BY <2>2, <2>3 DEF Agree
  <2>4. ASSUME granted = UPDATE_MAIN, ~Written("NORMAL_BOOT"), NEW p \in Part
        PROVE  Used(p) = "BACKUP_BOOT"
    <3>1. bootLun = "BACKUP_BOOT"
      BY <2>1, <2>4 DEF Granted, Prepared, BootLunFollows
    <3>2. ASSUME p \in Lun PROVE Used(p) = "BACKUP_BOOT"
      <4>1. /\ primary[p] = "GPT_BAD_SIGNATURE" /\ secondary[p] = "GPT_OK"
            /\ crc2[p] = "BACKUP_BOOT" /\ entries2[p] = "BACKUP_BOOT"
        BY <2>4, <3>2 DEF Granted, Prepared, BadPrimary
      <4>. QED BY <2>1, <2>3, <2>4, <3>2, <4>1 DEF Used, Valid2
    <3>. QED BY <2>1, <3>1, <3>2 DEF Used
  <2>5. ASSUME granted = UPDATE_BACKUP, NEW p \in Part
        PROVE  Used(p) = "NORMAL_BOOT"
    BY <2>1, <2>3, <2>5 DEF Granted, Prepared, Used, BootLunFollows, AllBad
  <2>6. ASSUME granted = UPDATE_FINALIZE, NEW l \in Lun
        PROVE  /\ dev[l].primary = "GPT_OK" /\ Valid2(l)
               /\ dev[l].entries2 = "NORMAL_BOOT" /\ bootLun = "NORMAL_BOOT"
    BY <2>3, <2>6 DEF Granted, Prepared, Valid2
  <2>. QED BY <2>1, <2>4, <2>5, <2>6 DEF GrantedIsReady
<1>. QED BY <1>1, Inductive, PTL
=============================================================================
