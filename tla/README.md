# TLA+ models of the device tree for Xiaomi mondrian

The repository is an Android device tree: configuration, scripts and a few
programs.  Its largest program by far is the location stack under `src/gps`, and
its hardest code is there: four kinds of threads that talk by messages, a modem
that crashes and comes back, and sessions of many clients multiplexed onto one
receiver.  These modules model that stack, and the update of the boot partitions,
from the C++ source, check the models
with TLC on small instances, and prove their main invariants with TLAPS for all
values of the constants.

1. [The system](#1-the-system) - components, state, interaction, what is hard
2. [The modules](#2-the-modules) - what each one models, and how it corresponds to the code
3. [The runs](#3-the-runs) - bounds, fairness, and what each run shows
4. [What the runs found](#4-what-the-runs-found)
5. [The proofs](#5-the-proofs)
6. [What is only model-checked, and what is not modelled](#6-limits)
7. [The plan](#7-the-plan)

Run a model with `tlc -config MCAgps.cfg MCAgps`, check a proof with
`tlapm AgpsProofs.tla`.  `PROJECT.json` lists the runs, the theorems, the source
lines of every definition and, for every property, a plausible bug that breaks it.

## 1. The system

### The location stack (`gps/`)

    Android HALs (gps/android/*)          GNSS, batching and geofence clients
         |  LocationAPIClientBase, LocationAPI (gps/location)
    GnssAdapter   BatchingAdapter   GeofenceAdapter
         |  messages on one MsgTask per context (gps/utils, gps/core)
    LocApiBase and its own MsgTask  ->  the modem (a proprietary library)
    SystemStatusOsObserver          ->  the Android framework
    AgpsManager                     ->  data connections for the modem
    LocTimer                        ->  time-outs for all of them

| Component | State | Operations | What is hard | Correct means |
|---|---|---|---|---|
| **AGPS** `gnss/Agps.cpp`, `NativeAgpsHandler.cpp` | per network interface a state and a subscriber list | request and release of a handle by the modem; opened, failed, closed by the framework | answers cross requests; a PDN lookup answers late; a modem restart | state and list agree; every handle is answered; a connection is released when nobody needs it |
| **Timers** `utils/LocTimer.cpp` | heap of delegates, timer fd, epoll set | start, stop, push, remove, expire | client threads, the message thread and the poll thread share delegates and the fd | no delegate is used after it is deleted; no wake-up is lost; a stopped timer stays silent |
| **Message tasks** `utils/MsgTask.cpp`, `LocThread.cpp`, `msg_q.c`, `linked_list.c` | a linked list, a mutex and a condition variable, a thread | send, receive, interrupt, destroy | wake-ups; destruction while others use the queue | FIFO, exactly one handling, no use after free |
| **OS observer** `core/SystemStatusOsObserver.cpp`, `utils/LocUnorderedSetMap.h` | two maps clients-items, a cache, the framework's subscription object | subscribe, update, unsubscribe, requestData, notify | the object comes late or is replaced; the maps are edited by destructive set operations | the maps are inverse; the framework is told what is wanted; nobody keeps an old value |
| **GNSS adapter: tracking** `gnss/GnssAdapter.cpp`, `core/LocAdapterBase.cpp` | maps of time-based and distance-based sessions, parked messages, power state | start, update and stop; client removal; engine up; power events; configuration | answers come after other commands; crashes; many sessions, one receiver | the modem does what the sessions need; each call is answered once |
| **GNSS adapter: NI** `gnss/GnssAdapter.cpp` | two sessions (normal and emergency) with a thread for each request | request of the network, user's response, time-out, emergency that overrides | time-out against answer, fields read and written outside the lock | each request is disposed of once, with its own answer, and none waits for ever |
| GNSS adapter: ODCPI | state mask, timer | request, stop, expiry | expiry already posted when the request stops | the framework is asked as often as needed, no more |
| GNSS adapter: rest | configuration, report filters | pass on | SSR resends the configuration | data conversion mostly |
| LocApiBase, contexts | list of adapters, event mask | open, close, report, restart | adapters come and go while reports run | modelled as the environment of tracking |
| SystemStatus | bounded lists of reports | parse, store, query | none beyond parsing | - |
| **Batching adapter** `batching/BatchingAdapter.cpp` | map of sessions, map of trips, the modem's one trip | start, update, stop; client removal; completed trips; engine up; power events | all trips share one trip of the modem, with distances in wrapping arithmetic; answers come late | the modem runs the sessions, and its trip serves all trips |
| **Geofence adapter** `geofence/GeofenceAdapter.cpp` | two maps between clients' ids and the modem's numbers | add, remove, pause, resume, modify; client removal; engine up; power events | a command is many requests; numbers are given anew after a crash and used again after a removal | maps inverse; the modem has what clients asked for, also after a crash |
| **Location API** `location/LocationAPI.cpp` | clients, adapters to wait for | create, change callbacks, destroy | three adapters answer one after another | one destruction, after all answers |
| **Client base** `location/LocationAPIClientBase.cpp` | queues of requests, map of ids | geofence calls, responses (tracking and batching are not modelled) | responses matched by order | a response meets its request |
| HALs, battery listener, auto power, IPC, NMEA, configuration | small | translate | battery listener: a thread joined while it waits | - |

### The rest of the tree

- **Boot partition update** (`gpt-utils`): safe update of boot partitions in three stages
  that corrupt and repair the headers of two partition tables.  Hard: a crash
  between any two writes.  Correct: the device always boots.
- **Fingerprint handler** (`udfps`): two polling threads over device files.
- **Settings application** (`parts`, Java), **small services** (`powershare`,
  `power`, `touch`, `shim`), **boot properties** (`libinit`): no shared state worth
  a model.
- Build files, init scripts, audio and radio configuration, overlays, SELinux
  policy: data.

## 2. The modules

| Module | Models | Used by |
|---|---|---|
| `Agps` | the AGPS state machines, their adapter commands and surroundings | `MCAgps`, `AgpsProofs` |
| `LocTimer` | timers, at the grain of accesses to shared state | `MCLocTimer`, `LocTimerProofs` |
| `MsgChannel` | what a message task promises: an abstract channel | `MsgTask` |
| `MsgTask` | the message task over queue and linked list | `MCMsgTask`, `MsgTaskProofs` |
| `OsObserver` | the OS observer and its maps | `MCOsObserver`, `OsObserverProofs` |
| `GnssTracking` | the tracking sessions of the GNSS adapter with LocApi and the modem | `MCGnssTracking`, `GnssTrackingProofs` |
| `GnssNi` | requests of the network put to the user: both sessions and their threads | `MCGnssNi`, `GnssNiProofs` |
| `Batching` | routine and trip sessions of the batching adapter with LocApi and the modem | `MCBatching` |
| `LocationApi` | clients of the adapters: creation and destruction of LocationAPI objects | `LocationAPIClientBase`, `GeofenceProofs` |
| `LocationAPIClientBase` | the geofence calls of clients and their request queues | `Geofence` |
| `Geofence` | the geofence adapter with LocApi and the modem, and its clients | `MCGeofence`, `GeofenceProofs` |
| `GptUpdate` | the boot partition update, its updater and the boot loader | `MCGptUpdate`, `GptUpdateProofs` |

How they fit together: `MsgTask` implements `MsgChannel`, and that is why `Agps`,
`OsObserver`, `GnssTracking`, `GnssNi`, `Batching` and `Geofence` may take a message task as a
sequence that one thread takes from, and each message as one step.  `Geofence` composes
four layers: clients (`LocationAPIClientBase`), the API they share (`LocationApi`), the
adapter, and LocApi with the modem.  `GptUpdate` stands alone.

### Agps

An action is one message of the adapter's thread (`RequestATL`, `ReleaseATL`,
`AtlOpenSuccess`, ...), with everything the message does down to the status call
to the framework.  `active` and `inactive` are the subscribers of `mSubscriberList`
by `mIsInactive`.  Every subscriber waits for the close, as every subscriber in
the source does (`mWaitForCloseComplete` is true at `Agps.cpp:594`), so the branch
for others is left out.  APN types are abstracted to the interface they choose.
`NativeAgpsHandler` answers for the internet interface from `mConnected`.  The
framework and the modem are external: what they may do is written as actions from
what the code has to accept.  What the modem is told reaches it at once; what it
asks is queued.

### LocTimer

A step is what a thread does between two accesses to state another thread can
change: the expiry of a delegate is four steps, and so is what the poll thread does
after a wake-up.  The lock makes `LocTimer::start` and `stop` one step each.  The
heap is a set with a least element.  The code's branch that disarms the fd of an
empty heap is left out: it is never taken, as no caller passes an old top together with
an empty heap.

### MsgTask and MsgChannel

What a thread does under `list_mutex` is one step, a wait on the condition and what
follows it are two, and spurious wake-ups happen.  The list is modelled link by link
(`next`, `prev`, `p_head`, `p_tail`).  The owner may delete the task at any time; in
the source no task ever is, so this is what the class offers.  `MsgChannel` has no
threads: messages are accepted in order, handled one at a time in that order, and an
interruption drops those that wait and refuses the rest.

### OsObserver

An action is the handler of one message.  An entry that does not exist and one that
is empty are the same, as the code never keeps an empty one.  Two spots are undefined
behaviour (`LocUnorderedSetMap.h:147` reads an erased entry's key, `:68-75` advances
an erased iterator); the model takes the outcome of the libraries in use, the key and
the next element.  `SubItems` and `ReqItems` are the items that are subscribed and
those that are asked for; in the source they are disjoint.  Outside that, an item
first asked for and then subscribed by another client is never subscribed.

### GnssTracking

Two queues: `reqs`, what LocApi's thread has to carry out, and `msgs`, what has come
back to the adapter.  A request carries its closure as `then`, with the captured
values; the answer runs it later, over maps that may have changed.  Client calls and
system events are handled when they come: a call that waited is one that comes later.
The multiplexing functions keep the order of their loops where the result depends on
it (an `INVALID` power mode hides those before it).  A request fails when the modem is
down and only then.  No engine hub is loaded.  `ClientsWait` says whether a client
waits for the response of one call before its next one for the same session.

### GnssNi

`session` and `sessionEs` are `NiData`, field by field (`rawRequest`, `reqID`, `resp`,
`respRecvd`).  The adapter's thread handles a message in one step, except that each
answer it writes under a session's lock is a step (`todo`): what it tested before it had
the lock may have changed.  A thread of `niThreadProc` is at `begun`, `waiting` in the
condition variable, or `leaving` between the unlock and the clearing of the id; what it
does under the lock is one step.  Time-outs come at any time: `respTimeLeft`, which the
thread clears after the unlock as well, is covered by that.  `fate` records what the
modem was told; `informNiResponse` and `free` both end a request.

### Batching

The queues are those of `GnssTracking`: `reqs` to LocApi with the closure in `then`, and
`msgs` back.  A handler that changes state several times passes it through a record `a`
(`Now`, `Become`), in the order of the code.  `sessions` and `trips` are
`mBatchingSessions` and `mTripSessions`; the modem (external) has `batching`, the
sessions it runs, and `trip`, its one trip.  All arithmetic on distances and intervals
is modulo `Word`, as the code computes with `uint32_t`: the model keeps the wrap-around.
`restartTripBatching` takes the least distance that is left and the least interval by
the code's loop, which knows a value by being smaller than the last (`LoopMin`).  Where the code
uses an entry after it erased it, or `end()`, the value found is any of `Garbage`.
`travel` is the distance since the beginning and `began` where on it each trip of a
client began: what a trip really has to go, which `TripServed` compares with the
modem's, does not come from the adapter's records.
`past` records which of the events named in section 4 have happened; no property
looks at it but to leave these behaviours out.

### Geofence, LocationAPIClientBase and LocationApi

A geofence command (`MsgGeofences`) asks LocApi for a turn for each of its fences;
in its turn (`InTurn`) a fence finds its number and is asked for, or is
answered at once; in the answer (`Done`) the maps are written; the last fence of the
command calls `reportResponse`.  `mGeofences` has the fence of each number and
`mGeofenceIds` the number of each id.  The modem (external) gives any number that is
free, also one that was just given up, and the maps of the code are walked in any order
(`Orders`), as their order depends on addresses and on those numbers.
A client's number for a fence and the session id of LocationAPI are one, as a client
uses each number once.  `owner` is the client of the key.  Client calls and system
events are handled when they come, as in `GnssTracking`; the messages that make and
remove clients do wait in `msgs`, since what happens before them is the point.
`LocationApi` has the clients' data and, for each client that is being destroyed, the
adapters that have not let it go (`waitAdapterMask`).  `locAPIRemoveAllGeofences` is
`locAPIRemoveGeofences` for all ids.  All fences of one call have the same options (a
bound).

### GptUpdate

`prepare_boot_update` loops over the LUNs and calls `prepare_partitions` on each, which
reads the signatures of the LUN's two headers (`Open`), infers the stage the LUN is in
and carries the stage out as a sequence of writes: the boot LUN, the secondary header
with the CRC of its new entries, the entries, a signature.  Each write is a step.
`After` gives their order.  A write changes the kernel's cache (`primary`, `secondary`,
`crc2`, `entries2`), which is what the code reads, and makes a page `dirty`.  The page
comes to the device (`dev`) in a step of its own, at any later time and in any order
(`WriteBack`), the entries array in parts (`WriteBackPart`); the one `fsync` at the end of
a LUN (`Sync`) waits for all of them.  The code ignores its result, so `WriteBackFails`
loses a page and nobody is told: the cache keeps what was written.  `blk_rw` fails only
if `write` does; a write that was cut short (`ShortWrite`) returns 0 and the stage goes on,
with some of an entries array in the cache or nothing of a header.  Any operation may
fail (`Fail`).  Between any two steps the device may restart with what is on it (`Crash`).
The entries of the primary table are never written and have no variable.
The updater is external, and this is
what the model asks of it: it writes images only of the chain the last successful call
gave it, it writes no image that is whole already, it calls `UPDATE_BACKUP` when all
images of the normal chain are whole and `UPDATE_FINALIZE` when all are, and it tries
the stages in turn whatever they return, starting anywhere after a restart.  The boot
loader (`Used`) is external too: it takes the primary table unless its signature is bad.
Assumed of the device and the updater besides: a header is one sector and is
written whole or not at all, so `GPT_BAD_CRC` does not arise; a read is not cut short;
the boot LUN is switched when the ioctl returns; an image is synced when the updater has
written it; the updater ends only with the device.
`past` records what the code neither prevents nor notices: a write cut short
(`"short"`), a page lost (`"unsynced"`), and a restart while a header is corrupted on the
device and the page that replaces it is still dirty (`"overtaken"`; `Overtaken` is that
state).  Section 4 says what each does.

## 3. The runs

| Run | Bounds | Shows |
|---|---|---|
| `agps` | two handles on the framework's interface, one of them on the internet interface too; one restart; backlog 2 | state and list agree, the modem agrees with the lists when nothing is on its way, every open is answered, every close is confirmed |
| `loc_timer` | two clients, three starts, delays 1 and 2, clock to 2 | no dangling delegate, no lost wake-up, stopped is silent, started is called |
| `loc_timer_early` | the same, clock to 3 | a call back before its time (finding) |
| `msg_task` | five messages | the list is a queue, implements the channel, no use after destruction, every accepted message is deleted |
| `os_observer` | the two clients and three items of the source, two values, two subscription objects | maps inverse, routing as documented, framework told what is wanted, values current |
| `os_observer_update` | one value, `updateSubscription` offered | an update corrupts the maps (finding) |
| `gnss_tracking` | two clients, two sessions, three kinds of options, three calls, one event | the modem serves the sessions, and without events nothing else; nothing answered twice; every start answered |
| `gnss_tracking_stop` | one client, one session, three calls, one event | a stopped session runs on (finding) |
| `gnss_ni` | one client that comes and goes, three requests, two answers | each request is answered or freed once, with its own answer; none stays with the user |
| `batching` | two clients, two sessions, four kinds of options, three calls, crashes and power events together, three steps of distance, 4-bit words | the modem runs the routine sessions, reports of full batches are registered for just as long as somebody wants them, the trip serves all trips by the distance each has really come |
| `geofence` | two clients, two fences, two numbers, two options, three calls, crashes and power events together | the modem, the two maps and the clients agree; responses meet their requests; destroyed clients are deleted |
| `gpt_update` | three LUNs, two restarts, one failure, pages written back in any order | bootable at every point, a granted stage holds on every LUN of the device, the update completes |

**Why these bounds are enough to be interesting.**  *agps*: two handles that share a
connection are the least for which one stays active while the other is closed; a
handle on two interfaces is the least for the search over both state machines; the
backlog lets a release, a new request and an answer cross.  *loc_timer*: two clients
put one timer ahead of another, a third start restarts a timer while its predecessor
is expired.  *msg_task*: lists of several elements, a send while the thread waits, one
while it is woken, one after the interruption.  *os_observer*: two clients that share
one item, and items only one of them has.  *gnss_tracking*: two sessions are the
least for multiplexing; the options differ in interval, in power mode and in kind, so
that each comparison goes both ways; three calls start both sessions and stop or
change one.  Four calls with one client and two events, and four calls with two
clients and one event, were explored as well (870,000 and 797,000 states, no error).
*gnss_ni*: a request in each session and one that follows in either; two answers, for an
emergency that is accepted while the user answers the other; the three races that
`past` names all happen, each needed to keep `OwnAnswer` true.
*batching*: two sessions are the least for a trip that joins another and for one of two
sessions that report full batches; the options are the two kinds of routine session and
two trips of which one is shorter and the other more frequent, so that each minimum is
taken from either side; with three steps of distance a trip joins another that has
travelled, with and without a new batch, and the longer one goes on when the shorter is
completed; the word is wide enough for every sum and small enough that a
difference below zero shows.  One client with three sessions and four steps of distance
(1,390,000 states), and one with four calls and one step (3,450,000 states), were
explored as well.  *geofence*: two fences are the least for commands of several
fences, and two numbers for a number that comes to the other fence; two clients are the
least for a number that comes to another client.  A single client with one fence and five calls
or events (824,000 states), and one with two fences, one option and four of them
(3,750,000 states), were explored as well.
*gpt_update*: three LUNs can be in three different stages at once, and it takes a failure
or a restart to get each of them there.  Two LUNs with two failures (1,800,000
states) were explored as well; a second failure changes the outcome of no property.

**Deadlock** is checked where the system cannot stop (`agps`, `os_observer`).  In
`loc_timer`, `msg_task`, `gnss_tracking`, `gnss_ni`, `batching` and `geofence` the bounds on
starts, messages, requests and calls end the behaviours; `gpt_update` ends when the update is complete.

**Fairness.**  Threads that have something to do run (weak fairness of the message
thread, the poll thread, the task's thread, LocApi's thread, the adapter's and those of NI
requests, whose waits time out).  A
destructor once begun goes on.  Time passes in `LocTimer`.  In `GptUpdate` the call,
the write-back that `fsync` waits for and the updater go on, and restarts and failures
come to an end.  In `Agps` the framework
answers every call and the PDN library every lookup: both contracts are external and
the liveness properties depend on them.  Nothing obliges a client, the modem or the
network.

**Excuses in properties.**  `OpenIsAnswered` and `ClosedHandlesRelease` do not speak of
behaviours with a modem restart; the first also excuses requests answered with an
invalid APN, which the code turns into a close that a waiting state machine ignores.
`ModemAgrees` does not speak of what follows a restart (section 4).
`EngineServesNoOther` speaks of runs without events; with them the modem may run for
nobody.  `SubscriptionAsDocumented` is checked on `os_observer` for the calls the source
makes, and refuted on `os_observer_update` for the one it only offers.
`RoutineServed`, `BatchFullRegistered`, `TripServed`, `ModemHasFences`, `FencesServed`,
`RespondsInOrder`, `AnswersAreTheirOwn`, `Bootable`, `GrantedIsReady` and
`UpdateCompletes` each name, by `past`, the events after which the code does not keep them; section 4 lists what the code does then.  `DestroyIsComplete` has no excuse.
`GrantedIsReady` asks nothing of `UPDATE_MAIN` once the normal images are all written
(section 4, the boot update).

## 4. What the runs found

- `loc_timer_early`: `LocTimerDelegate::expire` stops whatever timer its client has by
  then; a client that stops and restarts at that moment is called back at once.  The
  unconditional `pop` of `MsgTimerExpire` has the same effect.
- `os_observer_update`: `LocUnorderedSetMap::update` returns the items that are kept,
  its caller takes them for those that are gone.
- `gnss_tracking_stop`: a distance-based session is erased when the answer to its stop
  is handled; a restart between stop and answer starts it again and nobody can stop it.

Seen while exploring, without a run: `AgpsManager::handleModemSSR` (`Agps.cpp:672`,
"Drop all subscribers, in case of Modem SSR", `Agps.h:200`) is never called, so a modem
restart leaves subscribers of handles the modem has forgotten, and their connection open.
With clients that do not wait (`ClientsWait =
FALSE`) an update while a session switches from distance to time leaves it in both
maps; a failed stop leaves an update of a distance-based session without an answer
(`GnssAdapter.cpp:3428`).  On a modem without distance-based tracking (`DbtSupported =
FALSE`) an update of a time-based session to options with a distance takes the branch for
distance-based ones (`GnssAdapter.cpp:3379-3393`): the modem
is asked to stop the time-based session and to start one it cannot run, and
`saveTrackingSession` keeps the session as a time-based one.  These two are why
the theorems on `GnssTracking` have their hypotheses.

*The boot update* (`gpt-utils.cpp`).  Its three properties hold while `past` is empty, and
`Bootable` outside `Overtaken`; each of these excuses is needed, as the properties fail
when it alone is allowed (two LUNs, one restart, one failure):

- `blk_rw` returns 0 after a short write (155-166): `gpt2_set_boot_chain` may leave a torn
  secondary table without telling, and the primary header is corrupted next (819); the
  LUN has no valid table then, and the stage returns 0 (`"short"`);
- the pages of a stage are written back in any order before the `fsync` at its end
  (886-890): a restart may find the primary header corrupted and the new secondary
  table not there, or the secondary corrupted and the primary not fixed
  (`Overtaken`); a LUN with two bad headers answers every stage with -1 (751-756)
  (`"overtaken"`);
- the result of that `fsync` is ignored (888): a stage whose pages were lost returns 0
  (`"unsynced"`).

Nothing in the code prevents the three: that they do not happen is an assumption on the
kernel and the device.  A restart in `UPDATE_BACKUP` after the boot
LUN was switched (`gpt-utils.cpp:838`) and before the primary header is fixed leaves
LUNs for which `UPDATE_MAIN` returns 0 at once (`gpt-utils.cpp:773`) with the boot LUN
on the normal XBL.  That is harmless to an updater that leaves whole images alone, and
not to one that writes all of them again.  A restart between two LUNs leaves a device
that boots from images of both versions, all whole.

*NI sessions* (`GnssAdapter.cpp`).  Why `past` is there (per request):

- the adapter finds the session of an answer, or the session an accepted emergency
  overrides, without the lock (3672-3687, 4890); if the thread times out before the
  answer is written, `respRecvd` stays set and the next request of that session is
  answered, or dropped, at once by it (`"late"`), although 4839 resets the flag "for the
  next session";
- an answer that is written between the time-out and the thread's next hold of the lock
  is overwritten with `NO_RESPONSE` (4828-4834), and one that comes later is lost
  (`"deadline"`);
- the thread clears `reqID` after the unlock (4862); if a request has begun in the session
  by then, the user's answer to it is refused and it times out (`"cleared"`).

A request that nobody can be asked about is neither answered nor freed (4898-4900), unless
it is an emergency.  `loc_eng_ni_reset_on_engine_restart`, which the thread relies on
for restarts of the modem (4841-4843), does not exist: sessions outlive the modem.

*Batching* (`BatchingAdapter.cpp`).  Why `past` is there:

- a call for a session that does not exist, or by a client without the callback, is
  never answered (350-367, 442-454), while `LocationAPI.h:106-119` lists the errors;
- a stop that fails puts the session back with default options (510-519);
- a trip that joins another is not entered in `mBatchingSessions` (792-862), so it
  cannot be stopped, updated or removed with its client; a failed query is reported as
  a success without the trip being there;
- a completed trip (668-707) and a stopped one (895-931) stay in `mBatchingSessions`:
  the count does not come to 0, and removing the client of one stops the trip that the
  modem runs for the other (872-888); `end()` is dereferenced (899-900);
- a join that starts the batch anew sets `accumulatedDistanceOnTripRestart` without adding
  `data.accumulatedDistance` (845-850), though the comment says it records "the total
  accumulated distance so far" (843-844): what the trips have come in this batch is lost,
  and when the shorter trip is completed the other gets too long a batch (`"forgotten"`);
- a step of distance between a query, its answer and the request that follows is lost as
  well (`"moved"`);
- the registration for full batches is not taken back with the last trip: `1 ==
  autoReportBatchingSessionsCount()` (880) is false, as 305-315 count its session in both
  maps, in spite of the comment (877-878) (`"left"`); a completed trip, one stopped
  beside another (`"ended"`) and an update that could not stop its session
  (`"unstopped"`, 510-519) leave a session that is counted and not there, or is there
  and does not count; a trip that joins when the others have gone does not register
  (`"alone"`);
- `restartSessions` resets the distances of a copy (221-240), which then underflow;
- a suspension stops each client's sessions once for each session (1062-1068), and
  removing a client sends it responses it did not ask for;
- the answer of an update (529-536) starts a session for a client that has left.

*Geofences* (`GeofenceAdapter.cpp`, unless named).  Why `past` is there:

- responses are matched by the order of the queue (`LocationAPIClientBase.cpp:920`); a
  call for a fence whose addition is under way is answered before the addition is
  (`"impatient"`), and when the last fence of a command is unknown the response is
  sent, and its arrays are freed, before the others are answered;
- a resume that fails has no response (553-561), and a call without callbacks for
  geofences has none either, so that the queue is out of step for good (`"failed"`,
  `"unserved"`);
- a removal that comes while the fences are being added again fails, and the fence comes back
  without a client that knows it; an addition whose client is destroyed meanwhile stays in the
  modem;
- a fence removed by its client and by the client's removal at once is removed twice, the
  second time by a number that may be another fence's, and stays in `mGeofences`
  otherwise;
- after a crash a number of the old modem is used until the fences are added again: a
  command whose turn comes then (360-509), or the removal of a client (86-116), asks by it,
  and the modem that is back may have given it to another fence by the time the request
  comes, which is then removed in its place (`"stale"`; it takes two commands under way, the
  crash and four calls, or two clients); what the answer then takes out of the maps is that other
  fence's number, so that the next call for it is answered at once, before earlier calls of its
  client;
- a fence that was paused is saved as running when it is added again (203-214): a second
  crash resumes it (`"again"`), and one that cannot be added again is lost;
- in suspension the fences are not added again after a crash (168-171): numbers of the
  crashed modem stay in the maps, and two ids may have one number, so that a removal of one takes
  the other's; a resumption resumes what the user had paused (`"suspended"`);
- `errs[i]` is not written when a modification fails; the options of a modification are
  not moved up when a fence before is not known (`LocationAPIClientBase.cpp:704-738`).

*Location API.*  The test for the completion callback is inverted
(`LocationAPI.cpp:215` and `:359`: it is called when it is empty), so that
`LocationAPIClientBase` objects are never told and never deleted.

## 5. The proofs

All for every value of the constants, under the assumptions the modules name
(bounds are naturals; `Routes` is a set of pairs of handle and interface; the model value
for no client is not a client and that for no number not a number; the modem has finitely
many numbers for fences; options have an interval above 0, since a record of zeros stands
for no options).  Every inductive invariant was checked by TLC on the run of its
module before it was proved.

**`AgpsProofs`** - `TypeCorrect` and `SubscribersCorrect`.  The inductive invariant is
their conjunction: neither is inductive alone, since the events' branches keep the list
in step with the state only when the state is one of the four and the handle is
subscribed where it is looked up.  Each event handler has a lemma (`SubscribeKeeps`,
`UnsubscribeKeeps`, `GrantedKeeps`, `ReleasedKeeps`, `DeniedKeeps`), each message cites
the lemma of its event, and the environment touches neither list.
`ModemAgreesCorrect` is about states in which nothing of a handle is queued; to get there
the invariant follows the handle through the queue (`Tracked`): at most one request of it
waits, and what the modem believes and where the handle is subscribed follow from whether
that request waits and whether a release does.  The lemmas `...Followed` say what
each handler and the environment do to one handle.

**`LocTimerProofs`** - `TypeCorrect`, `DelegatesCorrect`, `WakeUpsCorrect`, `StopsCorrect`.
`NoDanglingDelegate` and `TickingIsArmed` are part of the inductive invariant and neither
stands alone.  The first needs that only delegates that were made are anywhere, and that a
client's own delegate is not stopped and not about to be removed (`Made`), and what the
message thread knows between the steps of an expiry (`Expiring`): a delegate that is to be
called back is no client's, so that nobody else can have it removed.  The second needs
that the fd is polled, or an expiry is on its way, when the thread is about to arm it, and
that the top of the heap is the soonest of all (`TopIsSoonest`, from the well-founded
order of the naturals).  `StopsCorrect` is an action property: it follows from `Expiring` at
the call back, the only step that changes `fired`.

**`GnssNiProofs`** - `TypeCorrect`, `AnswersCorrect`.  The invariant says where a request is
(`Placed`: in exactly one session as long as its thread waits, or in its thread's hands),
what the adapter is about to write (`Writing`), that a session without a request has its
flag set only by an answer that came late (`FlagIsStale`), that a session nothing has
happened to has its request's id and, once an answer was given, this answer or a write of
it to come (`Untouched`), and that what a thread took is its request's own answer (`Taken`).
That a request is in one place only is then a consequence (`PlacedOnce`).

**`GnssTrackingProofs`** - `TypeCorrect`, `ServesCorrect`, `ServesNoOtherCorrect`, the
largest of the proofs.  The two properties speak of states in which nothing is on its way;
the invariant says what every state on the way there promises.  `Typed` narrows the types
to what the code makes (only options that were given, only the closures that go with a
call).  `Counted` relates messages to responses: a client that waits has at most one
request of a session between the adapter, LocApi and back, which is what rules out a closure
that finds the maps changed by its own client.  `Opening` says that the modem is down
exactly as long as its opening is queued, and that what failed meanwhile is handled before
the message that it is up.  `TimeServed` names the options the modem will run when it
has carried out all requests (`Final`) and says that they serve every time-based session
whenever the adapter is not still to restart them.  `Followed` does the same for a single
session: in which of the maps it may be while which closures of it are in flight
(`Placed`), that the modem will run it if it is distance-based (`DistanceServed`), and that
without events it will run no other (`NotRun`).  Queues are described by what the last of
certain requests in them is (`EndsIn`), not by positions; the lemmas on `Has`, `EndsIn`
and `Count` under concatenation and `Tail` carry the rest.  Each handler is first
reduced to what it does (`StartDoes`, `UpdateDoes`, `StopDoes`, `AnswerDoes`), and each
part of the invariant is shown from that.  The hypotheses are `ClientsWait`, which the code leaves to
its clients, and `DbtSupported`; section 4 says what happens without.

**`GeofenceProofs`** - `TypeCorrect`, `DestroyCorrect`, `ModemCorrect`, on `Geofence` with its
clients and `LocationApi`; the longest of the proofs.  `Typed` is narrower than `TypeOK` where the code relies on it: a request has
the number and the fence its call needs and the closure its answer needs, a command has
options for its fences, and a client has callbacks exactly as long as it has its object.
That `Selected` gives a sequence of distinct fences rests on counting through any set of
positions in their order (`Ordered`, by a least counterexample).  `DestroyIsComplete`
speaks of a client that no adapter has; `LetGo` says how it gets there: an adapter that
a destroyed object waits for has its last message to come, no message that adds
the client comes after that one, and an adapter that is not waited for neither has the client
nor will have it.  That is inductive because an interface is loaded before any message adds a
client to it, so that `destroy` waits for every adapter that may have the client.

`ModemCorrect` is about states in which nothing is on its way; the invariant (`Together`)
says of every other state how the adapter will come to have what the modem has.  `Synced`:
there are maps `F` of fences and `N` of numbers, one of each before and after every pending
message, that begin with the adapter's, go from one to the next as the adapter will handle that
message (`Handled`), and end with the modem's fences, but for what is paused; and
every request by a number that is still to be carried out finds the fence it is for in all
of them (`Ready`), so that its answer, which comes last, is handled as it was meant.  A step
that handles a message takes the first maps away; one that carries a request out adds maps at
the end; a removed client and a modem that is up change the maps all along (the lemmas `Way...`).
It stands only with the rest: at most one command for a fence is under way (`OneAtATime`, which is what
clients that wait give), none goes on past the removal of its client (`Leaving`), a fence kept
without a number is about to be removed (`Forgotten`), the maps are inverse as far as numbers are
known (`MapsFit`), and the modem is opened once and after all that is asked by a number
(`Reopening`).  It is kept as long as `NumbersHold`, which once lost does not come back, so
that the theorem needs no fairness and no assumption on the order of events.

**`MsgTaskProofs`** - `TypeCorrect`, `ListCorrect`, `QueueOutlivesItsUsers`, `Refinement`.
The inductive invariant adds to type and list that accepted messages are ascending and
at most `sent` (`Ordered`: so the element that is linked in is a new one) and who holds
the references to the queue at each point of owner and thread (`Holders`: so that it is
destroyed only when both are past their last use).  The refinement maps the list's
history to the channel's pending messages; each step is a step of the channel or a
stutter.

**`OsObserverProofs`** - `TypeCorrect`, `MapsCorrect`, `SubscriptionsCorrect`,
`FrameworkCorrect`, `ClientsCorrect`.  The inductive invariant is the conjunction of
types, inverse maps, the framework's and the clients' properties, and that what the
calls promised is the map from clients to items, from which `SubscriptionAsDocumented`
follows; each handler's step uses that the maps are inverse before it.

**`GptUpdateProofs`** - `TypeCorrect`, `BootableAlways`, `GrantedCorrect`, for every number
of LUNs, restarts and failures and every order of write-back, under the excuses of the
two properties.  The inductive invariant has types, which stages the updater may have
called (`CallsAllowed`), that pages are dirty only inside a call (`Quiet`), and,
as long as `past` is empty, `Sound`: cache and device agree but for the dirty pages
(`Agree`); what is known of the LUN at work at each point of a stage, of its cache (`AtLun`)
and of the pages under way (`Pending`), of the LUNs before it while no error was seen
(`Loop`), of all of them once a stage returned 0 (`Granted`); and what outlives the call: a bad
primary header has a whole backup table beside it (`BadPrimary`), the boot LUN follows
the tables (`BootLunFollows`), a half written image is in a chain no LUN uses (`Torn`), and
the tables that are on the device say the same of boot LUN and images (`DevFollows`).

## 6. Limits

*Only model-checked.*  Liveness (`OpenIsAnswered`, `ClosedHandlesRelease`,
`StartedIsCalledBack`, `AcceptedIsDeleted`, `StartIsAnswered`, `NotificationClears`,
`UpdateCompletes`): the prover does not do fairness.  All of `Batching`, of which
nothing has been proved.  Of `Geofence`
what clients see when all is done (`FencesServed`) and the order of the responses
(`RespondsInOrder`).  What the three runs that expect a violation refute has no theorem.

*Not modelled.*  The components marked `not_modelled` in `PROJECT.json`, each with its
reason there.  In modelled components: the destructor of `LocTimer` and the `C`
interface; list operations no task uses; `turnOn`, `turnOff` and backhaul of the OS
observer; engine hub, N-Hz mode and DGNSS checks in tracking; session ids that wrap
around; reading of batches, batch sizes and reports of positions; breaches of geofences;
the queues of tracking and batching in the client base, `LocationControlAPI`; the binder thread that reports an invalid APN directly; in `gpt-utils`, devices
without UFS (one LUN, no boot LUN), devices without XBL or without backup partitions,
the A/B slot functions on `gpt_disk`, and how LUNs and device nodes are found.

*Abstractions to keep in mind.*  The modem is an environment that may do what the code
has a handler for.  A model with one step per message relies on `MsgTask` and on
handlers that run on one thread.
Small differences: in `Agps` the PDN type is looked up for all connections or for none
(`wds`), where the code also skips it for an empty APN (`GnssAdapter.cpp:5740`); in
`GnssTracking` session numbers are unique over all clients, where the code's keys are of
client and number, and options of size 0, which are refused, are left out; in `LocTimer` timers
of one time are in one order, where the heap may take another.

## 7. The plan

In this order; the first nine points are done.

1. `Agps`, with the proof of its main invariant.
2. `MsgTask` implements `MsgChannel`, with the proof; `LocTimer`.
3. `OsObserver`, with the proofs.
4. `GnssTracking`.
5. `GptUpdate`, with the proofs of its safety.
6. `Batching`.
7. `LocationApi`, `LocationAPIClientBase` and `Geofence`.
8. `GnssNi`.
9. Proofs of `ModemAgrees`, of the safety of `LocTimer`, `GnssNi` and `GnssTracking`, and of
   the types, `DestroyIsComplete` and `ModemHasFences` of `Geofence`.
10. ODCPI: its timer against the modem's requests.
11. `LocHeap` as a function on trees against a set; it would justify the heap of
    `LocTimer`.
