# A formal model of the MMT adaptive-optics control software

The repository holds the programs that run the adaptive optics of the MMT telescope:
a multi-threaded data server in C, a server for the optics of the top box, a Tcl
extension with its user interface, and a few Perl and Ruby servers. This directory
holds TLA+ models of the two C servers, where threads, connections and devices
interact, configurations that check them with TLC, and proofs checked by TLAPS.

Contents: [the system](#the-system) · [what is hard](#what-is-hard) ·
[the modules](#the-modules) · [the runs](#the-runs) · [bounds](#bounds) ·
[fairness](#fairness) · [what is proved](#what-is-proved) ·
[where code and comments disagree](#where-code-and-comments-disagree) ·
[what is not modelled](#what-is-not-modelled) · [plan](#plan)

## The system

The *PC-Reconstructor* (PCR) computes the mirror's commands. It is outside the
repository; the data server talks to it over four TCP connections. The *top box* is the
optical bench in front of the telescope; its server talks to motor controllers, a power
box and a filter wheel.

| Component | State | Operations | Talks to |
|---|---|---|---|
| Frame ring (`data_server/PCR/PCR_GetDM.c`, `PCR_FindSOF.c`, `DServ/DServ_InitDM.c`) | the buffer of frames, `active`, `last`, `dataPtr`; the flags `running`, `continueRunning` | connect, read the frame size, receive a frame in three reads, publish it, give it up | the PCR (one connection); data clients read its memory |
| Data clients (`DServ/DServ_Process.c`, `DServ_GetSingle.c`, `DServ_Stream.c`) | one thread per client; its place in the ring | send one frame, send every frame | the ring, without a lock; the client |
| Camera frames and their clients (`PCR/PCR_GetWFSC.c`, `DServ/WFSC_*.c`) | a second ring, frames of four sizes; the number sent last, shared by all clients | as for the DM ring, and a reset; send the newest frame | the PCR, clients |
| Command channel (`PCR/PCR_SendCmd*.c`, `PCR_Send*Vector.c`) | one connection, `connected`, `sockfd`, the mutex | open, send a command, wait for its reply | the PCR; used by all operator threads |
| Status loop (`data_server/Status/*.c`) | the list of parameters and their positions | ask for "all", read to "EOF", store the values, close and open again | the command channel; the parameter list |
| Operator commands (`PCR/PCR_Process.c`) | one thread per operator | some fifty requests: pass a command on, note it in the list, start, stop and reset the other threads | all of the above |
| Error messages (`data_server/Error/*.c`) | a connection, the last error, the flags of the loop | connect, read an error number, note it, play a sound | the PCR; operators may connect it too |
| Info server (`Info/*.c`) | the list of named parameters; two circular arrays of seeing and strehl values | set, send all, send seeing, reset | clients; the other threads write the list |
| Accept loops (`Data_Server.c`, `DServ/DServ_Master.c`, `WFSC_Master.c`, `Info/Info_Master.c`) | a slot per client thread | accept, start a thread, shut down | all client threads |
| MVP motors and stages (`topbox_server/MVP`, `Stage`) | per motor a socket with its mutex and a `Device_Data` of flags | home, move, abort, reset, set speeds and zeros; a status loop | the controllers, clients |
| Power box (`topbox_server/Power`) | the relays, a socket | switch a relay; a status loop | the box, clients |
| Filter wheel (`topbox_server/Fwheel`) | position, filter, flags; no feedback but the home switch | home, move, third moves | the wheel, clients |
| Smart motors (`topbox_server/Smart`) | focus and rotator behind one socket | home, move; a loop that connects and enables them | the controllers, the encoder, clients |
| Top box status list (`topbox_server/Status`) | a list of pointers into all `Device_Data` | send all | status clients |
| Top box requests and main (`topbox_server/Master`, `Topbox_Server.c`) | two pools of threads, one `Local_Info` per kind of device | accept, serve, home in a thread of its own, exit | clients, devices |
| Tcl extension and interface (`wish/`, `tcl/`) | a connection per server, the state of the windows | commands of the interpreter | all servers |
| Perl and Ruby servers (`bin/`) | sessions with their queues and timeouts | translate protocols, log | the thin shell safety box, telescope, hexapod |

For each component, correctness means:

- *Rings*: a published frame is whole and stays so until the ring comes round; the
  pointers agree; there is one writer; "stop" stops it; a broken connection is made again.
- *Data clients*: a stream has no gaps while the client keeps up; a single reply is of
  one frame, and says truly whether it is a new one; a wait ends.
- *Command channel*: exchanges do not overlap; a command gets its own reply and comes to
  an end; a lost connection is noticed.
- *Status loop, parameter list*: a value is stored under the parameter it belongs to; the
  list shows what the PCR does.
- *Commands*: a command of several exchanges has done what its name says when it ends; the
  loop closes at no gain.
- *Seeing array*: stores stay inside; the values come out oldest first, with their times.
- *Accept loops*: a thread keeps to its own connection; no slot and no descriptor is
  lost; clients beyond the limit do not harm the others; "exit" ends the process.
- *Top box*: a motor is declared homed only where home is; homing ends, and leaves speed and
  trigger as they were; what is shown is what the device says, or becomes so again; a
  request reaches the device it names, and a move the place it was sent to.

## What is hard

Nearly everything is shared memory without locks: there is one mutex for the command
channel, and one per socket in the top box, each held for one exchange. The hazards, each
at its line and with the properties that watch it, are listed in `PROJECT.json`. The main
kinds:

- *Readers beside a writer that takes no lock* (rings, seeing array, parameter list).
- *A connection that breaks between two steps* of a frame or an exchange, and what the
  next connection finds left behind.
- *Answers that come after the timeout*, on a channel that pairs answers with requests
  by their order alone (command channel, power box, motors).
- *Flags of other threads* (`running`, `continueRunning`, `connected`, `sockfd`, the flags of
  a motor) that are tested and then acted on, or stored when they are out of date already.
- *Commands of several exchanges* that interleave with another's, or fail half way.
- *Static memory shared by all clients* (`Local_Info`, `old_frameNumber`).
- *Limits*: a full pool, a slow client lapped by the ring, the wrap of every ring.

## The modules

| Module | Models |
|---|---|
| `FrameRing` | the DM ring and its writer `PCR_GetDM`, with the operator's "connect dm" and "stop dm" |
| `FrameFeed` | abstract: the frames filled last, whole and in order |
| `DServ` | the data clients; extends `FrameRing`, so clients and writer run side by side |
| `CameraFrames` | the camera's ring, its writer `PCR_GetWFSC`, and the clients of `WFSC_GetSingle` |
| `FrameThreads` | which threads receive frames: operators that stop and start them |
| `PcrCommand` | the command channel with operator threads, the status loop and the PCR |
| `ErrorPort` | the connection for errors, opened by `Error_Master` and by operators |
| `Commands` | the commands of operators as sequences of exchanges, and the list of parameters they, the status loop and the error thread write |
| `SeeingRing` | the array of seeing values under set, send and reset |
| `InfoServer` | the list of the Info server: pointers, defaults, texts, clients, slots |
| `ClientPool` | an accept loop with its threads, slots and descriptors |
| `ClientSeats` | abstract: each client served at most once, in a seat of its own |
| `TopSocket`, `TopScript` | top box: a socket with its mutex and one exchange on it; the steps a thread of a motor is made of |
| `Mvp`, `Stage` | the routines of the two kinds of motor, as such steps, and their controllers |
| `Motors` | the threads around one motor: looper, homing, client, and the motor itself |
| `PowerBox`, `FilterWheel`, `SmartMotors` | the other devices, each with its threads |
| `StatusList` | the pointers of the status list, and status clients |
| `HomeRequests` | how a request becomes a thread that homes a device |
| `TopboxServer` | main of the top box server, its two pools, exit |
| `DataThreads` | one run of `CameraFrames`, `FrameThreads`, `ErrorPort`, `PcrCommand` under fairness and `ClientPool` as the other accept loops use it |
| `InfoData` | one run of `Commands` and `SeeingRing` |
| `Devices` | one run of `PowerBox`, `FilterWheel` and `SmartMotors` |
| `Servers` | one run of `StatusList`, `HomeRequests`, `TopboxServer` and `InfoServer` |
| `*Proofs` | theorems, see [below](#what-is-proved) |

The last four compose parts that share no state: a behaviour is about one of them, chosen
in the initial state (`which`), and TLC's states are the sum of theirs, not the product.
Parts that do share state are in one module, or extend it: the clients and the ring; the
commands, the status loop and the error thread over one list; three threads over one motor.

Definitions whose comment begins with "Mistake" or "A mistake" are wrong versions of the
operator below them. No model uses them; putting one in the place of the operator must break the
property that `PROJECT.json` pairs it with, which shows that the property says something.

### FrameRing

`active`, `last` and `buffer` are the fields of `DServ_Data`; `offset` is the distance of
`dataPtr` from the beginning of the active slot. The buffer is kept in *cells*, one for
the marker, one for the frame number and one for each data section; a cell remembers
which part of which frame was written into it. This tells apart what matters (whole, torn,
shifted, stale) and leaves out the floats. A cell can hold `Garbage`, bytes that belong to
no frame, and `Empty`, the zeros of memory never written.

`pc` and `part` say where `PCR_GetDM` is. `Outer` and `Connect` are the loops of lines
76–125, `Hello` reads the frame size (127–188), `Quiet` is a turn without a frame,
`ReadSOF`, `ReadNumber` and `ReadData` are the three reads of a frame, `Publish` moves the
pointers (349–371), `GiveUp` is the common error path that closes the socket and goes back
to the head of the loop with `dataPtr` where it is. `LeaveFrames` is the end of the inner
loop. `StopDM` and `ConnectDM` are the two commands of `PCR_Process`. `Drop` is the PCR
closing the connection.

`MarkerAccepted` and `FindSOF` model the comparison for "SOF" by what it does: the length
of the comparison depends on the bytes behind the marker (`MarkerEnds`), and the search
for a lost marker accepts any 'S' followed by something else. From `LoseStep` on the thread
is within that search (`pc = "search"`), whose reads have no timeout: `SearchSOF` ends it
when the PCR sends a frame, or with the connection.

### DServ

`SingleHeader`, `SingleSet`, `SingleWrite` are the steps of `DServ_GetSingle` (take the
number; take each set from `framePtr[last]`; write it). `StreamStart` … `StreamEnd` are the
steps of `DServ_Stream`: the choice of the first frame, header and sections, the move to
the next slot, the poll for a newer number. `at` and the `log` of `FrameRing` are history:
which frame of the PCR was meant by each thing sent.

### CameraFrames

The same ring with what is peculiar to the camera. A frame is kept as a number and two
*halves*, each of which remembers its frame: a frame cut short by a lost connection, which
the code does not notice while it reads rows, has two different halves. The size of a
frame is told once, in the "hello" of a connection, and says which of four layouts comes
(`CamFormats`, the byte counts of the code; `Margin` are the two that carry rows and
columns that are thrown away). `pointer.astray` counts the bytes that frames given up have
left `dataPtr` beyond the beginning of its slot; what is read then runs into the slots
that follow (`Struck`, from the offsets of "SOF", number and rows). `spoilt` (history) has
the slots that were filled or overrun meanwhile, or published short. The actions named
`Cam_…` follow `PCR_GetWFSC` from loop to loop; `Operator_Reset` is the flag
`PCR_WFSC_reset` that "cam_stop" sets; `Camera_Restart` is the camera started again in
another size. After a reset or a restart something else may come than the thread expects
(`OutOfStep`): it then reads without a timeout, the rest of a size (the place "size",
`Cam_HelloCut`) or, in `PCR_FindSOF`, a marker ("search", `Cam_MarkerMissed`). `Single…`
are the steps of `WFSC_GetSingle`: look at the size and the number, announce them, write
the frame; `old` is its static `old_frameNumber`.

### FrameThreads, ErrorPort

`FrameThreads` has the two flags per kind of thread, and operators that test `running`, set
it and create the thread in three steps, as `PCR_Process` does. `overlapped` and `unmade` are
history: two operators were starting one kind at a time, a thread could not be created.
`ErrorPort` has `Socket_OpenClient` in two steps, for the error thread and an operator,
with nothing between them; `together` is history.

### PcrCommand

A request is a number, a reply line says what it answers. `owner` is the mutex; `OpenBegin`
and `OpenEnd` are `Socket_OpenClient`, outside the mutex; `Send`, `Select`, `Timeout` and
`ReadReply` are an exchange of a command; the actions with `Status` in their name are the
loop of `Status_Master`. Abstractions: the several writes of a vector command are one step;
a status reply appears at once (`Drop` may keep any beginning of it); lines of a reply
beyond `MaxLines` are not kept; a late reply among the lines of a status is a line of its
own, where the splitting at blanks runs it together with the next (which is then passed
over, and with two of them in the first status the search goes on with a null pointer,
Status_ParameterPositions.c:97); all connections report the same list of
parameters. `closed` is a connection whose end shows as a read of length 0, `reset` one
whose reads fail; descriptor 0, which `Socket_OpenClient` leaves behind for a while, is
standard input, at its end.

### Commands

One level up from `PcrCommand`: an exchange either does what it asks for (`Ask`), or fails,
and the PCR may have done it all the same (`Ask_Fails`). `Program` gives each command as its
exchanges in their order, each with what the PCR does, what `PCR_Process` notes in the list
when the reply is "OK" and when it is not, whether a failure ends the command, and the
condition on the list under which the exchange is left out. `poll` is the status reply that
has been read but not stored, `alarm` an error message on its way. `muddled` is history: the
entries that two threads were about to write at a time, or that an exchange which seemed to
fail may have changed. The PCR's part (`Update(pcr, …)`) is the simulator's.

### SeeingRing

A step is one access to `position` or `total_number`; the increments read and write in two
steps. `log` is history: the values stored since the last reset. `orderly` is history too: it
says that no reset came in the middle of a store, after which the two counters disagree
until the next reset.

### InfoServer

`Info_List` has the names in the order of the code, of groups that are alike one each.
`Info_SetPointers` and `Info_ReadFile` are main before the server starts; `Info_SetParameter`
looks a name up by its beginning, in order, as the code does. A text is written and read in
two halves; a client's `Info_Process` sets, sends one entry after the other, or leaves.

### ClientPool

`at` is the process's table of descriptors. An accept takes any free one (the kernel takes
the lowest), so numbers are used again at once. `Scan` looks for a slot as the loop does, one
by one, while threads give theirs back. `Close` is the end of every client thread: close the
descriptor *in the slot*, then mark the slot. `Main` chooses between the loop in
`Data_Server.c`, which an operator's "exit" stops, and the others, which differ in what
happens when a thread cannot be started; `DataThreads` has the others.

### The motors: TopSocket, TopScript, Mvp, Stage, Motors

A routine of `MVP/` or `Stage/` is one or two exchanges under the mutex of the socket.
`Ask(w, dev, failed)` and `Tell(w, dev, failed)` of `TopSocket` give the set of results an
exchange can have (`dev` is the device when it has obeyed, `failed` what the routine leaves
when it could not write): it works, the reply comes after the timeout (the controller has obeyed),
the connection is dead. A longer routine, homing above all, is a sequence of *steps* of
`TopScript`: do a routine and stop if it fails, or undo the speed first, or go on; get flags;
wait for a flag; skip; go back. `Mvp` and `Stage` give the sequences, line by line; `Motors`
runs them for three threads at a time. A flag that was asked for is stored in a second step
(`Thread_Store`), as the routines unlock the mutex first. The controller and the motor are
the simulators of `topbox_server/Source`: the motor moves one stretch at a time, the limit
switch or the armed home flag stops it, at full speed a little late. Positions are
`0 .. Top`; the distances of the code become the ones that matter (into the switch, out of
it, on to home). `clean` is history: since homing began nothing was lost, nothing out of
date was stored, no client moved the motor.

### PowerBox, FilterWheel, SmartMotors

`PowerBox`: a question and the reading of its reply are two holds of the mutex, the reply
read is the oldest on the wire, whichever question it answers. `FilterWheel`: a request is a
list of tasks (count steps, seek the switch, set a flag), every step of the wheel one
action, for any number of threads at once. `SmartMotors`: a request is a list of commands,
between which the looper and other clients come; `Obey` is the controller.

### StatusList, HomeRequests, TopboxServer

`StatusList` has the two tables that must fit, the list in `StatusList.h` and the names main
passes by position, and follows a pointer from the list to the field of the device that a
client is shown. `HomeRequests` has the static `Local_Info` of each `*_Process` with its
fields written and read one by one. `TopboxServer` has accept loops like those of
`ClientPool`, an accept being one step, but two of them in one process, with one limit on
descriptors, and the end of the process. The status server may fail to start while main
goes on. `jammed` says that a motor's reset has left its mutex locked; a client's thread
that asks for that motor next is `stuck`, and keeps its slot.

## The runs

| Run | Module | Shows |
|---|---|---|
| `ring` | `FrameRing` | The frames remembered stay whole, pointers agree (`RingInv`); one writer, and the flag for clients is down when no frames come (`ThreadFlagsTrue`); "stop" ends the thread unless it waits for bytes that never come, and the ring implements `FrameFeed` |
| `clients` | `DServ` | A stream has no gaps for a client that keeps up and loses whole laps otherwise (`StreamsInTurn`), and never waits for ever; each section of a single reply is of the frame that was last in its turn, the number never newer than the data (`SinglesFresh`) |
| `stream_torn` | `DServ` | A stream is sent a frame that is still being received (a disagreement, see below) |
| `channel` | `PcrCommand` | Exchanges do not overlap; the connection carries one exchange; a foreign reply only after a timeout; values in place (`StoredInPlace`) |
| `threads` | `DataThreads` | A camera client gets one whole frame and knows whether it is new (`SingleTruthful`); the camera's thread ends when told, with the same exception, and makes its connection again (`CameraResponds`); one thread per ring, and its flag is right (`ThreadsCounted`); one error connection, listened to again and again; a command ends unless the holder of the mutex reads where nothing will come; the pools of the other servers lose no slot and recover |
| `info_data` | `InfoData` | The list shows what the PCR does except for what was muddled, and becomes right; commands do what they are called and the loop closes at no gain (`CommandsRight`); stores inside the seeing array, the newest values in place (`ArrayRight`), an undisturbed reply in order |
| `pool_main` | `ClientPool` | A thread keeps to its own connection and slot, and the pool implements `ClientSeats` |
| `motors` | `Motors` | Undisturbed homing ends at home, counting from the right place, with speed and trigger put back, for all three kinds of motor and every request of a client (`HomingRight`) |
| `motors_live` | `Motors` | Homing ends, a dead connection is replaced (`ThreadsGoOn`), the flags become what the motor says |
| `motor_home` | `Motors` | After a lost reply a motor is declared homed on its way (a disagreement) |
| `devices` | `Devices` | The status of the relays lags by the late replies and no more, and catches up; a wheel at rest has the filter in its beam that is shown; each move ends; the rotator's position is its encoder's; a move goes where it was asked; the smart motors are shown as they are |
| `servers` | `Servers` | The status list points where it says; what is homed is what was asked for; the top box server keeps its slots apart, answers all but threads that wait for a mutex left locked, and ends when told (`ServerAnswers`); the parameter list's pointers are set before they are used, and a text is read whole (`EntriesOwn`) |

A property that is a conjunction names its parts, which the modules define and comment one by
one. Most modules also have a type invariant; most of them are proved below, and each can be
added to the cfg of its run.

Some properties hold under a condition, and the condition is part of what the run says.
`clean` (ring, clients, motors, wheel), `excused` (camera), `orderly` (seeing), `muddled`
(commands, rotator), `overlapped` and `unmade` (threads), `together` (error port),
`overwritten` (home requests), `stuck` (top box) are the histories described above; each names the one thing
after which the property may fail, and stands where the code does fail (the further
disagreements below) or lets a second actor interfere. `[]Starved` and `[]CameraStarved`, the exceptions of
`StopObeyed` and `CameraEnds`: from some time on the thread waits in a read without a timeout
for bytes that nobody has promised. `~Overtaken` (clients): the ring has
not come round to the slot meanwhile. `Len(givenUp) <= NumParameters` (`StoredInPlace`): as
many late replies as parameters could make up a status reply of the right length. Deadlock
is not checked where threads may rightly end or wait for ever, or a bound ends the PCR's
frames or the requests of clients.

## Bounds

- *Ring*: three slots are the fewest where "last", "active" and one more differ;
  `MaxNumber = 5` frames and `MaxSession = 2` connections bring the writer round the ring
  and back into slots of an earlier connection. Two sections make a torn body visible.
  `Wide` is the number from which the first byte of a frame number is not zero; real
  numbers reach it after 2^24 frames, so it is a constant of its own, below `MaxNumber` only
  in `ring`.
- *Clients*: one client (they do not write, so two do not meet), which streams or asks for
  single frames; one connection of the PCR, since with renumbering `StreamGapless` fails (see
  the further disagreements); five frames, more than a lap. `MaxTries = 1` stands for
  `number_tries`.
- *Camera*: two slots, so that the writer comes back to the first; two formats, one with a
  margin and one without, of different sizes; two clients, since they share
  `old_frameNumber`; two frames sent and one mishap (a reset or a start by an operator, a
  restart or a break) on any of the connections the thread makes; stops are not bounded.
- *Threads*: one kind, two operators, three threads: two that could be alive and one more.
- *Error port*: three connections, four troubles: both threads open, one fails, one breaks.
- *Channel*: two operators and the status loop are the fewest for which a thread can find
  the channel changed by another while a third holds the mutex; two connections, so that
  one can be lost and replaced; two commands, so that a late reply has somebody to reach;
  one parameter and the "EOF". One connection in `threads`, where the question is the mutex.
- *Commands*: two operators with one of nine commands, two commands in all, one failure;
  the nine are those of several exchanges and one each of the simple kinds.
- *Seeing*: two slots, five values: filling, the turn to a full array, and more than one
  further lap. Resets are not bounded.
- *Pool*: two slots, three clients, three descriptors: the pool is full, a slot and a
  descriptor are used again, and both can run out. One slot and two descriptors in `threads`.
- *Motors*: four positions, the fewest with a switch, a flag and a home of their own; one
  poll per wait and two jogs out of the switch, which are counters that only have to end;
  one fault in all, a late reply, a lost connection or a second request.
- *Devices*: two relays, two late replies, one loss, three requests; three filters three
  steps apart, two movers, three requests among them a third move (5), one late step; two
  smart axes of three positions, two clients, two requests, one fault, two tries to connect.
- *Servers*: two status clients; two operators, two requests, three devices of which two are
  served by different functions and the third by a shared one; three clients and one
  watcher, two slots and one, three descriptors; two clients of the Info server, of whom one
  asks, two values set, one of the names a beginning of the other.

## Fairness

- `FrameRing`: weak fairness of `GetDM` unless it is `Starved`. The thread is never told to
  wait by another, and it waits in a `select` of a second or less for each frame and each
  number. The reads themselves have no timeout, so the fairness says that the PCR finishes
  a frame it has begun or the connection breaks. It says nothing of a thread that looks for a
  marker (`PCR_FindSOF`) or reads out of step, since nobody has promised the bytes it waits
  for; only, once the connection has gone, it finds that out. `CameraThread` likewise,
  with `CameraStarved`.
- `DServ`: weak fairness of the stream's own steps only. Nothing is assumed of the writer:
  the wait ends by counting.
- `PcrCommand`: weak fairness of each thread, strong fairness of obtaining the mutex (it is
  free again and again, and a waiting thread gets it in the end), and of the PCR answering
  while it is there. `CommandEnds` has the exception `Deaf`; `ConnectionLossNoticed` shows
  that it is needed: at the end of the stream the status loop reads for ever.
- `ErrorPort`: weak fairness of the error thread alone; troubles are bounded, so that in the
  end a connection stays up.
- `Commands`: weak fairness of the status loop, of the error thread, and of an operator's
  thread once it has a command: each exchange ends, well or not.
- `ClientPool`, `TopboxServer`: weak fairness of the accept loop and of each thread. A client
  may stay for as long as it likes; only once it has gone must its thread find that out,
  unless (`TopboxServer`) the thread waits for a mutex that was left locked: it is `stuck`.
- `Motors`, `SmartMotors`, `FilterWheel`, `PowerBox`: weak fairness of each thread, of a motor
  that moves, and of the host coming back (without it nothing can be promised); none of
  clients, late replies or losses. The mutex is held for one exchange, which is one step, so
  weak fairness of the threads includes that they get it.

## What is proved

The ring, in `DServProofs`, for every number of slots (from two), sections, frames and connections:

- `TypeCorrect`: every variable keeps its type; the indices stay inside the ring.
- `WriterAlone`: `[]ThreadFlagsTrue`: one writer, and nobody is told of frames that do not come.
- `RingCorrect`: `[]RingInv`. The invariant is inductive together with the types and
  `OneWriter`. `RecentFramesIntact` alone is not: to see that the slot being overwritten
  holds none of the frames remembered, one needs that the active slot follows the last
  (`LastIsNewest`) and that frames published one after the other are in slots one after the
  other (`SlotsInOrder`); to see that a frame is whole when published, that all parts so far
  are in place (`ActivePartlyFilled`).
- `RememberedIntact`: `RecentFramesIntact` follows.
- `RingRefinesFeed`: the ring implements `FrameFeed`. A step that publishes appends one
  frame and drops the oldest; all others leave the frames found by walking back from `last`
  as they are.

Its clients, in `DServProofs` too, for any ring, number of clients and request of theirs:

- `ClientTypesCorrect`: `[]DTypeOK`. The clients do not change the ring, so every theorem
  about the ring holds beside them (`DSpecRing`).
- `SinglesAreFresh`: `[]SinglesFresh`. `SingleInv` says where in the log of frames each thing
  sent was last (`SinglePlaces`), and that it was read from there (`SectionsFresh`,
  `NumberTrue`); `Remembers` carries the ring's `RecentFramesIntact` over to what a client
  reads.
- `StreamsInOrder`: `[]StreamsInTurn`, if the PCR does not number from 0 again (`~Restarts`;
  if it does, `StreamGapless` is violated, see the further disagreements). A stream compares the
  numbers in the slots, so this needs an invariant of the ring by itself (`NumbersInOrder`):
  frames are in the log and in the slots by their numbers, and each slot has the newest
  number received for it, even when its frame is not complete.

`PcrCommandProofs`, for any number of operators, commands, connections and parameters:

- `TypeCorrect`: `[]TypeOK`, with two parts it does not say: there are lines left while
  values are being stored, and a thread within a command has a request.
- `ExchangesApart`: `[]OneExchange`, the mutex.
- `ChannelClean`: `[]ChannelHolds`, that the connection carries the exchange of the mutex's
  owner and nothing else but what a timeout left there. It is inductive with the types,
  `OneExchange` and `Wires`: nothing is asked or answered on a connection that was not made
  yet, or is down.
- `RepliesOwn`: `[]OwnReply`. An owner who reads a reply reads the oldest on its
  connection; without a late reply that is the one `ChannelHolds` allows, its own.
- `ValuesInPlace`: `[]StoredInPlace`. The status loop compares the *number* of lines only, so
  what has to be shown is that two replies of the same length have the same lines. As long as
  no more replies are late than there are parameters (`StoredInv`), there is nothing for the
  status but late replies on the connection when the loop asks (`BetweenRight`); what it has
  read and will read is late replies and then the parameters in their order
  (`ReadingRight`); so what it goes by is all of that, or late replies alone, which are fewer
  than the parameters (`ApplyingRight`); and so is the list kept (`ListRight`).

`ClientPoolProofs`, for every number of slots, connections and descriptors:

- `TypeCorrect`, and `PoolCorrect`: `[]PoolInv`. That a thread serves its own connection is
  not inductive: one needs that the slot names that descriptor until it is closed
  (`OwnDescriptor`), that no two threads have one slot (`SlotsHeld`), that the loop fills
  only a slot nobody holds (`Filling`) and that the connection in its hands has no thread
  yet (`InHand`, `Accepted`).
- `ServesOwn`, `NoSlotLost`, `AtMostSlots` (no more clients served than slots: the slots of
  the threads are an injection) follow.
- `PoolKeepsPromise`: the pool implements `ClientSeats`.

`DataThreadsProofs`, for any kinds, operators, threads and connections:

- `ThreadsTyped`; `ThreadsAlone`: `[]OneThread`; `ThreadsFlagged`: `[]RunningIsTrue`;
  `ThreadsCorrect`: both, which is `[]ThreadsCounted`. They have the exceptions `overlapped`
  and `unmade`. The inductive invariant says for each kind, as long as they did not happen:
  one operator starts (`OneStarter`), the flag is down when it has tested and up when it has
  set it (`TestedIsDown`, `SetIsUp`), a thread alive has it up (`AliveIsUp`), there is one
  (`OneAlive`), and a flag that is up has somebody to take it down (`UpIsMeant`).
- `LinksOne`: `[]OneErrorLink`. Where a connection is being made it says nothing, and the
  induction would break there; `AloneOpening` adds that the old connection is gone by then,
  and that nobody else is making one (the exception is `together`).
- `SinglesTruthful`: the action property `SingleTruthful`, and `CameraTyped`. The invariant
  `CamInv` says that what the thread has read of a frame is in the active slot unless
  `dataPtr` is astray (`ReadInPlace`), that the frame handed out is whole and the slot before
  the active one (`LastInPlace`), and how far the writer has come since a client chose its slot
  (`ReplyInPlace`): less than a lap means that it writes elsewhere (`AheadMore`), or that
  what it damages excuses (`StoreApart`). It would not hold with the history
  of the damage left out: a frame stored astray can reach the newest one, which then is in
  `spoilt`.
- `DataThreadsRight`: all three at once, for the composition that the run checks.

`InfoDataProofs`, for any operators and commands, for an array of any size and any number of
clients that read and reset, with one that sets values (`SingleWriter`; with two,
`StoresInside` is violated, see the further disagreements):

- `InsideTheArray`: `[]StoresInside`, wherever a reset comes: `position` is below the size
  between its increment and the wrap (`PositionInside`).
- `NewestInPlace`: `[]ArrayHoldsNewest`, and `ArrayCorrect`: both, `[]ArrayRight`. `Orderly` says
  what the counters and the slots are at each step of a store (`StoreOrderly`), at rest
  (`RestOrderly`) and within a reset (`ResetOrderly`); the arithmetic is in lemmas on
  remainders: the next slot (`NextSlot`), and that fewer than `Size` values in a row are in
  different slots (`SlotsApart`).
- `QuietReplyIsRight`: `[]QuietReply`. As long as nothing touched the array, what has been sent
  is the beginning of it, or its end and then the beginning (`HasSent`); which values these
  are follows from `ArrayHoldsNewest`.
- `ListShowsThePcr`: `[]ListFollows`. `Told` says of an entry that is not muddled that all
  who are about to write it (operators, the status loop, the error thread) have in hand
  what the PCR does. That no two of them disagree is what `muddled` excludes; that a
  command in hand notes just what it made the PCR do is a fact about all its exchanges
  (`HonestProgram`).
- `CommandsDoRight`: the action property `CommandsRight`. `Sure` says of a command that was
  alone when it began and met no failure what it has done so far (`Does`) and what of the
  list it still relies on (`Relies`: an exchange is passed over because of what the list
  shows), and why nothing comes between: whoever asks the PCR, or the PCR itself, takes the
  promise away from all others, and the only exchange that does not (one without a reply)
  notes nothing that matters (`Silent`, `CalmProgram`).
- `InfoDataRight`: all of these at once, for the composition that the run checks.

`ServersProofs`, for any clients, operators, devices, slots and number of requests:

- `TopTyped`, and `TopSlotsHeld`: `[]SlotsHeld`, for both pools at once. They are inductive
  together only: that the slot just taken is nobody's needs that a connection waiting to be
  accepted has none.
- `HomesOwn`: `[]HomesWhatWasAsked`. The invariant follows what is in the shared `Local_Info`:
  no two requests are one (`RequestsApart`), what a client has filled in stays there
  (`FilledIn`) and what the new thread has yet to take is there still (`TakenOver`), unless the
  request is `overwritten`.
- `EntriesRight`: `[]EntriesOwn`. Each flag has its pointer once main has come past the step
  that sets it (`PointsSomewhere`), and nobody is served before (`RepliesBegin`); a client
  that is copying a text has the last value in hand and its first half in place, as long as
  it is the only one who has set it (`Copying`). `FindsOwn`, over the whole of `Info_List`,
  says that the search by the beginning of a name finds the entry of that name.
- `ListShownRight`: `[]ShownIsRight`. The invariant (`ListInv`) follows main from one device to
  the next: the devices set up so far are zeroed, and the entries of the list about them
  point where the names say; nobody is served before all are. That each setup points
  right, and at no entry of another device, is shown for the two tables device by device
  (`SetupsFacts` and the lemmas before it).
- `ServersRight`: the four at once, for the composition that the run checks.

`DevicesProofs`, for any relays, filters, steps and threads:

- `StatusLateByLateReplies`: `[]BehindByTheLate`, with one part more: nothing is on its way
  over a connection that is dead.
- `FilterInBeamIsShown`: `[]FilterShown`. `CleanMoves` says that one thread at a time moves the
  wheel, and what may be left of its tasks at every step (`OnTheWay`): wherever the wheel
  stands and however it goes, directly, past home or homing first, the steps still to be
  counted end at the filter that is then shown (`Counted`); a move that failed ends with the
  wheel not homed. The arithmetic is modulo the steps of a turn.
- `HomedRotatorCountsEncoder`: `[]RotationTruthful`. A client that is about to set the position
  has the encoder's in hand, one about to declare it homed has set it (`ThreadInv`).
- `MovesGoWhereAsked`: the action property `GoesWhereAsked`, from the same invariant: the goal
  left with the controller is the one of the client who says "G".
- `DevicesRight`: all four at once, for the composition that the run checks.

`MotorsProofs`, for all three kinds of motor, any range of places that has room for switch, flag
and home, and any number of polls, jogs, faults and requests:

- `HomingIsRight`: the action properties of `HomingRight`, that a motor is declared homed only
  where home is, at rest and with the position counted from there, and that the end of
  homing leaves speed and trigger as they were. A routine of homing is a list of some thirty
  steps, run while the motor moves and the looper stores flags; what is true when
  homing is declared follows from all of them. So the invariant is an *outline*: for each step
  of each routine a phase the motor is in before that step (`Phase`), what the phase says of
  the motor (`In`: on its way down to the switch, at its edge, up to the flag, …), what is
  known beside (`Extras`: zero, speed, trigger), and what a flag got or stored in that phase
  can be taken to say (`Tells`). It is inductive for four reasons, each a group of lemmas:
  a motor that moves stays in its phase (`PhaseGoesOn`); each routine of a controller
  does what it is named for, or a fault has happened (`CallGives`); each step of each script
  leads from its phase to the next, on every way out (`Fits`, put together to
  `Outlined` for the three scripts in `FsmFits`, `OapFits`, `StageFits`); and what other
  threads do leaves the outline alone (`Beside`): the looper moves nothing, and the flags it
  stores were got in this phase or say what is still so. The last is the delicate part: flags
  that were got before a move are marked (`got.old`), and storing them takes `clean` away.
  Where a wait goes on because of a flag, the phase is left by what the flag tells, however
  many polls it took.
- `MotorsTyped`: the type invariant. What is not plain in it is that no thread ever leaves its
  script (`Within`), since a step that fails or is skipped may jump over several: a script is
  put together from pieces, and each jump stays in its piece (`Inside`, `Stays`), which
  `LaidOn` joins to whole scripts along with the outline. Only a looper is sent elsewhere, to
  the step at which it closes the connection.

The assumptions are the named ones in the modules (`ConstantsAssumption`, `PoolAssumption`,
`CommandAssumption`, …): types of the constants, and that names for "nothing" are not also
names of something; `FrameThreadsAssumption` also says that there are threads for main to
start, `ErrorPortAssumption` that descriptors of connections are positive,
`ListAssumption` that "no pointer" is not the name of a flag, `CommandsAssumption` that the
commands sent are among those `Program` knows, `InfoAssumption` that the texts clients set are
among those of the list. TLC evaluates them on every run.

Every invariant and every action property that the passing runs check is a theorem. Only
model-checked is liveness, which is beyond the prover: `StopObeyed`, `StreamNotStuck`,
`ThreadsGoOn`, `DataCatchesUp`, `RelaysCatchUp`, `MovesEnd`, `SmartShown`, `ServerAnswers`,
`CameraResponds`, `ErrorPortListens`, `CommandEnds`, `PoolRecovers` and `ListCatchesUp`.

## Where code and comments disagree

Two disagreements are runs that end in a violation; `PROJECT.json` quotes both sides.

1. `stream_torn`: a stream that has caught up takes a slot for filled once its number is in.
2. `motor_home`: after a reply that was late or lost, homing goes on with the flags of before
   the move, and sets the home where the motor is passing.

*Further disagreements.* These properties are stated in the modules, at their end, and have
no run in `PROJECT.json`. To see TLC's counterexample, take the named cfg, put the
property in the place of the ones it has, and make the changes of the last column.

| Property | What the code does instead | cfg, and what to change |
|---|---|---|
| `MarkerFound` | `PCR_FindSOF` succeeds after any 'S' and two bytes (PCR_FindSOF.c:73) | `FrameRing_ring` |
| `StopAlwaysObeyed` | "to allow the user to shutdown this thread" (PCR_GetDM.c:209), but the search for a marker reads without a timeout and looks at no flag (PCR_FindSOF.c:34) | `FrameRing_ring` |
| `CameraAlwaysEnds` | The same for the camera, whose rows and whose size are read so, too (PCR_GetWFSC.c:163) | `DataThreads_main`, as a property |
| `DataPtrAtActive` | After a frame given up half way `dataPtr` (DServ.h:96) is not at the beginning of the active slot; the next connection's frames are stored shifted (PCR_GetDM.c:275) | `FrameRing_ring` |
| `StreamGapless` | Numbers that start again at 0 let stale slots pass for new frames (DServ_Stream.c:607) | `DServ_stream_torn` with `Restarts = TRUE`, `MaxSession = 2`, `MaxNumber = 4` |
| `SingleIsOneFrame` | A reply of several sets can be made of several frames (DServ_GetSingle.c:259) | `DServ_clients`, as an invariant |
| `CameraFramesWhole` | A camera frame that breaks off is published all the same (PCR_GetWFSC.c:404) | `DataThreads_main`, as an invariant |
| `CameraSizeRight` | After a start in another size the last frame is sent with the new `wfsc_bytes` (DServ.h:78), until the first frame of that size has come (WFSC_GetSingle.c:94) | `DataThreads_main`, as an invariant |
| `GivenInTime` | What a thread is given lies on the stack of the operator's thread, which may have gone (PCR_Process.c:1243) | `DataThreads_main`, as an invariant |
| `ConnectionLossNoticed` | When the PCR closes the connection the status loop never notices, and holds the mutex (Status_ReadLine.c:31) | `PcrCommand_channel` with `FairSpec` |
| `NoCollisions` | A reply that comes after the timeout is taken by the next command (PCR_SendCmd.c:104) | `PcrCommand_channel` |
| `ListPerConnection` | A command opens the next connection before the status loop has seen the loss; the old list of parameters stays in use (Status_Master.c:81) | `PcrCommand_channel` |
| `OneConnection` | Two threads connect at once; one connection is never closed (Socket_OpenClient.c:86) | `PcrCommand_channel` |
| `CamStopsOpenLoop` | The loop may be closed between the test and the stop (PCR_Process.c:559) | `InfoData_main`, as a property |
| `OldestFirst` | A value stored during a reply comes out of order, with another's time (Info_SeeingArray.c:49) | `InfoData_main`, as an invariant |
| `StoresInside` | With two clients that set values one can store past the end (Info_SetParameter.c:131) | `InfoData_main` with `Writers = {w1, w2}` |
| `NoDescriptorLost` | A client accepted when the pool is full is neither served nor closed, and its descriptor is lost (DServ_Master.c:207) | `ClientPool_main` |
| `CancelsCreated` | After a failed `pthread_create` main cancels a thread that never was (Data_Server.c:782) | `ClientPool_main` |
| `PowerReconnects` | `Power_Looper` opens a new connection and then marks it as not connected (Power_Looper.c:153) | module `PowerBox`, `Power_Spec`, the first four constants of `Devices_main` |
| `OneHoming` | Whether homing runs is looked up under a flag of the request, not of the device (MVP_Process.c:147) | `Servers_main`, as an invariant |

*Remarks.* Met while modelling; the models do what the code does, and no property is about
them.

- `PCR_SendFloatVector` returns 0 whatever happens (326), and for a name it does not know it
  returns with the mutex locked (206).
- `PCR_Process`: "cam_bg_set" notes the background although the vector was not sent;
  "loop_close" closes the loop although the gain was not set; "dm_cmd" compares the
  un-lowercased "Save_Data_On"; requests are compared by their beginning, so "cam" is any of
  the "cam_…"; "get" requests test the status as it was a second ago.
- `PCR_GetWFSC`: `nvalues` is uninitialised for a size it does not know (396); a reset without
  a closed connection reads bytes of a frame as a size, which ends the thread; with a margin,
  the success of the last rows only is looked at.
- `WFSC_GetSingle` announces a size and writes as many bytes as the size is by then (94, 161).
- The Info list shows `Info_Running`, `DServ_…_Running` and `PCR_Client_Running`, which nobody sets.
- `Info_SetParameter` with an unknown name goes on with an uninitialised position;
  `Info_SeeingPositions` (99) and `Status_ParameterPositions` (107) test a pointer where the
  value is meant; `Status_Process` and `Error_Master` (101–112) set or test the pointer
  `continueRunning` instead of what it points to.
- `Error_Master` plays its sounds, more than two seconds, before it clears the flags.
- `Local_Info` is static: requests for two devices of one kind that interleave home one
  device over the socket of the other (`HomesWhatWasAsked` has this as its exception).
- `MVP_ResetNode` returns with the mutex locked when its reply is late or never comes (81);
  everything that needs the socket then waits for ever (the exception of `motors_live`), and
  the threads of clients among it keep their slots (the exception of `servers`).

## What is not modelled

- *Values*: floats, images, the numbers in a status; the conversions between byte orders
  and frame layouts, which are permutations without state.
- *Late replies on the motors' connections*: the model drops them. In the code one stays on
  the wire; the flush before each write waits a millisecond only (Socket_Flush.c:35), so the
  next `MVP_Read` may take it (`MVP_Status` takes any reply that is long enough, 90–115).
  `HomingRight` keeps clear of it: a late reply takes `clean` away, and `MVP_Enable`, with
  which homing begins, sleeps before it asks again, so that a reply late from before is
  flushed.
- *Partial writes* of `Socket_Write` and the byte streams below a line of text.
- *What a connection's thread did with the channel when it is cancelled*: the process ends
  a second later.
- *Some requests*: the repeat flag of a single reply, the "wait" and "status" replies of a
  stream; the vector routine that returns with the mutex locked; of commands that are alike
  (`cam_full` and `cam_bin`, the gains, the switches) one each.
- *Old or unused code*: `DM_Master.c` and `serv.c` are not built; `Status_ReadFile` and
  `Status_SetParameter` of the top box are not reached by any request.
- *Simulators*: `data_server/Source` and `topbox_server/Source` are read as evidence of what
  the PCR and the controllers do; their own accept loops are not modelled.
- *The Tcl extension and the user interface* (`wish/`, `tcl/`): one thread and one event loop
  over blocking calls; most of it is argument checking, numerics, plotting and layout. What
  they send is among the requests the servers' models accept in any order.
- *The Perl framework and the Ruby programs* (`bin/`): event loops of their own that talk to
  other instruments; they share nothing with the modelled servers.
- *Scripts and build files.*

## Plan

Done, in the order of their weight for the system:

1. `FrameRing`, `FrameFeed`, `DServ`; proofs of the ring's invariant and refinement, and of what
   its clients are sent.
2. `PcrCommand`: commands and status over one channel; proofs of its mutex, of what the
   connection carries, of whose reply a command gets, and of where the values of a status go.
3. `SeeingRing`, `InfoServer`, `Commands`: what the Info server shows and who writes it; proofs
   about the array and its replies, the list and its texts, and the commands.
4. `ClientPool`, `ClientSeats`; proofs of the pool's invariant and refinement.
5. `CameraFrames`, `FrameThreads`, `ErrorPort`; proofs about what the camera's clients are sent,
   the threads and the error port.
6. The top box: motors, power, wheel, smart motors, status list, requests, main; proofs about
   its pools, its status list, what is homed, each of its devices, and homing.

Left: the byte level of the sockets (`FindSOF`, the read
and write loops) as operators checked against their definitions; the connections of the Tcl
extension and the session queues of `bin/IO/AOserver.pm` and `AObuffer.pm`.
