# Verification of the Gumstix acquisition software

TLA+ models of the kernel drivers of a GPS-synchronised acquisition board (a
Gumstix Overo, OMAP3, Linux 3.5) and of the class that uses one of them, TLC
configurations that check them on small
instances, and TLAPS proofs of their main properties for every value of the
parameters.

Abbreviations used below: **S** is
`ifsttar-drivers/ifsttar-synchronization-drv/ifsttar-synchronization-drv.c`,
**G** is `ifsttar-drivers/ifsttar-gpio-drv/ifsttar-gpio-drv.c`, **C** is
`ifsttar-drivers/ifsttar-spi-drv/Ifsttar_can_spi/ifsttar_can_spi.c`, **K** is
`spike/spike.c`, **CG** is `Classes/CGPIO.cpp`.

## 1. The system

| Part | State it keeps | Operations | Talks to |
|---|---|---|---|
| Synchronization driver (S) | state machine, GPS data (official, temporary), quartz error ring, drift counter, off time, read flag and kind, two hardware timers | interrupt handlers of the real Pps (capture timer) and of the simulated Pps (relay timer), read, poll, 12 ioctls, exported date function, load/unload | the GPS process (ioctl), readers, the gpio driver (exported date) |
| Gpio driver (G) | table of attributes per pin, wait queue | open, close, read, write, poll, 7 ioctls, interrupt handler, load/unload | kernel gpio and irq services, synchronization driver, CGPIO |
| can_spi driver (C) | transfer state, semaphore, wait queue, buffers | open, close, read, write, poll, ioctls, completion handler, probe/remove, load/unload | SPI master, applications, spike (one chip select for both) |
| spike driver (K) | two semaphores, one message, buffers | open, read, ioctl, probe/remove, load/unload | SPI master, class LM74, can_spi |
| CGPIO, CEvent | file descriptors, event thread, callbacks | Open, Close, Read, Write, Register/UnregisterCallback, event thread | gpio and synchronization drivers |
| HTTPClient, Gestionnaire, LM74, PIRSTDLPSensor | one request; none | a chain of asynchronous handlers; a straight main program | devices, a web server |
| omap2_mcspi, overo/ | | third-party code | |

What is hard in it:

* **Interrupts against system calls.** The first two drivers take no lock, the
  SPI drivers release theirs before they are done. A handler can
  run between any two statements of a read or an ioctl, and because the kernel
  is preemptible (the modules' vermagic says so) so can another system call.
* **Static local variables.** Many functions declare their locals `static`,
  which makes them shared by all callers.
* **Two clocks for one time.** The real and the simulated Pps both drive the
  official time; they are handled in either order, and either may be missing.
* **Wrapping arithmetic.** Timer registers and counters are 32-bit words; the
  code mixes signed and unsigned interpretations.
* **Partial failure.** Opening a pin, requesting an interrupt, copying from a
  user and mapping a register can fail in the middle of an operation; loading a
  module is a dozen such steps, with labels that undo some of them.
* **The life of things.** Buffers, devices, descriptors, wait queues and threads
  outlive the pointers to them, or the pointers outlive them.

The list with line numbers is under `hazards` in `PROJECT.json`; section 5 adds
those that lie outside the models.

What makes each part correct:

* read protocol: no announced event is lost or stranded, every read returns,
  and returns the reason it was unlocked for;
* state machine: the GPS is turned off (that is, declared off: the line that would
  drive its pin low is commented out, S:497) only when its replacement runs and
  the quartz has been measured, is turned on again in time, and the official time
  advances by one second per second whoever drives it;
* arithmetic: dates and errors are exact across every wrap;
* gpio driver: a handler, a booking and a multiplexer mode belong to an open
  pin and are given back; a read returns its own pin's event;
* loading: an interrupt finds the module and the timer it belongs to;
* SPI drivers: a semaphore excludes and is given back, a device and a buffer are
  used while they live and by their owner, a sleeper is woken;
* CGPIO: the flag says whether there are callbacks, there is an event thread
  while there are, it fetches every event, and it ends when told to.

## 2. Modules

| Module | Models | Runs | Proofs |
|---|---|---|---|
| `ReadWait` | `Synchronization_read` and the announcement of an event | `read_reason` (and below) | `ReadWaitProofs` |
| `SynchronizationLoad` (extends `ReadWait`) | insmod, its failures, rmmod, with interrupts and readers | `readwait` | `SynchronizationLoadProofs` |
| `Synchronization` (extends `ReadWait`) | the state machine: both handlers, the ioctls that change state, the second | `sync_safety`, `sync_live`, `sync_alternates`, `sync_double` | `SynchronizationProofs` |
| `TimerMath` | the arithmetic on timer registers | `timer_math`, `quartz_average` | `TimerMathProofs` |
| `Gpio` | the gpio driver | `gpio_pins`, `gpio_read`, `gpio_own_event` | `GpioProofs` |
| `CGPIO` | the class CGPIO over one gpio | `gpio_read` | `CGPIOProofs` |
| `Semaphore` | abstract: a semaphore of count 1 | (refined in `spi_drivers`) | |
| `SpiBus` | the chip select and the loading that both SPI drivers share | `spi_drivers` | `SpiDriversProofs` |
| `CanSpi` (extends `SpiBus`) | the can_spi driver | `spi_drivers` | `CanSpiProofs` |
| `Spike` (extends `SpiBus`) | the spike driver | `spi_drivers` | `SpiDriversProofs` |
| `SpiDrivers` (extends `CanSpi`, `Spike`) | both drivers on one board | `spi_drivers` | `SpiDriversProofs` |

The `MC...` modules only name the members of the constant sets; `MCGpioClient`
also puts the driver and the class side by side in one run. Definitions
whose name ends in `_Something` and whose comment begins with *Variant* are
deliberately wrong versions of the definition they stand before; no
specification uses them. They show that the properties can fail.

### ReadWait (S:1051-1095)

One action per statement that touches shared state: the test of `m_bReadDone`,
the sleep, the wake-up or signal, the clearing of the flag, the test of the
kind with the copy, the clearing of the kind. `Unlock` is what both interrupt
handlers do. The module is also the abstract specification of the
synchronization driver as seen by its readers: `Synchronization` implements it
(`ReadSpec` is a PROPERTY of `sync_live` and theorem `ImplementsReadWait`).
`unreported` is a history variable.

### SynchronizationLoad (S:1320-1839)

`Synchronization_initialize` with its three configuration functions is the
sequence `InitSteps`; `StepSucceeds` and `StepFails` take one step of it, the
latter with what the labels undo (`UndoneByConfiguration`, `UndoneByLabels`).
`Synchronization_cleanup` is `CleanupSteps`. It unregisters the class twice
(S:1829-1830): between the two the class is freed, so the second may kill rmmod
(`ClassDestroyKills`), after which the kernel refuses to load the module again
(`InsmodRefused`). `held` survives a failed load, as
the kernel's resources do; `gone` are the handlers that stay registered when
their module has gone. The state machine is reduced to the order of its states;
`Synchronization` is shown to take no step this module does not allow a loaded
driver (`LoadedPhase`, theorem `ImplementsLoadedPhase`).
Interrupts arrive between any two steps; insmod is shorter than a second, so one
Pps at most is handled in it. Readers are those of `ReadWait`; the device is read
only after insmod has returned.

### Synchronization

`PpsTimerIrqHandler` (S:685-931) is a disjunction over the five states followed
by what all states share, `PpsEpilogue`; `RelayTimerIrqHandler` (S:578-669)
likewise. Each is one action: with one core and interrupts disabled in the
handler nothing of the driver runs meanwhile. `SET_TEMPORARY_GPS_DATA` is three actions, since
a handler can run between the copy and the flag and the copy can fault; the
other ioctls write one word. `gpsStatus` is the variable `m_bGpsStatus`, not the
power of the receiver.

* `Tick` begins a new second; the handlers of a second finish in it. `PpsEdge`
  raises the capture interrupt at most once a second, or not at all: missing
  Pps are behaviours of the model. `interval` is the seconds between the last
  two edges, capped at `MaxGap`.
* A relay timer of period `relayPeriod` overflows every so many seconds. Its
  realignment (the tenth interrupt, S:645) with the edge of an earlier second
  moves it by whole seconds; the three possible results are the disjuncts of
  `RelayRealign`.
* `added` is the number of seconds added to the official time in the current
  second, which is all the properties need of it.
* `settled`, `astray`, `loadedOff` and `offCount` are history variables.

Bounds: `WORD` is 2^32 in the code and 3 or 4 in the runs, so that the off-time
counter wraps within a run; the table has 1 or 2 slots instead of 16, the
preemption ring 1 instead of 32, the realigning interrupt is the first or
second, a minute has one second. `MaxGap = 2` lets one Pps be missed. Off times
0, 2 and 3 include zero and one beyond the limit. The proofs remove these
bounds.

### TimerMath

The same handlers at the grain of timer ticks. `counter`, `last`, `reload` and
`relay` are registers of `WORD` values; `elapsed`, `exact`, `period` and `due`
are the counts they stand for, which do not wrap. `Pps` is the part of the
handler that computes (error, reload value, last timer value); the decision to
switch off is left open. `Realign` covers an overflow that came after the edge it is
aligned with (relay late) and one that came before it (relay early, S:631); its
guard leaves out the edges so long ago that the result passes the end of the
counter, which are in `Synchronization`. In the runs a word has
16 values and a second 5 ticks, with intervals of 4, 5, 6, 12 and 17 ticks: a
tick early and late, missing edges, and more than one turn of the counter. The
relay timer is loaded with the interval of any two edges, and the clock of the
two timers is the same (the code requires that, S:780).

### Gpio

The configuring thread opens, closes and configures pins; each open pin has an
event thread that reads it and asks for the date of its last event, which is how
class CGPIO uses the driver. `readMinor` and `ioctlMinor` are the static
variables `minor` of `Gpio_read` and `Gpio_ioctl`. The ioctls that touch the
interrupt are cut at each of the kernel's calls (`free_irq`, `gpio_free`,
`request_irq`, `gpio_request`) and at the accesses to `bMode` and `bDone`, since the
kernel is preemptible and the static `minor` is read again at each. So in
`SET_INTERRUPT` a pin is free before it leaves the Input/Output mode (G:859, G:861),
which `PinHeld` has to name as an exception; `FREE_INTERRUPT` books before it sets
the mode and has no such moment.
Pins in `Faulty` are those on which `ioremap`, setting a direction or
`request_irq` may fail; pins in `Contended` are booked and freed by other
drivers as well. `claimed` says that another driver has booked a pin and will
free it one day, whoever holds it by then.

`SerialIoctls` is an assumption on the applications: an event thread does not
ask for a date in the middle of an ioctl of the configuring thread. Without it
the static `minor` makes `SET_INTERRUPT` continue on another pin, and neither
`HandlerOwned` nor `PinHeld` holds (TLC refutes both); `MuxRestored` does.

Bounds: two gpios are enough for one read to replace the minor of another. In
`gpio_pins` one of them is faulty and contended.

### CGPIO (CG, with G as the class sees it)

Every public method that changes state is one action. The programs of the
repository call them from one thread and never from a callback, and the model is of
such programs: the class has no lock, so a registration that overlaps another call
(between CG:430 and CG:454, or CG:507 and CG:525) is outside it. `OnGpioEvent` is cut
at the poll and the read (both wait in the driver and hold a reference to the file,
so that a descriptor closed behind their back is given back by the last of them:
`LeaveFile`), the callbacks, the deletion of the event and the test of
`m_bThreadRunning`. The thread object that `RegisterCallback` creates is a local
variable that hides the member, so nothing ever waits for a thread: `Threads` is
a bound on how many are alive at once (three in the run), `Callbacks` on the
connections (two). `CEvent` closes a descriptor it never initialised, which
`DeletesEvent` models as closing nothing that matters or the gpio. Values, dates and user
pointers are left out. `byHand`, `rushed`, `asked` and `refused` are history
variables.

`MCGpioClient` instantiates the driver next to the class; a behaviour exercises
one of them (`side`), since the class has its own view of the driver's table
entry in which several threads use one gpio.

### SpiBus, CanSpi, Spike, SpiDrivers

Both drivers want bus 1, chip select 1, and are loaded by the same steps, so
`SpiBus` has the resources a driver holds, the device on the bus and the pointer
to it; the drivers add what their own error labels and exit functions release.
Init functions and exit functions are one action each: no file is open during
them.

`CanSpi` cuts the file operations at the semaphore, at `running` and at the wait
queue, and the completion handler at each of its statements, since threads
run between them. The queue can be initialised by an open while others are in
it; a member that was dropped so writes, when it leaves, to its old neighbours
(`Unlinked`). The message can be submitted while the SPI master has it: it is then
completed once, twice or, if it was still queued and so linked to itself, again and
again (`Endless`).

`InitSteps` are the resources that the init functions acquire. What open allocates
(`user_buff`) is followed by `userBuff` and `spikeUser` with the damage they record;
the reference that `bus_find_device_by_name` takes (C:316, K:341) is never put and
not modelled.

`Spike` has both semaphores, the contents of the receive buffer as *whose* they
are, and what `user_buff` points to.

`Semaphore` is the abstract specification of what the drivers want of their
semaphores; `fop_sem` of can_spi implements it with the path that abandons it
(`CanFopSpec`), both semaphores of spike without (`SpikeSemaphores`). The
refinement mappings take the threads between down and up from their places in
the code, never from the count.

A behaviour of `SpiDrivers` opens the files of one driver (`inUse`) while both
are loaded, unloaded, bound and unbound; the file operations of one touch nothing
of the other, and theorem `BothInUse` shows that the bound hides no violation. Two
threads per device are the fewest that can disturb each other; the proofs have any
number.

## 3. What the runs show

Passing runs:

* `readwait` (two readers, loads and unloads): `NoStrandedEvent`,
  `InterruptFindsDriver`, `ReadReturns`. A handler that a failed load leaves
  registered does no harm, because its timer does not run and the class that was
  left with it keeps every later load from enabling it.
* `sync_safety`: `TypeOK`, `AverageOverMeasuredOnly`, `RelayCarriesClock`,
  `OneSecondPerSecondWhileOff`, `RestartOnTime`, `TimeSinceOffIsExact`,
  `SwitchOffIsSafe`.
* `sync_live` (one reader): `ReportedOnce`, the refinements `ReadSpec` and
  `LoadedPhase`, `ReadReturns`, `GpsTurnedOnAgain`.
* `gpio_pins`: `HandlerOwned`, `PinHeld`, `MuxRestored`.
* `gpio_read`: of the driver, `GpioReadUnlocks` (`ReadUnlocks`
  of module `Gpio`); of the class,
  `RunningIffConnected`, `AlwaysServed`, `PollReplacesRead`, `OneWayNeverRefused`,
  `EventFetched`, `ThreadsEnd`.
* `spi_drivers`: `SpiTypeOK`; of the bus, `DeviceIsOwn`, `UnloadedLetsGo`
  (of the resources of the init functions only `rx_buff` of can_spi outlasts an
  unload or a failed load; a device left on the bus is bound to nobody); of
  can_spi, `SleeperQueued`, `WokenHasBuffer`, `HarmlessUntilClosed`, `CanFopSpec`,
  `SleeperServed`; of spike, `NoForeignSample`, `HarmlessUntilSampled`,
  `SpikeSemaphores`, `SpikeReturns`.
* `timer_math`: `MicroSecondExact`, `QuartzErrorWithinOneTick`,
  `RelayOnSchedule`.

Some hold under a condition that the code needs and does not enforce. The
conditions are part of the formulas: the relay timer was loaded with an interval
of one second and realigned with the edge of the same second
(`OneSecondPerSecondWhileOff`); the off time is not 0 (`RestartOnTime`) or not
changed meanwhile (`TimeSinceOffIsExact`); no open of the pin failed and its
register could be mapped (`MuxRestored`); ioctls of different threads do not overlap
(`HandlerOwned`, `PinHeld`), the driver never freed the pin under another owner and
is not between `gpio_free` and the mode in `SET_INTERRUPT` (`PinHeld`); the module was never unloaded in `Switch_Gps_to_Off`,
where its relay timer is left running (`InterruptFindsDriver`); no can_spi file
was closed yet, since close frees a buffer that stays in use, and no other device
was on the bus at the load (`HarmlessUntilClosed`); no open has initialised the
queue under a poller (`SleeperQueued`, `SleeperServed`); no read of spike has
succeeded, since that replaces a pointer (`HarmlessUntilSampled`); no first
callback was registered while the thread of the previous ones still ran
(`PollReplacesRead`); no callback was disconnected by its connection
(`RunningIffConnected`). Each such condition is a defect of the code that the
property delimits rather than catches: the defect is there, the condition names it,
and the property says that there is no other way to the same harm. The notes under
`hazards` in `PROJECT.json` say for which hazard a property does only that.

`SwitchOffIsSafe` asks for as many valid data as the table has slots, and not for as
many in a row: a miss only takes one off the drift counter, so that 20 valid data
with 4 misses between them switch the GPS off as well, while the header says that the
GPS has to be stable "for some seconds (default 16)"
(`ifsttar-synchronization-drv.h:54`).

Runs that find the code and its documentation in disagreement:

* `read_reason`: of two readers unlocked by one Pps, the second returns 0 bytes
  instead of the reason (S:1043, S:1089).
* `sync_alternates`: MODE3 is said to alternate on and off periods; the code that
  leaves `Gps_Off` is commented out (S:872), so there is one off period only.
* `sync_double`: in the second in which the GPS is turned off both handlers can
  add a second (S:827, S:605), which the verification thread calls an error
  (S:551).
* `gpio_own_event`: a read takes and returns another gpio's event (G:588).
* `quartz_average`: negative quartz errors are averaged as unsigned numbers
  (S:465-474).

Fairness. A thread inside a system call is scheduled eventually and a raised
interrupt is served: weak fairness on the steps of a read in progress, on the
ioctl's second half and on the handlers. The timers run (`Tick`), the GPS pulses
now and then (`PpsEdge`), a registered gpio event happens again: these are the
hardware's. Nothing is assumed about which calls applications make or about
signals. The SPI master completes what it was given. `down` queues its waiters in
their order, so a thread that waits for `spi_sem` of spike gets it although others
come: strong fairness on `SpikeLock`. Callbacks return. In `GpsAlternates` the regular supply of valid data is a premise.

Deadlock is checked in every run.

## 4. What is proved

Every invariant and every refinement the passing runs check is also proved, for
every set of readers, gpios, clients, users, threads and callbacks, every word
width, ring size, clock, interval and off time that satisfies
`SynchronizationAssumption`, `TimerAssumption`, `GpioAssumption` and
`UsersAssumption`:

* `ReadWaitProofs`: `ReadTypeCorrect`, `ReadNoStrandedEvent`. The latter is
  inductive: the flag is cleared only on the way to the test of the kind, and a
  reader leaves that section only when the kind is 0. `OneReaderReportsOnce`
  assumes a single reader.
* `SynchronizationProofs`:
  * `ImplementsReadWait`, and by it `NoStrandedEventInDriver`,
    `ReportedOnceInDriver` and `ReasonInDriver` (one reader);
  * `ImplementsLoadedPhase`: every step is one that `SynchronizationLoad` allows
    a loaded module. It needs `RelayCarriesClock`, to know that the relay timer
    does not run before the Pps that starts it;
  * `TypeCorrect`: `TypeOK` together with `RelayCarriesClock`
    (`RelayKeepsClock`), since the relay timer's countdown would leave the
    naturals if it were 0 while it runs;
  * `AverageIsMeasured` and `SwitchOffSafe` from `MeasureInv`: either every slot
    is measured, or drift is at most the ring index and the slots before it are
    measured. The property alone is not inductive because drift also falls;
  * `RestartInTime` and `TimeSinceOffExact` from `OffTimeInv`: time left is time
    loaded minus simulated Pps counted, modulo the word. From the same,
    `RestartNotEarly`, an action property: no step but the one that ends the
    loaded time turns the GPS on;
  * `OffTimeKeepsPace` from `PaceInv`: a relay timer of one second that was not
    led astray overflows in every second.
* `SynchronizationLoadProofs`: `InterruptsFindDriver` from `LoadInv`. It says
  where in the two functions each timer is held and runs, and that a handler left
  behind implies a class left behind, so that the next load stops at its third
  step; the property alone does not exclude that the next load starts the timer
  under the old handler. `UnloadIsClean` and `FailedLoadIsLast` say what a load
  leaves behind: nothing that matters up to the class, and after that a class
  that no later load gets past. `LoadStrandsNoEvent` reuses the step lemmas of
  `ReadWaitProofs`.
* `TimerMathProofs`: `TimersExact`, `MicroSecondsExact`, `QuartzErrorsExact`,
  from the invariant that `counter` is `last` plus `elapsed` modulo the word and
  that `relay` is `due` ticks before its end.
* `GpioProofs`: `MuxIsRestored` from `MuxInv`, which adds the saved multiplexer
  mode; no assumption on the applications is needed. `PinsOwned` and
  `HandlersOwned` assume `SerialIoctls` and come from `PinInv`, which adds that a
  claimed pin is booked for its claimant until the driver frees it, and what each
  place of the configuring thread knows of its pin: `request_irq` is reached for a
  pin in interrupt mode without a handler, the mode is set back to Input/Output
  for a pin that was just booked.
* `CGPIOProofs`: `FlagIsRight`, `ReadFindsEvent`, `DirectionIsRight` from
  `ClassInv`: a polled event is still there only because nobody else reads.
  `GpioGivenBack` and the action property `OpenIsFresh` come from `FileInv`, which
  relates the descriptor, the driver's entry and the polls and reads in progress:
  a gpio closed under them is given back when the last returns. `ThreadServes`
  (`AlwaysServed`): while the flag is set there is a thread, although nothing waits
  for the old one to end and a new registration may set the flag before it looks.
* `SpiDriversProofs`, with `CanSpiProofs`: one theorem for each invariant of
  `spi_drivers` and two for the refinements (`FopIsSemaphore`,
  `SpikeAreSemaphores`). `CanInv` ties the count of `fop_sem` to the places of
  the clients, the queue to those who wait, and every way to misuse memory to a
  close; `SpikeInv` does so for two semaphores and says whose sample is in the
  buffer; `BusInv` says whose device is on the bus, and that a device which is bound
  is known to a loaded driver (`UnloadedAreReleased` needs that). Each driver keeps its own
  part, and the other's steps leave it alone. All this is proved for `FreeSpec`,
  the composition without the bound `inUse`, of which `Spec` is a restriction;
  `BothInUse` states it. `SemaphoresAreNotLost` is the converse of exclusion: a
  semaphore that is taken has its holder, so no path but the two that abandon
  `fop_sem` of can_spi loses one; from it `SpikeNeverStuck`, that nobody waits
  in spike unless another user can go on.

Each finding of section 3 has a theorem that delimits it:

| Finding | Theorem | What it says |
|---|---|---|
| `read_reason` | `ReasonForQuietReader`, `ReasonInDriver` | a single reader gets the reason if no event falls between its test of the flag and its reset of the kind. TLC refutes it with either premise dropped |
| `sync_alternates` | `OffOnlyOnce` | a GPS turned on again is never turned off again |
| `sync_double` | `DoubleCountIsConfined` | a second is counted at most twice, and twice only when the state becomes `Gps_Off`: by `OffOnlyOnce`, once in a load (`IncrementInv` counts a pending interrupt as if it had been served) |
| `gpio_own_event` | `OwnEventIfAlone` | a read returns its own gpio's event if reads do not overlap |
| `quartz_average` | `AverageIsNeverNegative` | with two slots or more the average is never negative, so that errors which all are get an average above each of them |

Only model-checked: liveness under fairness, which is outside the prover's reach
(`ReadReturns`, `GpioReadUnlocks`, `GpsTurnedOnAgain`, `EventFetched`, `ThreadsEnd`,
`SleeperServed`, `SpikeReturns`). The safety that some of them rest on is proved:
`RestartInTime` for `GpsTurnedOnAgain`, `ThreadServes` for `EventFetched`,
`SleepersQueued` for `SleeperServed`, `SpikeNeverStuck` for `SpikeReturns`. That
the sum of the quartz errors is an integer is a premise of
`AverageIsNeverNegative`: it takes an induction over the fold.

## 5. What is not modelled

* The contents of the GPS data beyond its quality, so a structure published while
  it is being copied is not seen as torn; the lengths `Synchronization_read`
  returns (`iCopiedBytes` is static as well); the exported date function, which
  only reads.
* In the gpio driver: the value and direction of a pin (the direction is in
  `CGPIO`), event dates, trigger and debounce delay; pins with two multiplexer
  registers; the failures of loading it.
* The /proc page of the synchronization driver and its verification thread, which
  change nothing; a reader that opens the device while insmod still runs.
* Samples and lengths of SPI transfers, the list of messages inside the SPI
  master; the two counters of can_spi that no code reads.
* Dates and positions in `CEvent`; `HTTPClient`, `Gestionnaire`, `LM74`,
  `PIRSTDLPSensor` and the test programs: straight lines of library calls without
  state that outlives a call.
* Hazards that would need this detail: the range test of the driver mode that is
  never true (S:1265), a date asked for between an overflow and its handler
  (S:969), `bDone` cleared after `request_irq` (G:875), the endless loop after a
  failed gpio initialisation (G:1076), transfers of up to 10000 bytes into a
  buffer of 4000 (C:448), the message initialised again while it is queued
  (C:121; only the number of its completions is modelled), the relay handler that reads the capture timer after its release
  (S:1774), the date of a later event (CG:264), user pointers stored after the
  thread was started (CG:460), methods of one object called by two threads or from a callback
  (CG:430, CG:507), the reference to a device that is never put (C:316, K:341), the
  object destroyed under its thread (CG:88), 31
  measures in a table of 30 (`PIRSTDLPSensor.cpp:95`).
* Third-party code: `omap2_mcspi` (the kernel's SPI master) and `overo/`, the
  headers and libraries of the target, which is nearly all of the repository's
  text. The project's own code is about a dozen files; the models cover the ones
  that keep state.

## 6. Plan

1. Done: all the drivers, the class CGPIO, their compositions and refinements;
   proofs of every invariant and refinement, without the bound of the composition
   of the SPI drivers, and of the extent of every finding.
2. Values, directions and dates in `Gpio`, with the exported date function.
3. `CGPIO` composed with `Gpio` action by action, instead of through its own view
   of one table entry: a shared table with several threads per gpio.
