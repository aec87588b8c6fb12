# A model of the MP3 player firmware

The repository is the firmware of an MP3 player on an LPC4078 board with
FreeRTOS. This directory holds TLA+ models of its concurrent parts, the TLC runs
that check them and TLAPS proofs of the properties that matter most. `PROJECT.json`
maps every definition to the lines it models and lists the hazards of the code.

Contents: [inventory](#inventory), [modules](#modules), [runs](#runs-and-bounds),
[fairness](#fairness), [proofs](#proofs), [findings](#findings),
[what is not modelled](#what-is-not-modelled), [plan](#plan).

## Inventory

`main.c` creates eight tasks, all of priority `PRIORITY_MEDIUM` and time-sliced,
so that any two of them interleave between two statements. The command line task
is the ninth, of a higher priority. Interrupt handlers run between any two instructions of a task.

| component | state | operations | interacts through |
|---|---|---|---|
| reader task (`main.c`) | the open file, a 512-byte buffer, the global `filename` | receive a name, stream the file, record it in the history, reset the flags | `q_songname`, `q_songname_previous`, `q_songdata`, the flags |
| player task (`main.c`) | a 512-byte buffer | receive a block, feed the decoder | `q_songdata`, the decoder bus; suspended and resumed by the controller |
| controller task (`mp3_controller.c`) | `is_song_playing`, `is_song_paused`, `is_break_required`, `is_on_player_screen`, scroll index, volume | decode an input by the state, execute the control | both song queues, flags, the player task, the screen queue |
| button and accelerometer interrupts (`mp3_controller.c`, `gpio_isr.c`) | pending pins, time of the last edge | dispatch, debounce, send an input | `control_inputs_queue`, the uptime |
| tone tasks and suspenders (`mp3_controller_acc.c`) | two `suspend_allowed` flags, the kernel's suspended list | read the tilt, set treble or bass; suspend when allowed | I2C driver, decoder bus, screen |
| screen task (`mp3_oled_controller.c`) | window of the list, icon, levels | draw the list or the player | screen queue, shared struct |
| song list (`mp3_song_list.c`) | 32 names and a count | populate once, look up | screen task writes, controller reads |
| metadata decoder (`mp3_metadata_decoder.c`) | none | ID3 tag to title and start of audio | called by the reader |
| command line (`l4_io/cli`) | table of commands | `play`, task control, I2C access | `q_songname`, kernel |
| decoder chip (`vs1053b`) | treble/bass image, two chip selects | commands, data bytes | SPI port 0, without a lock |
| I2C driver (`i2c.c`) | saved parameters, mutex, signal | read, write, detect | interrupt handler, peripheral |
| UART driver (`uart.c`) | two queues | put, polled put, get | interrupt handler; every task that prints |
| system time (`sys_time.c`, `delay.c`) | minutes counted, hardware timer | uptime, busy delay | timer interrupt; the debounce and the drivers' start-up |
| lightweight lock (`leightweight_lock.c`) | counter, semaphore | acquire, release | |
| periodic scheduler, CAN, flash, ESP32 | | | not started by `main.c` |
| kernel, FatFs, CMSIS, trace | | | vendored |

What is hard here, and what would make it correct:

* The flags of the player are written by two tasks without a lock, statement by
  statement, and each task decides on what it read before. They must stay
  coherent with the player's being suspended and with a song's being streamed.
* The reader blocks for ever on the data queue; the task that empties it can be
  suspended. A request to stop must still be honoured, and queued songs taken.
* Audio passes through a buffer, a queue of two and another buffer while breaks
  reset the queue. The listener must get the blocks of one song at a time, in
  order.
* The I2C driver gives up on a transfer after three seconds and leaves the
  peripheral running into the next call. Success must mean that the bytes were
  transferred, and bytes must land only in the buffer of a caller that waits.
* The uptime is assembled from a counter and a timer that an interrupt resets in
  between, and the interrupt can be late. It must be exact, and a delay must not
  be too short.
* The UART's transmit interrupt comes once when the FIFO runs empty; after that
  only the tasks can restart it, and they fill the same FIFO as the handler.
* A suspender stops a tone task on the strength of a flag, and a task that is
  stopped in the middle of a transfer takes the I2C bus with it. Who stops in
  time must be at rest, and a controller that waits for the bus must get it.
* Four tasks write the struct of the screen without a lock and announce it on a
  queue that drops what does not fit, while the screen task draws field by field.
  When all is quiet the screen must show the state, and the highlighted line must
  be the song that the button would play.
* A press is told from a bouncing contact by two uptimes, read in an interrupt
  while the timer's own interrupt may be late. Bounces must not get through,
  presses must.
* The lock mixes an atomic counter with a semaphore; between the two anything
  may happen.

## Modules

| module | models |
|---|---|
| `RtosQueue` | the FreeRTOS queue as bounded sequences: `SendToBack` and `SendToFront` with timeout 0 drop the item when full; a `portMAX_DELAY` call uses `CanSend` or `CanReceive` as a guard. Each call is one step because the kernel copies inside a critical section. |
| `AudioStream` | what the listener is promised: songs end to end, no block lost, repeated or reordered; a cut removes what was not heard |
| `Mp3Player` | reader, player and controller tasks, the list's populating, the CLI's `play` |
| `Mutex` | what a lock promises |
| `LightweightLock` | `leightweight_lock.c` |
| `I2cDriver` | `i2c.c`, with the peripheral and the devices as an environment |
| `RtosTask` | suspending and resuming FreeRTOS tasks: the suspended list, as `vTaskSuspend`, `vTaskResume` and `vTaskGetInfo` use it |
| `ToneControl` | `mp3_controller_acc.c` with the controller's readings of the accelerometer, on `RtosTask`; the mutex of the I2C bus |
| `PlayerScreen` | `mp3_oled_controller.c`, the list it draws (`mp3_song_list.c`) and every task that writes to the screen, on `RtosQueue` |
| `SysTime` | `sys_time.c` and `delay.c` over the hardware timer |
| `PlayerInput` | `gpio_isr.c` and the callbacks of `mp3_controller.c`, on `SysTime` and `RtosQueue` |
| `UartDriver` | `uart.c` with both queues, on `RtosQueue`; the peripheral as an environment |
| `RtosQueueTheorems`, `Mp3PlayerProofs`, `ToneControlProofs`, `PlayerScreenProofs`, `LightweightLockProofs`, `I2cDriverProofs`, `PlayerInputProofs` (with the proofs about `SysTime`), `UartDriverProofs` | proofs |
| `MCMp3Player`, `MCToneControl`, `MCI2cDriver`, `MCPlayerInput` | constants for TLC |

### Mp3Player

Every task has a program counter (`rpc`, `ppc`, `cpc`) that names the statement
it is about to execute; an action makes one access to the shared flags, queues
or scheduler. `ReaderStep` is the loop of `mp3_reader_task` with `song_begin` and
`song_end`: the three writes of `mp3_controller__reset_flags` are three actions,
because the controller can run between them. `ControllerInput` is
`decode_control_from_input`, one action per input; `ControllerExecute` is
`execute_control`, statement by statement, with the shared tail of `play_song`,
`play_enqueued_song` and `play_previous_song` as one path (`CheckPlaying` to
`ShowPlaying`) that the `control` variable leads out of. Decoding is one step
although the rotary button reads its flags twice: every outcome of the two
readings is the outcome of one reading at some moment between them.

`suspended` is the kernel's state of the player task; a suspended task takes no
step wherever it is. Pressing the rotary button while the list is still being
populated requests the empty name, as `mp3_song_list__get_name_for_item` returns
it; the list becomes complete in one step. `DiskFaults` lets `f_open` refuse any
name and lets `f_read` deliver nothing, which the reader does not notice. `icon`
is the `is_song_paused` field of the screen's struct.

A block stands for the 512 bytes of one `f_read`, a name for a `songname_t`. Left
out: drawing, the volume and the scroll index (`ListedSong` lets the user choose
any listed song; `PlayerScreen` has them), the tone tasks (`ToneControl`), the
contents of the metadata. The command line's `taskcontrol` can suspend and resume the
player, the reader and the controller too; that is not in this module, so that its
properties are about a player that only the controller suspends.

### ToneControl

For each tone a task (`tpc`, one action per statement of its loop) and its
suspender (`spc`); for the controller (`cpc`) the path of one orientation input:
the bus is taken and given back twice, for the source of the interrupt and for the
orientation, then tones are resumed or cleared. `suspended` is the kernel's
suspended list. A task in it takes no step,
wherever it is: that is how it can keep the bus (`holder`). A resume of a task
that is not suspended does nothing, in the kernel as in `VTaskResume`, and that
is how one can be lost on a suspender about to suspend itself. A transfer ends
well or not, or after its timeout, and the mutex is given back in each case; the
reading `n` is any of `Tilt`, and 0 after a failure. Casts to `uint8_t` wrap
(`Byte`) and the decoder clamps what it is given (`SetTreble`, `SetBass`). `x` is
forgotten once it is used, to keep the states few: the variable is written again
before it is read. A command to the decoder is one step; the statements inside it and the
bytes on the bus are left to the plan.

The command line is a task of its own (`cli`). `CliSuspend` and `CliResume` are
`taskcontrol suspend` and `resume`: they reach any task in `Named`, whatever it is
doing. The kernel keeps eleven characters of a name (`configMAX_TASK_NAME_LEN`), so
that "treble task" names the task and its suspender; `Named` then has both. `CliI2c`
and `CliTransfer` are the `i2c` command on the accelerometer's bus: it waits for the
mutex like the others, and takes it and gives it back in one step, because its
transfer only makes the others wait.

### PlayerScreen

Every writer sets a field and sends an update with its next statement: `pending[w]`
is the update that writer `w` is about to send, `Send` is `xQueueSend` with
timeout 0, which drops it when the queue is full. The controls are the actions of
`ControllerInput`; scrolling goes on through `MoveWindow` and `Highlight`
(`song_list_highlight_song`), the volume through `ShowVolume`. The reader asks
which screen the user is on (`CheckScreen`) and acts on the answer a step later.
The screen task populates the list name by name, then takes an update, clears the
screen and draws a row or a field per step. `shown_*` is what is on the screen
since it was cleared. `cached_songs` is the static `number_of_songs` of
`mp3_controller__scroll`, kept from the first time it is not 0; a remainder by
zero gives the dividend, because `UDIV` gives 0 on this processor and the compiler
multiplies back. Two history variables name the exceptions of the properties:
`early` (the index was moved down while the list was empty) and `raced` (the user came
to the player screen after the reader had found him on the list). Left out:
bitmaps, pages and columns, the text of the metadata, what the controls do to the
song.

### LightweightLock

One step per atomic operation and per semaphore call. Any waiting task may take
the signal, which covers every order in which the kernel wakes them.

### I2cDriver

A call clears the signal, saves six parameters one by one (`SaveParam`), sets
START and waits. `Isr*` are the cases of `i2c__handle_state_machine`, chosen by
the status of the peripheral, `Stop` is `i2c__set_stop` with the signal that
`i2c__handle_interrupt` gives after it. A pending interrupt (`si`) is served before
any task runs, as on the processor. The peripheral answers with every status
that the bus allows in its state, refuses, loses arbitration, reports a bus error, or does
nothing so long that `Timeout` fires. `clean` is a history variable: was the bus idle when
the call cleared the signal? A store outside the bytes of the call that saved
the pointer sets `stray`, and nothing is claimed of the program after that
(`Undefined`). `error_code` names the status that the handler stored; `IsZero` is the
code's comparison with 0, which holds of no error and of a bus error, whose status is
0x00. The busy wait for STOP is taken to end. `size_t` is reduced to
`0..SizeMax`, with its wrap-around.

### SysTime

`Tick` is the hardware timer, `Interrupt` the handler that counts a minute when
the timer has matched; it may be late by at most `MaxLatency` ticks, less than a
millisecond, because another handler or a critical section is in its way. A
caller makes one reading per step (`ReadBefore`, `ReadMinutes`, `ReadAfter`), so
that the interrupt can fall between any two of them, and repeats them as the
loop does.
`CallDelay`, `Deadline` and `Poll` are `delay__us` on top of the same reading. The
wrap-around of the 32-bit minute counter, after 8,000 years, is left out.

### PlayerInput

`raised` holds the status bits of the pins, `Edge` is the peripheral. The dispatcher
(`hpc`) serves the pin that `gpiox__get_generated_interrupt` finds first, runs its
callback and clears the pin, with what came in between. A debounced callback reads
the uptime by the steps of `SysTime`, compares it with its static and sends, the
interrupts of the accelerometer send at once. The subtraction has no sign in the
code: a negative difference is a very large one (`IsPause`). A behaviour follows
either a task that calls `sys_time` and `delay`, or the callbacks (`user`): the two
share the timer and the counter only, which neither writes. `heard` is a history variable: real time at the
callback's last reading. In the model the timer's interrupt may come inside a
callback; in the firmware both have the same priority and it waits, which is one of
the model's behaviours. `clear_pin_interrupt` reads the write-only register it
writes to; the model takes what it reads for 0.

### UartDriver

A put is two steps, `Deposit` and `KickOff`, because the critical section begins
after the send. `PolledWait`, `PolledWrite` and `PolledDrain` are
`uart__polled_put`, which a task that prints on stderr uses beside the queue.
`IsrTransmit` and `ClearReceiveFifo` are the two cases of the handler, each one
step because no task runs inside it. Of the peripheral the model keeps what the
driver depends on: the FIFO, the shift register, the interrupt that comes once
after the FIFO has run empty and before the last byte's stop bit, and that a
write to THR takes it back. `missed` is a history variable: a kick-off met the
last byte in the shift register with no interrupt to come. All callers in the
firmware wait for ever, so a put does not time out. The lengths of the two queues
are parameters (`peripherals_init.c` passes its two queues in swapped order, so
that in the firmware 32 bytes are queued to send and 128 to receive).

## Runs and bounds

| run | question | bounds |
|---|---|---|
| `player_safety` | are the flags coherent, with a failing card? | song queue 2, history 1, data queue 1; two songs of which one has two blocks, one CLI name |
| `player_liveness` | is a stop honoured, are queued songs taken, is the audio in order? | song queue 1, history 1, data queue 1; healthy card, no CLI |
| `player_icon` | violation, see findings | as `player_liveness` |
| `lightweight_lock` | is it a mutex that loses no wake-up? | five tasks |
| `i2c_safety` | is success exact, are stores in bounds? | two symmetric callers; reads of one and two bytes past the last register, a write, a detection |
| `i2c_detect` | violation, see findings | one caller that looks for a device, at an address with one or without |
| `i2c_signal`, `i2c_arbitration` | violations, see findings | one caller that writes |
| `sys_time` | is the uptime exact, every delay long enough, every press heard and no bounce taken for one? | a minute of 8 ticks, a millisecond of 2, an interrupt up to one tick late, delays of 1 and 3 ticks, two minutes; one debounced pin with a pause of a millisecond and two inputs, one that is not debounced, input queue 2 |
| `tone_control` | is a tone task at rest when it is stopped, does the controller get the bus, what ends a lock-out, does a clear stop the tone? | both tones, a level board, an operator who names the treble task |
| `player_screen` | is the screen current when all is quiet, and does the chosen song exist? | three songs, two lines, update queue 1, volume 0 to 1, the bass task with level 0, one step down in an empty list |
| `uart_safety` | is what is printed sent once, in order? | two printing tasks of two bytes, one on stderr, transmit queue 3, FIFO 2, receive queue 1, two bytes received |

The queues are shorter than in the firmware (10, 10 and 2) and songs have
`DataLength + 1` blocks: with that the reader fills the data queue, blocks on it
with a block in hand and still has the player to wait for, and the song queue is
found full and empty by both ends. A longer queue adds no statement between two
accesses. The proofs hold for every length. Three to five users of the lock give
every combination of a holder, a task between its two release steps, a given
signal and several waiters. Two I2C callers give a call that was abandoned and
one that meets its remains; the second also stands for every later call.

One tilt is enough for the steps of `ToneControl`: none looks at the reading. For
every tilt it is proved only that what is set is in the decoder's range, 1 to 15; a
steep tilt makes the byte wrap, and the clamp then takes the wrong end (see findings),
which no property here forbids. An operator with one name suspends and resumes a task in every
state; the suspender's name adds the same steps on the suspender, and the safety
properties are proved for any `Named`. Three songs on two lines scroll at both ends
of the window and wrap; a queue of one drops updates as soon as two come before the
screen task takes one, and each further place only makes a drop rarer. One level
and one tone task beside the controller's own levels let a bar change while it is
drawn; the second bar is drawn and written like the first. `PlayerScreen` has no
liveness, so that the bound on scrolling in an empty list, `MaxEarly`, hides
nothing but larger indices. In `PlayerInput` the accelerometer's pin is dispatched
before the debounced one and fills the queue.

Each property of a passing run has a mutant in `PROJECT.json`: a plausible wrong
version of one action (their definitions carry the word "Mutant" and are used by
nothing else), under which TLC finds the property violated.

The minute of `SysTime` lasts a few ticks instead of 60 million: the readings
depend on a reset falling before, between and after them, and the minute is long
enough for the delays of the configuration to cross its end. In `UartDriver` the transmit queue is longer
than the FIFO, so that the handler takes a part of it only, and the receive queue
shorter than what arrives.

What the properties say:

* `PausedMeansSuspended`: the paused flag is never up on a running player,
  except between the two statements of `resume_song`.
* `StreamingMeansPlaying`: while the reader streams, the playing flag is up except
  between two writes of the controller, so that no play command takes a
  streaming song for silence.
* `BreakMeansPlaying`: a pending break never outlives the song it is meant for with
  the playing flag down, except while a task is about to repair it.
* `StopIsHonoured`: a break asked for ends the song even with the reader blocked on a
  full queue and the player suspended, because the handler that asks also
  resumes; only a pause that follows may hold it up.
* `QueueMoves`: a queued song is taken, unless the user holds the player.
* `AudioInOrder`: reader, queue and player implement `AudioStream`, with
  `pending` the queue, the block in the reader's hand and the rest of the file.
* `CountIsContenders`, `OneToken`, `ImplementsMutex`, `NoLostWakeup`: see the proofs.
* `SuccessIsExact`: an I2C call that found the bus idle and reports success moved
  exactly its bytes, and the bus is idle again, unless its transfer ended in a bus error,
  which the driver takes for success (`i2c_detect` shows it). A write longer than the device has
  registers goes round and replaces what it wrote first; the property then speaks of
  the bytes that are last at their register (`LastAt`).
* `StrayOnlyWhenOrphaned`: the handler stores outside the waiting caller's bytes only
  when a call gave up on a transfer that went on.
* `WrittenAsAsked`: successful or not, a call changes nothing in a device but the
  registers it asked for, to the bytes it asked for, unless a call gave up on a
  transfer that went on. This one is proved (`WrittenAsAskedAlways`) and belongs to no run.
* `UptimeIsExact`: the uptime returned is what counter and timer said together at
  its last reading, never a mixture of two minutes.
* `OneRetry`: the loop of readings repeats at most once.
* `DelayIsLongEnough`: a delay never ends before the time asked for has passed,
  although late interrupts set the uptime back.
* `MillisecondsNeverBack`: in milliseconds the uptime does not go back, which the
  debounce of the buttons relies on.
* `SentAfterPause`: an input is sent only after the contact was still, in real time,
  for the whole pause: neither a late interrupt nor a reading across the end of a
  minute makes a press of a bounce.
* `PressIsHeard`: a contact that was still for a millisecond longer, and for what late
  interrupts took off the uptime since the start, is sent unless the queue is full.
* `SuspendedInTimeIsAtRest`: a tone task that is suspended while its flag is up does
  not have the bus and has set all or nothing.
* `OnlyOperatorEndsLockout`: if a task was suspended with the bus, because the flag went
  down between the suspender's look and its call or by the operator, and the controller
  waits for the bus, then nothing the firmware does by itself ends that. Only the operator
  can, by resuming that very task from the prompt; one whose own `i2c` command waits for
  the bus cannot any more.
* `ControllerGetsBus`: in every other case the controller gets the bus, unless the
  operator suspends it.
* `ClearStops`: a clear stops the tone task, unless the bus is stuck, the resume of
  the suspender met it on its way to sleep, or the operator suspends the controller or
  meddles with suspenders.
* `WindowHolds`: between controls the window is as high as the screen and has the
  highlighted song in it.
* `DrawnIsCurrent`: whatever was dropped or written during a drawing, once nothing is
  queued or about to be sent the rows, the volume and the levels shown are current.
* `HighlightedIsChosen`: then exactly one line is inverse, and it is the song that a
  press would play.
* `ChosenExists`: the scroll index names a listed song although the length of the list
  is kept while it still grows, unless the list was empty at the last move down.
* `IconIsCurrent`: on the player screen the icon is right, unless the user came over
  between the reader's look at the screen and its write.
* `NoByteLost`: what was put on the transmit queue is on the line, in the shift
  register, in the FIFO and in the queue, in order, each byte once.
* `LeftOnlyIfMissed`, `PutOnIdleSends`: a byte is left in the queue for one reason
  only, and a put that finds the transmitter idle sends all that was left.
* `ReceivedInOrder`, `ReceptionIsCleared`: a full receive queue drops bytes without
  disturbing the others, and the FIFO is emptied all the same.

## Fairness

`FairSpec` of `Mp3Player` is weak fairness of the reader, of the player and of the
controller's execution: the tasks have one priority and the kernel slices time
among the ready ones, so a task that can always take a step takes one. Inputs
and CLI commands have no fairness: nobody has to press a button.
`FairSpec` of the lock adds that a holder releases. `FairSpec` of `I2cDriver` is
weak fairness of a pending interrupt and of each task's step, the timeout
included, since the tick never stops; the peripheral and the devices have none.
`FairSpec` of `UartDriver` is weak fairness of the transmitter, of the two cases
of the handler, and of a task that is inside a put: the shift register never
stops, a pending interrupt is served, and tasks are time-sliced. That anybody
prints or reads is not assumed.
`FairSpec` of `ToneControl` is weak fairness of each task's steps, by the time slices,
and strong fairness of three steps that come and go. Taking the bus: tasks of one priority wait for a mutex
in the order they came. A spinning suspender's look at a raised flag: the flag stays up for
250 ticks, many slices, in each round. Nobody has to tilt the
board or to type, a resume included. Its run does
not check for deadlock because the system really can stop: with the tone task
suspended in a transfer, the controller waiting for the bus and the suspenders
asleep nothing moves unless somebody types, and nothing at all once the command line
waits for the bus too, which is what `OnlyOperatorEndsLockout` is about.
`PlayerScreen` and `PlayerInput` have safety properties only and assume no fairness.

## Proofs

All for every value of the constants, under the named `ASSUME`s of the modules.

* `TypeCorrect`: `Spec => []TypeOK`, by one lemma per task. The queue bounds
  come from `RtosQueueTheorems`.
* `FlagsCoherent`: the inductive invariant `FlagInv` behind the three flag
  properties. The properties themselves are not inductive one by one: that a
  streaming song has its playing flag up depends on where the other task is in
  its own sequence of writes, so `FlagInv` is stated over both program counters.
  One lemma for the reader, two for the controller; the corollaries
  `PausedMeansSuspendedAlways`, `StreamingMeansPlayingAlways` and
  `BreakMeansPlayingAlways` follow.
* `AudioIsInOrder`: the refinement of `AudioStream`, for a card that does not fail
  (`~DiskFaults`). It needs `FileClosed` (a reader outside its loop has nothing
  left to read) and associativity of concatenation on the three parts of
  `pending`; every reader or player step is then a song begun, a block heard, a
  cut, or a stutter.
* `LockInvariant`: the inductive invariant of the lock. The right to enter is one
  token, with the holder, then the releasing task, then the signal; the counter
  is the cardinality of the contenders, which decides at each atomic operation
  whether the token is dropped or passed. `OneTokenAlways`,
  `CountIsContendersAlways` and `LockIsMutex` (`Spec => ImplementsMutex`) follow.
* `TimeInvariant`: the inductive invariant of the uptime. An interrupt between the
  first reading of the timer and the last leaves the timer below the first
  reading, because one iteration takes less than half a minute
  (`TimeAssumption`); so the loop notices it, and in the iteration after that the
  timer is too low to match again. `UptimeIsExactAlways`,
  `OneRetryAlways`, `DelayIsLongEnoughAlways` and `MillisecondsNeverBackAlways`
  follow.
* `ToneInvariant`: the bus is held by exactly the task whose next statement is the end
  of a transfer, and a raised flag means a task at rest; `SuspendedInTimeIsAtRestAlways`,
  `OnlyOperatorEndsLockoutAlways` and `ToneTypeCorrect` follow, for every set of tilts
  and whatever tasks the operator names; the last bounds what is set.
* `ScreenInvariant`: a field on the screen that differs from the state has a drawing
  to come: it is still ahead in the present one, or an update is queued, or a writer
  is about to send one (`Awaited`). The point is that an update is dropped only
  when the queue is full, and a full queue is not empty. With it go the window's
  arithmetic and the bounds on the index. `WindowHoldsAlways`, `ChosenExistsAlways`,
  `DrawnIsCurrentAlways`, `HighlightedIsChosenAlways`, `IconIsCurrentAlways` and
  `ScreenTypeCorrect` follow, for every length of the list, the screen and the queue.
* `InputInvariant`: every step of the inputs is a step of the time or leaves it alone
  (`InputsRunOnTime`), so that `TimeInvariant` holds. A timestamp is never ahead of
  the uptime in milliseconds or of real time, and lags behind by less than a
  millisecond and what the uptime has lost; the loss grows by one lateness per minute
  at most and never shrinks. `SentAfterPauseAlways`, `PressIsHeardAlways` and
  `InputTypeCorrect` follow, the last with a callback that reads the uptime being one of
  a debounced pin.
* `LockTypeCorrect` and `TimeTypeCorrect`: the types of the lock and of the uptime, from
  their invariants. The lock's counter is at most the number of tasks because it is the
  number of contenders, and its signal is binary because a signal is the token.
* `ReceivedInOrderAlways`: what was read, what is queued and what is in the FIFO are,
  joined, in the order of arrival, because each step moves the head of one to
  the end of the other or drops it.
* `UartInvariant`: the types of the UART driver, by the queue lemmas, together with
  `LeftOnlyIfMissed`; `UartTypeCorrect` and `LeftOnlyIfMissedAlways` follow.

* `NoByteLostAlways`: for every number of tasks and both queue lengths, what was
  put on the transmit queue is sent once, in order. `Queued` selects from the line
  the bytes that came through the queue; it is a recursive function of the length,
  so that it is determined by `NaturalsFromZero`, the induction over the natural
  numbers stated for a set instead of a formula. The lemmas say what it does to an
  appended byte and to a joined sequence; the invariant `LosslessInv` adds that
  the FIFO is empty whenever the interrupt is due.
* `DriverInvariant`: the inductive invariant of the I2C driver. Its first half
  holds of every transfer, an abandoned one included. `MutexInv`: between taking and
  giving the mutex there is one caller. `CallInv` and `BusInv`: which of the
  saved parameters are already the present call's, and which statuses of the
  peripheral imply a pending interrupt or an address that answers. `OutputInv`: how
  far the output pointer can run when the rest of an abandoned write is sent with
  the pointer of the next call, which is why `TypeOK` allows it twice the longest
  transfer. `RoomInv`: a reader that has saved its parameters has room for the bytes
  left. The second half, `CleanInv`, describes a transfer that found the bus idle,
  status by status: who is addressed, where the device's register pointer
  is, how many bytes are counted down, and which of them are in place (`Transfer`);
  and the saving of its parameters before that (`Preparation`). It holds until its
  caller gives up, because nobody else sets START. A bus error ends the transfer with a
  code that counts as no error, so a success is exact only without one. After a stray write only
  the types and the results of calls already finished are claimed, since C says nothing
  of the rest. The register arithmetic is division with remainder, for every
  number of registers. `I2cTypeCorrect`, `SuccessIsExactAlways`,
  `StrayOnlyWhenOrphanedAlways` and `WrittenAsAskedAlways` follow.

Every invariant and every action property that a passing run checks is thus a
theorem. Only model-checked are the liveness properties (`StopIsHonoured`, `QueueMoves`,
`NoLostWakeup`, `PutOnIdleSends`, `ReceptionIsCleared`, `ControllerGetsBus`,
`ClearStops`): they rest on fairness, and the provers have no rule for `ENABLED`.

## Findings

* `player_icon`: the pause icon is documented to be shown "because there is a song
  playing currently". A request for a name the card does not have leaves it on
  the screen, and `is_song_playing` up, with every queue empty.
* `i2c_signal`: the signal is cleared before the parameters are saved and START is
  set; the completion of an abandoned transfer in between makes the next call
  report success for a transfer that has not begun.
* `i2c_arbitration`: the lost-arbitration case never clears SI, so the handler is
  entered again for ever and no task runs.
* `i2c_detect`: the driver stores the status of a failed transfer in `error_code` and
  reports success when that is 0. A bus error has status 0x00: `i2c__detect` reports a
  device at an address where none answers, and a read or a write reports success for a
  transfer that was cut.

Met while modelling, without a run of their own:

* The UART's kick-off is documented to test for an empty holding register
  (`uart.c:300`) but tests for an empty shift register. A byte queued while the last one
  is being shifted, after the last interrupt, stays in the queue until somebody prints
  again. `LeftOnlyIfMissed` says that this is the only way to leave one behind.
* A byte printed on stderr is written to THR some time after the transmitter was seen
  idle, and is lost when a put and the handler have filled the FIFO in between, although `system_calls.c:38` polls to "enforce that the
  data goes out". `NoByteLost` is about the bytes of the queue.
* A tilt above 10 wraps the byte of the treble (`mp3_controller_acc.c:45`): it is set to
  the highest level instead of the lowest.
* "treble task" names two tasks in the kernel, since `FreeRTOSConfig.h:44` cuts
  "treble task suspend" to eleven characters: `taskcontrol` reaches the one that
  `xTaskGetHandle` finds first.

* The tone tasks and a pause by tilting send an update of the player screen whichever
  screen the user is on (`mp3_oled_controller.c:234`): the player is then drawn although
  `is_on_player_screen` is false.
* `mp3_reader_task` decodes the next song's tag into the struct that is on the screen
  (`main.c:117`), while the screen task may be drawing it.
* `player_show_bass` is called with the signed tilt, -9 for example, and gets 247
  (`mp3_controller_acc.c:66`).
* Scrolling before the first song is listed divides by zero (`mp3_controller.c:267`).
* An I2C write longer than the device has registers reports success although its
  first bytes are gone: nothing bounds the length, and the register pointer of the
  device goes round (`i2c.c:333`). The proof of `SuccessIsExact` asked for this
  case; the transfers of the runs are too short for it.

## What is not modelled

Drawing and the OLED driver (write-only output), peripheral set-up, the crash
handler and C library glue (straight-line code), vendored code beyond the calls
the firmware makes of it, and the drivers of hardware the player does not use.
FatFs, FreeRTOS, CMSIS and the trace recorder are by far the largest part of the
repository's C; the firmware's own is some ten thousand lines, most of
which set up peripherals or format output. The rest of what is missing is in the
plan. `components` in `PROJECT.json` lists every part with its reason.

## Plan

In this order; each module with a type invariant, the properties named, and
mutants.

1. `DecoderBus`: player, controller and tone tasks on the two chip selects and the
   shared treble/bass image, below `ToneSet` and `SetNormal` of `ToneControl`. When is
   a command cut by a data byte, and which updates of the image are lost?
2. An abstract I2C service (a call reads or writes its registers, or fails), which
   `I2cDriver` implements as long as no call times out; `DriverInvariant` has the
   facts, the abstract module and the mapping are missing.
3. The composition of `Mp3Player` with `PlayerScreen` on the controller's and the
   reader's program counters: the icon is the one variable they share.
4. `PeriodicScheduler`: a task that meets its period is never caught by the monitor.
5. Pure algorithms: `Metadata`, the boundaries of `SlString`, the filter table of
   `CanBus`.
