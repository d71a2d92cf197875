# SSV6x5x Wi-Fi driver: TLA+ models and proofs

The repository is a Linux mac80211 driver for the iComm/SSV 6x5x Wi-Fi chips
over SDIO or USB. This directory models the parts of it that are concurrent and
stateful, checks them with TLC on small instances, and proves the central facts
for every size with TLAPS.

## 1. The system

```
 mac80211
    |  tx                     ^ tx status, rx
    v                         |
 softmac core  src/smac/dev.c (TX task, RX task, stations, keys, power save)
    |            \            |
    |             A-MPDU sessions  src/smac/ampdu.c  (per station and TID)
    v                         ^ BlockAck, rate report, "no BA"
 HCI layer   src/hci/ssv_hci.c (5 hardware queues; SDIO: an interrupt handler,
    |                          USB: a thread that drains them)
    v                         ^
 interface   src/hwif/sdio/sdio.c, src/hwif/usb/usb.c
    v                         ^
 chip (SSV6006C and its registers, src/smac/hal/)
```

| Component | Source | State | Operations | Correct when |
|---|---|---|---|---|
| A-MPDU transmit session | `smac/ampdu.c`, BlockAck handlers in `smac/hal/ssv6006c` | queues of MPDUs, BlockAck window, A-MPDUs in flight, counters | start/operation/stop, aggregate, flush, sent, BlockAck, no-BA, time-out, retry, release | frames go back to mac80211 in order, once; an acknowledged frame is not sent again; no frame held for ever; counters exact |
| BlockAck bitmap walker | `ssv6006_ba_map_walker`, `ssv6xxx_ssn_to_bit_idx`, `ssv6xxx_inc_bit_idx` | a (word, bit) pair | one walk per BlockAck | it reads the bit of each frame across the wrap of the sequence numbers |
| HCI transmit | `hci/ssv_hci.c` | 5 queues, `int_mask`/`int_status`, `txq_mask`/`paused` | enqueue, trigger, pause, resume, start, stop, interrupt, reset | each queue is exactly-once and ordered; no lost wakeup; the chip's resources are respected; pauses hold |
| HCI receive, firmware load | `hci/ssv_hci.c` 178-458, 1151-1451; `smac/dev.c` 4636, 5565 | RX buffers, download state | split an aggregated buffer, download and verify blocks | every frame delivered once, in order; what is reported as loaded is the image |
| Flow control | `ssv6200_tx_flow_control`, thresholds in HCI and in ampdu.c | `flow_ctrl_status` | stop/wake an AC | an AC is stopped only while there is backlog |
| Softmac tasks | `smac/dev.c` 2662-3247, 5435-5684 | `tx_skb_q`, `rx` queue, `tx_q_empty` | TX task, RX task | nothing waits for ever |
| Encryption pipeline | `smac/dev.c` 2880-3100 | `preprocess_q`, `crypted_q`, `running`, `paused` | queue, encrypt on any CPU, hand over from the head, clean up a station | packets leave in order, all of them, none that a task works on is freed |
| Stations, keys, power save | `smac/dev.c`, `smac/init.c` | `sta_info[]`, hardware WSIDs, key table, `hw_cfg` | add/remove a station, set keys, restart the chip, sleep/awake | driver, chip and mac80211 agree, also after a restart |
| AP | `smac/ap.c` | broadcast queue, bit in the beacon, three work items | queue, announce, send after a DTIM, take back, remove | sleeping stations are told of what waits; nothing is left behind |
| P2P NoA | `smac/p2p.c` | NoA detection per interface | packets, timer | interval announced is the one applied |
| Power management | `smac/ssv_pm.c` | suspend state | suspend, resume | the queues restart |
| USB interface | `hwif/usb/usb.c` | receive buffers and their URBs; register commands with numbers | submit, complete, hand over, suspend, resume; command, answer, reset | data arrives once and in order, the device keeps listening; an answer belongs to its command |
| SDIO interface | `hwif/sdio/sdio.c` | claimed interrupt, buffers | read, write, mask, claim | (bus I/O) |
| Rate control | `smac/ssv_rc*.c`, `ssv_ht_rc.c` | counters per rate | update, choose | arithmetic within bounds |
| Ciphers, e-fuse, calibration, commands, configuration, smart link | the rest | | | sequential data processing |

What is hard in this code: the A-MPDU window is changed by four contexts under
different locks; the HCI queues are filled by any context and drained by an
interrupt handler that masks itself; the chip's interrupt mask is written from
several places over a slow bus; answers from the air are lost, late or repeated;
every allocation and transfer can fail half-way; mac80211 ends a session under a
mutex that none of the contexts which use it takes; over USB two threads meet in the
hardware queues, in `tx_q_empty` and in `flow_ctrl_status` without a common lock;
flags that stand for a lock (`running` and `paused` of the encrypt tasks,
`write_hw_config`) are set and tested beside it. `PROJECT.json` lists these hazards
at their lines.

## 2. The modules

| Module | Models | Checked by | Proved in |
|---|---|---|---|
| `AmpduTx` | one A-MPDU session and the five contexts around it | `MCAmpduTx` | `AmpduTxTypes`, `AmpduTxProofs` |
| `TxQueues` | abstract: exactly-once ordered hardware queues | through `HciTx` and `HciPoll` | refinements in `HciTxProofs`, `PollTxProofs` |
| `HciTx` | the HCI transmit path in interrupt mode (SDIO) | `MCHciTx` | `HciTxProofs` |
| `HciPoll` | the HCI transmit path in polling mode (USB), flow control towards mac80211 | `MCPollTx` | with `PollTx` |
| `PollTx` | `HciPoll` with the TX task, mac80211 and the frames that wait to be aggregated | `MCPollTx` | `PollTxProofs` |
| `HwRestart` | stations, keys and the restart of the chip | `MCHwRestart` | `HwRestartProofs` |
| `BaBitmap` | the BlockAck bitmap walker | `MCParts` | `PartsProofs` |
| `CryptoPipe` | the encryption tasks and the removal of a station's packets | `MCParts` | `PartsProofs` |
| `UsbRx` | the USB receive buffers, their worker, suspend and resume | `MCParts` | `UsbProofs` |
| `UsbCmd` | register commands over USB | `MCParts` | `UsbProofs` |
| `FwLoad` | the two firmware downloads | `MCParts` | `PartsProofs` |
| `ApBcast` | broadcast frames of an access point | `MCParts` | `PartsProofs` |
| `RxSplit` | the two walks over a received aggregate | `MCParts` | `PartsProofs` |
| `SeqKept` | what is left of a queue when members are taken out of its middle | with `CryptoPipe`, `UsbRx` | lemmas in `FiniteLemmas` |

Who composes whom: `PollTx` extends `HciPoll`, which instantiates `TxQueues`, as
`HciTx` does. `MCParts` is a sum: its parts share no state, a variable `which` is
chosen in the initial state, only that part takes steps and the others stay in
one initial state, so that the states add up and do not multiply. The prefixes
of names (`Hp`, `Pt`, `Cp`, `Ux`, `Uc`, `Fw`, `Ab`, `Rx`, `Rs`) keep the parts apart.

### AmpduTx

MPDUs are numbered in the order mac80211 hands them over; the number stands for
the `sk_buff`, `SnOf` gives its sequence number. Variables are the fields of
`AMPDU_TID_st` (`txq` = `ampdu_skb_tx_queue`, `cur` = `cur_ampdu_pkt`, `early` =
`early_aggr_ampdu_q`, `win` = `aggr_pkts`, `head` = `ssv_baw_head`, ...), of
`SKB_info` (`st`, `rc`), the A-MPDU records `ampdu_ssn` (`slots`), what is in
HCI (`hciq`) and in the chip (`air`, `rcq`), and a program counter with the
locals for each context. One step is what a context does while it holds one
lock, or between two of them; where it walks over the window without a lock, a
step is one slot:

- TX task: `TxCheck` (the state of the session and the number of the frame), then
  `TxQueue` (direct acknowledgement, `skb_queue_tail`) or `TxRefused` (the returns
  that leave the frame to be sent as a single MPDU), `Aggregate` (one turn of
  `_aggr_ampdu_tx_q`), `AmpduFlush` / `CloseCurrent`, `FlushSync` / `FlushSend` /
  `FlushDone` (`_flush_early_ampdu_q`, which drops its lock between the two);
- HCI context: `HciSend`, `HciSendFails` (`ssv6xxx_ampdu_sent` runs before the
  transfer, which may fail);
- the answer: `RxBa`, `RxNoBaEvent`, `RxRateRptNoBa`, `RxRateRpt`, or `AirLost`;
  which frames a BlockAck acknowledges is left open (`BaBitmap` has the walker);
- RX task: `Release*`, `RxEnd`, `CollectLook` / `CollectPut` (`_collect_retry_frames`:
  the look at a slot, and the use of what was seen), `RetryTake` / `RetrySend` /
  `RetryDone`, `Report`, `CheckStart` / `CheckPass` / `CheckExpired` / `CheckDone`
  (`_check_timeout`);
- rate report work: `RcNoBa`, `ReleaseNoBa`;
- mac80211: `TxStart`, `TxOperation`, and `ssv6200_ampdu_tx_stop` in its parts, each
  beside all other contexts: `TxStop` (the state), `StopMark` (a slot of the
  window), `StopRelease`, `ClearTxq`, `ClearRetryq`, `ClearRelq`, `ClearEarly` (a frame
  or an aggregate a step), `StopEnd`. Its mutex keeps only the next start and stop
  away.

Faults (`bypass`, `refuse`, `alloc`, `bus`, `air`, `noba`, `stop`) are steps of their
own, at most `MaxFaults` of them. The size of an aggregate in bytes and the age
of a frame are nondeterministic: an aggregate may be full at any number of
frames, a frame may have expired or not.

The history variable `strays` records which check was overtaken before its use:
`"queue"`, a frame queued by the TX task after the session it was checked for had
ended; `"retry"`, a frame queued for a retry after it had left the window;
`"status"`, a frame of the retry queue whose status RETRY_Q was overwritten. `lost`
has the MPDUs whose last reference a stop or a start drops.

What is still one step though the code does more: a turn of `Aggregate` with
`cur_ampdu_pkt`, which `ssv6200_ampdu_tx_stop` frees without a lock (`ampdu.c:950`);
the initialisation in `TxStart`; `skb_queue_len` and `skb_dequeue` of the early queue
in a stop (`ampdu.c:942`); the unlocked dequeue in `Report`; a test of a status and
the write behind it, except in `_collect_retry_frames`; one call of the BlockAck,
no-BA and `ssv6xxx_ampdu_sent` handlers. `StopRelease` leaves out the flag
`collect_ba_window_frame`: the code does not release when the walk has met no frame.

### BaBitmap

One behaviour is one walk: the inputs (start, sequence numbers, bitmap) are
chosen in `Init`, a step is an iteration of the loop. The indices keep the
values the C functions leave in them when they return false.

### HciTx and TxQueues

`HciTx` has the queues, the software masks (`intMask`, `intStatus`, `txqMask`,
`paused`), what the chip holds (`hwMask`, `halted`, `chipIn`, `chipOut`, `used`),
the two mutexes, and a program counter per context. Each access to the chip is a
step of its own, so that whatever runs beside it can come between the change of
a mask and its write. `HasTrigger` selects the two builds of
`ssv6xxx_hci_trigger_tx` (with and without `ENABLE_WAKE_IO_ISR_WHEN_HCI_ENQUEUE`;
the default build is without). The chip is external: it takes frames in order,
sends those of queues that are not halted, and raises RESOURCE_LOW while few of
its ids are used. The flag `paused` of all queues is changed in one step, though
the code loops over them.

`TxQueues` says what HCI promises whatever happens inside: frames enter at the
head or the tail (behind the one in the hands of the handler), leave from the
front, each exactly once. `HciTx` implements it with `Waiting`: the frame in the
handler's hand is still the first of its queue.

### HciPoll and PollTx

`HciPoll` has the thread `ssv6xxx_hci_tx_task`: it takes the queues from the last to
the first, looks for room in the chip, takes a frame, sends it, puts it back if
the transfer fails, counts errors (`hpErr`), and flushes when there are
`HpMaxErrors` of them, or for good when the interface is gone (`hpIfErr`).
`ssv6200_tx_flow_control` is called from both ends of the queues: a call tests
`flow_ctrl_status`, loads it, and stores it (`FcStep`), for each context
(`FcContexts`). `PollTx` adds mac80211, which gives no frame to a queue that is
stopped, and `ssv6xxx_tx_task` with its wakeups, its flush and the clearing of
`tx_q_empty`; an A-MPDU is one frame here, and the BlockAck window a number.
`HciPoll` implements `TxQueues`, like `HciTx`.

### HwRestart

The callbacks `ssv6200_sta_add`, `_sta_remove`, `_set_key` and those that configure
(`conf_tx`, `config`, `bss_info_changed`) run beside one another; each turns
`write_hw_config` on, takes `sc->mutex`, changes the driver's tables and writes
words to the chip, releases the mutex and turns `write_hw_config` off. The words
are `rsChip`, and `rsCfg` those recorded. `ssv6xxx_restart_hw` sets `SC_OP_HW_RESET`,
waits for scans and the mutex, and after the reset of the chip writes what was
recorded. A key is the number of the call that set it, so that an old key in the
chip is told from the new one. What a configuring callback writes is left out;
that it turns the recording off is not.

### CryptoPipe

Packets are numbered as they arrive. A task is bound to a CPU; it takes the
first of `preprocess_q` to the end of `crypted_q`, works on it without a lock, and
then hands over whatever is done at the head. `_clean_up_crypto_skb` sets `paused`,
looks at `running` of each task, and takes the packets of a station out of both
queues. A failed cipher, a packet of an unknown kind and a time-out of the
cleaner are faults.

### UsbRx, UsbCmd

A buffer is submitted (`uxBus`), filled (`uxQueue`), in the worker's hand, or killed;
the worker hands its data on and submits it again, or puts it back at the end of
the queue when there is no room. Suspend and resume go through the buffers one
by one, beside the worker. `usb_submit_urb` may fail at every submission; the buffer is
then in no list (`uxDeaf`). `UsbCmd` numbers commands modulo `UcSequence`; a
command or its answer can be lost or late, and an answer can be short or to an
unknown command.

### FwLoad, ApBcast, RxSplit

`FwLoad` is the download in both forms (`fwVia`), block by block: each read, each
allocation, each write to the chip can fail or damage a block. `ApBcast` is the
queue of broadcast frames, the three work items of `config_wq` (one thread), the
TX task and the notifications beside it, and the removal of the interface, which
cancels the work items one by one; the chip may refuse any beacon (`AbSetBeacon`).
`RxSplit` is one behaviour per input: first the walk that finds the length of the
next transfer, then the one that copies the frames out, with the three places the
code keeps.

## 3. The runs

| Run | Question | Bounds | Result |
|---|---|---|---|
| `ampdu_window` | does the BlockAck window keep its shape, the order and the acknowledgements | 3 frames, window 3 (numbers wrap at 6), two A-MPDUs in the air, no faults but any subset received and any time-out | holds |
| `ampdu_stop` | teardown step by step and restart, lost answers, "no BA" reports, frames that bypass the session or are refused, failed allocations and transfers | 2 frames, window 2 (wraps at 4), run numbers that wrap at 3, 1 fault of any kind | holds until a frame strays |
| `ampdu_live` | is every frame released in the end | 2 frames, one answer lost | holds under `FairSpec` |
| `ampdu_bug_on` | `BUG_ON(head_ssn == SSV_ILLEGAL_SN)` | 2 frames, 2 faults | **violated** |
| `parts` | the seven parts of `MCParts`, each with its failures and its liveness | see below | holds under `PartsFairness` |
| `poll` | the transmit side over USB: flow control, wakeups, refinement, progress | 3 frames, 2 queues, 1 A-MPDU, 1 fault, 1 pause or stop | holds under `PtFairSpec`; refinement of `TxQueues` |
| `hw_restart` | do driver, chip and mac80211 agree on stations and keys, also after a restart | 3 stations for 2 entries, 2 group keys, 5 calls, 2 at once, 1 restart | holds |
| `hci_chip` | resources of the chip, its mask | 3 frames of 1 to 4 pages for 3 pages and 2 ids, 3 operations | holds |
| `hci_pause` | two contexts pause and resume while frames leave | 3 frames, 3 operations, the build with the trigger | holds |
| `hci_restart` | failed transfers, reads and receptions, stop, start, reset work | 2 frames, 3 operations, 2 events | holds; refinement of `TxQueues` |
| `hci_live` | does every frame leave in the end | 2 frames in 2 queues, 3 operations | holds under `FairSpec` |
| `hci_read_fails` | `BUG_ON(... < txq_info.tx_use_page)` | 1 failed read | **violated** |

The bounds of `parts`: the walker with numbers modulo 12, a map of 2 x 2 and 1 to 3
frames, all inputs; 2 encrypt tasks, 4 packets of all kinds, 1 fault, a clean-up at
any time; 2 USB buffers (the default), 3 transfers, 2 errors, 1 suspend; command
numbers modulo 3, 8 commands, 4 faults; images of 2 blocks with or without a part
of a third, 3 attempts, 2 faults; a broadcast queue of 2, bursts of 2, 4 frames, an
access point that is removed and added again, 1 refused beacon, 3 notifications;
aggregates of 1 to 3 frames of three lengths, one of them too long, with nothing,
a byte of padding or a header behind them.

Why the bounds are enough: an A-MPDU window of 2 or 3 with a number space of twice its
size wraps within the frames sent, is full, is empty and has a frame in the
middle that is missing; two retries reach `RetryMax`; two queues suffice for a
handler that goes on to another queue, for the management queue's own path and
for overlapping pauses; 3 operations are a start, a pause and a resume, or a
start, a stop and a start. Every run names its constants in its `.cfg`;
`CONSTRAINT Bounded` limits how much the environment may pile up. In `HwRestart` 5
calls are two stations with keys, or a key that is replaced, removed and set
again after its station has gone and come back; in `UsbCmd` 8 commands with numbers
modulo 3 let a late answer meet its own number; in `FwLoad` 3 attempts and 2 faults
let an attempt without a fault follow one with each. `CHECK_DEADLOCK FALSE`
appears where the system may stop: a walk, a download ends, and the others rest
once the frames and operations are used up; in `ampdu_stop` a stray retry can also
leave the RX task at its `BUG_ON`.

Every property has a mutant, a plausible slip in the code it is about, defined
next to the original in the module ("Mutant: ..."); with it the property fails.

### What the violations show

- **`ampdu_bug_on`** (`ampdu.c:277`): an allocation fails in
  `ssv6200_ampdu_send_retry`, the MPDU stays in `retry_queue`; the same MPDU is
  still in an A-MPDU that was put back after a failed transfer, is sent again and
  acknowledged; the window empties and the next retry runs into the `BUG_ON`.
- **`hci_read_fails`** (`ssv_hci.c:981`): the HAL functions that read the chip's
  counters return `bool`, so `ret < 0` never holds; after a failed read the
  uninitialised structure is used.

### What holds only in part

Where the code does not keep what one would expect of it, and no comment or
assertion of the repository says that it does, the property names the exception,
mostly by a history variable; without the exception TLC finds the behaviour.

- `MaskWritten` is checked without failed transfers and without stopping the layer:
  `ssv6xxx_hci_irq_enable` reads `int_mask` without `hci_mutex` and may overwrite the
  mask a trigger has just written. TLC shows that with the reset work after a
  reception that failed, and with a stop and a start while a frame is enqueued.
- `OneRetry` states what the code does, that `_collect_retry_frames` keeps only the
  frame at the head of the window and drops those behind it (the arguments of
  `SSV_AMPDU_SN_a_minus_b` in `ampdu.c:1654`).
- `WindowShape` has a gap after a frame that is refused: `last_seqno` has moved on
  (`ampdu.c:1328`) when the frame's rate allows no A-MPDU (1333), its copy cannot be
  allocated (1374) or it has no delimiter (1388), and the session's next MPDU
  follows one that is not there (three frames, window 3). The run with that fault
  does not check it.
- A stop beside the RX task (`strays` has `"retry"`). `_collect_retry_frames` sees RETRY
  (`ampdu.c:1658`), `ssv6200_ampdu_tx_stop` marks the frame DROPPED (917) and releases
  it (924), and only then it becomes RETRY_Q and enters `retry_queue` (1663): it is
  handed back from both queues. One stop is enough; TLC finds it in 22 steps when
  the condition `NoStray` is taken out of `GivenBackOnce`. If the session is started
  again before, the frame is retried in the next session. The same stray retry
  reaches the `BUG_ON` of `ampdu.c:277`, since the window it was taken from is empty,
  so that one stop alone leads to what `ampdu_bug_on` shows with two faults.
- A frame of the retry queue that is sent again (`"status"`). An A-MPDU that stays
  queued after a failed transfer, or whose `tx_pkt_run_no` has come round, is sent
  while one of its MPDUs waits in the retry queue; `ssv6xxx_ampdu_sent` writes SENT,
  `_acquire_new_ampdu_ssn_slot` RETRY, over RETRY_Q, and a stop, which tells the
  frames of the retry queue by that status, hands the MPDU back from the retry
  queue and from the window. `GivenBackOnce` and `Accounting` hold until one of these
  two happens (`NoStray`). Besides, a frame handed back from the retry queue stays in
  `aggr_pkts` until the next start; `GivenBackOnce` says that this is so of ended
  sessions only.
- A frame queued after its session (`"queue"`). The TX task has passed the check of the
  state (`ampdu.c:1317`) when the session ends; it then queues the frame (1392), and
  the frame may close an aggregate and stop the AC again (1248) behind
  `ssv6200_tx_flow_control(..., false)` of the stop (954). The next start clears
  `early_aggr_skb_num` (804) and not the stop: the AC has nothing to wake it. TLC
  finds it in 22 steps without the exception in `StoppedForBacklog`. If the next
  session has begun when the frame is queued, its window gets a gap, so that
  `WindowShape`, `InOrder` and `OneRetry` ask for no stray of any kind (`NoneAtAll`).
- `Accounting` counts a leak. Frames freed with `cur_ampdu_pkt` (`ampdu.c:950`), and
  those left in the window or in a queue when the next start initialises them (801 -
  813), are never taken off `ampdu_tx_frame`. The property says that this count is
  what the driver owes mac80211 and, for ever, those frames (`lost`). As the count
  only grows by it, direct acknowledgement, which is tried below 1024 frames and
  turned on again below 64, ends for good after enough teardowns.
- With two faults in one session, a retry whose allocation fails stays in the retry
  queue; a BlockAck for an A-MPDU still queued gives the MPDU up and releases it,
  and the next retry puts it back into the window: `WindowShape` and `OneRetry` fail.
  The proofs therefore state which faults they exclude.
- `FcStopNeeded`: two overlapping calls of `ssv6200_tx_flow_control`, or a stop that is
  carried out after its backlog has drained, leave an AC stopped for good
  (`fcClash`). HCI and the A-MPDU queues use the same bit with different counts.
- In polling mode `ssv6xxx_hci_txq_flush` frees nothing when all five queues are in
  its mask; the count of errors is never reset by a success; an interface that is
  gone ends transmission for good. `PtEventuallySent` is stated for the rest.
- `CpFreedInHand`: a task that has left its wait but has not yet set `running`, that
  was preempted on the cleaner's CPU, or whose wait timed out, can have its packet
  freed under it (`cpSlipped`). A packet whose preparation fails (`dev.c:2910`) is
  leaked; with no task idle `wake_up` is called on the list head taken for an
  entry (`dev.c:2899`), which the model leaves out.
- `UxDelivery`: resume submits buffers the worker still has (`uxMet`), and a buffer
  that is put back goes behind a later one (`uxSwapped`): such data can be lost,
  doubled or late.
- `UxListens`: `usb_submit_urb` with `GFP_ATOMIC` may fail while the device is on; the
  error is only logged (`usb.c:372`), and the buffer is not submitted again before
  the next resume (`uxDeaf`). With all buffers lost this way the device is deaf.
- `UcReadCurrent`: an answer shorter than a header ends a command with success and
  no value; and after as many failures as there are numbers (255) a late answer
  is taken for that of a command with the same number.
- `FwRetryWorks`: a file is not rewound and its checksum not reset for the second
  attempt, so that a retry is of use for an image in memory only. `FwLoadedRight`: a
  buffer that cannot be allocated is reported as success.
- `AbTold`, `AbNoneStuck`: `aid0_bit_set` is not reset when the interface is removed
  (`abLeft`), and a beacon the chip had no buffer for, be it the first one or one
  set by `set_tim_work`, is taken for sent (`abRefused`).
- `RxExact`: after a failed allocation `pdata` moves on and `skb->data` does not, so
  that later frames are handed on twice or garbage is (`rxTrouble`).
- `RsChipAgrees`: after a restart of the chip, what a callback wrote while another
  one's `HCI_WRITE_HW_CONFIG_OFF` ended its recording (`rsOvertaken`), or while
  `SC_OP_HW_RESET` was set (`rsUnder`), is missing from it. `SSV_SAVE_HW_STATUS`
  records nothing, since it is called with that flag set; a restart that gives up
  on a scan leaves the flag set for ever. Without a restart the overlap does no
  harm, and that is checked too. The restart is off unless bit 8 of `online_reset`
  is set. Whether callbacks can overlap depends on mac80211's locks, which the
  model takes as one for stations, one for keys and one for configuration.

### Fairness

`AmpduTx!Fairness`: the kernel threads and the HCI queue are scheduled (weak
fairness on each task's next step), and the RX task, which wakes every 200 ms, at
some point finds a frame expired that stays unanswered (strong fairness on
`CheckExpired` at each distance from the head: a frame of the window that was sent
is met each time the task walks that far, and 50 ms after it was sent it has
expired). Nothing is assumed of mac80211 or of the air. `HciTx!Fairness`: a
context that has begun an operation finishes it, a mutex is granted in the end to
a caller that waits (mutexes are handed over in order: strong fairness where
`hci_mutex` is taken), the handler runs while its interrupt is raised, and the
chip moves frames of queues it does not halt. New frames, pauses and starts are
not fair. `PtFairSpec`: both threads are scheduled (the time-out of the TX task
included), calls of the flow control finish, the chip sends what it has, and a
BlockAck or its time-out comes; the property asks that the layer in the end stays
started, unpaused and present. `CpFairness`: each encrypt task runs on its CPU,
and the cleaner on its own. `UxListens` needs the worker, which is a tasklet or
work item once scheduled, and the steps of suspend and resume once begun.
`AbNoneStuck` needs the thread of `config_wq` and the removal once begun; nothing
is asked of mac80211.

## 4. The proofs

Every theorem holds for every value of the constants that the named assumptions
of its module allow: any number of frames, queues, contexts, buffers, faults and
operations; the bounds of the runs play no part. Where a theorem needs more, it
says so in an `ASSUME`. The argument is always the same: an inductive invariant,
shown to hold at the start, to be kept by each action (one step of the proof per
action), and to imply the property; it was checked by TLC before it was proved.

### The BlockAck walker (`PartsProofs`)

- `WalkerReadsTheBitmap`: `Spec => []WalkIsExact`;
- `WalkerStaysInTheBitmap`: `Spec => []IndexInMap`.

`WalkIsExact` speaks of the frames already walked and is not inductive. The
invariant says where the pair (word, bit) points: to the distance of the current
frame from the start if the frame is in the map, and that nothing was found yet
otherwise. `SsnToBitIdxIsExact` establishes it from scratch, `NextPlace` carries it
to the next frame; both rest on lemmas on distances modulo the number space
(`GapsAdd`, `WrapKeepsGap`).

### The A-MPDU session (`AmpduTxTypes`, `AmpduTxProofs`)

For every set and number of faults:

- `TypeCorrect`: `Spec => []TypeOK`, which is inductive. The lemmas under it say what
  the operators return: `FlattenType` (the fold over the early queue),
  `RecordTypes` (where MPDUs enter the window), `ReleaseTypes` (what leaves it are
  MPDUs, not empty slots), `AcquireTypes` (the run numbers);
- `StopHasBacklog`: `Spec => []StoppedForBacklog`. The end of a session lets
  mac80211 send again but leaves `early_aggr_skb_num`, the next start resets the
  number and leaves the request, so the property is inductive only with `Ended`: how
  much the steps of a stop have emptied so far, and that a session that has ended
  has nothing to aggregate and nothing stopped, unless the TX task has queued a
  frame behind it;
- `EarlyNumberIsRight`: `Spec => []EarlyCount`, from what `Flatten` makes of a queue
  that grows at its end and shrinks at its front (`FlattenAppend`, `FlattenTail`).

Under `Steady` (no refused frame, no failed allocation, no "no BA" report; lost
answers, failed transfers, frames that bypass the session and teardowns may happen),
and until a frame strays, as the properties themselves say:

- `WindowHasNoGap`: `Spec => []WindowShape`;
- `OrderIsKept`: `Spec => []InOrder`;
- `OneFrameIsRetried`: `Spec => []OneRetry`;

and, if besides mac80211 does not stop the session:

- `FramesAreCounted`: `Spec => []Accounting`;
- `NothingGivenBackTwice`: `Spec => []GivenBackOnce`.

None of the five is inductive. The invariant `OrderInv` says that a live session
holds consecutive MPDUs from some number `lo`: the window is `lo`, `lo + 1`, ...
each in the slot of its number (`WindowFrom`), what is queued counts on from there
to `last_seqno` (`QueuedFrom`; between its check and its queueing a frame is ahead
of the queue, `LastFrom`), and what was released is in order and below `lo`
(`Released`). `RecordWindow` and `ReleaseWindow` are the two lemmas that matter:
an aggregate that fits extends such a window, and the releasable prefix leaves
one. They rest on arithmetic modulo `MaxSsn` and `W` (`SlotUnique`,
`SlotFromHead`), where `W` divides `MaxSsn` (`WindowDividesAssumption`).
`RetryInv` says why a retry does not put a frame back into a window it has left:
`_collect_retry_frames` keeps the head alone (`BehindHead`), and under `Steady`
only the RX task, which does not do so between the walk and the retry, and a stop
release frames; what a stop does in between is a stray. `Steady` is needed:
section 3 names what a refused frame or a failed allocation does to the window.
For the "no BA" reports TLC finds no violation with one of them; but the rate
report work releases frames between walk and retry, so that the argument does not
carry over. `Accounting` and `GivenBackOnce` are proved without teardowns
(`Settled`, `FreshInv`): what the steps of a stop have marked, released and handed
back so far is not in the invariant. TLC checks both with teardowns.

The action property has two theorems, under `Steady` and if no bus transfer fails:

- `AckedStaysAcked`: `Spec /\ [][NumberIsFree]_vars => AckedIsFinal`. `NumberIsFree`
  says that `_acquire_new_ampdu_ssn_slot` takes no `tx_pkt_run_no` which an A-MPDU in
  `ampdu_ssn` still has;
- `AckedBeforeWrap`: `Spec /\ [](run < MaxRun) => AckedIsFinal`, for the A-MPDUs sent
  before `tx_pkt_run_no` reaches its end for the first time: until then the recorded
  numbers are older than the next (`NumbersInOrder`, `NumbersFreeAtFirst`).

A guard on the status protects an acknowledged frame from late answers and
time-outs, but `_sync_ampdu_pkt_arr`, `ssv6xxx_ampdu_sent` and the wrap of
`tx_pkt_run_no` overwrite it unseen. The theorems hold whatever has strayed.
`AckInv` says which frames these can meet: an MPDU in an A-MPDU that has not
reached the chip is in one such A-MPDU alone (`HciOnce`, `CarryOnce`), is
AGGREGATED or DROPPED (`SendingWaits`) and not in the retry queue (`RetryWaits`),
nor on its way there (`HandWaits`); one that is still queued has no status yet
(`ComingIsPlain`). The steps of a stop take frames out of the queues behind the
window; what is left rises (`QueuedRises`), so that no frame is in two aggregates,
and one that enters the window never was in it (`AckSync`). Both hypotheses are
needed. TLC finds these two executions: a transfer fails, the BlockAck of the
frame's earlier A-MPDU arrives, and the A-MPDU that HCI kept marks the
acknowledged frame SENT; the A-MPDU of a first transmission is never answered, the
retry is acknowledged while the frame before it holds the window, and the wrap
makes it RETRY.

### HCI in interrupt mode (`HciTxProofs`)

- `TypeCorrect`: `Spec => []TypeOK`;
- `PausedIsMask`: `Spec => []PauseAgrees`. `PauseInv`: between the two halves of a pause
  its context has `txq_mask_lock`, and `paused` lies above `txq_mask`;
- `PauseTakesEffect`: `Spec => []PauseHolds`. `LateInv`: a queue that has sent since
  its pause is masked and not the one in the handler's hand;
- `StatusIsSeen`: `Spec => []StatusSeen`, inductive;
- `NoWakeupLost`: `Spec => []Armed`. `ArmedInv`: the handler looks for frames only
  while it wants RESOURCE_LOW, which it alone masks, after a second look;
- `ChipNotOverrun`, `CountersInRange`: `ChipFits` and `InfoInRange`, if `"read"` is no
  event. `ChipInv`: what the handler takes to be free since its last reading is
  free. The hypothesis is needed, as the run `hci_read_fails` shows;
- `MaskIsWritten`: `Spec => []MaskWritten`, under `MaskAssumption`: nobody stops the
  layer, one context starts it, and neither a transfer nor a reception fails (so no
  reset work runs). `MaskInv`: until the interrupt is claimed `int_mask` has
  RESOURCE_LOW, so that a trigger changes nothing and `irq_enable` writes what it has
  read; then the one who is to write has `hci_mutex` (`MaskHeld`) and the current
  mask. Both halves of the hypothesis are needed (section 3);
- `RefinesTxQueues`: `Spec => ImplementsTxQueues`, step by step: an enqueue, a
  transfer or a drop is the abstract step of that name, and a frame that is taken
  in hand or put back is a stutter, because `Waiting` counts it as the first of its
  queue.

### HCI in polling mode and flow control (`PollTxProofs`)

- `PollTypeCorrect`: `PtSpec => []PtTypeOK`; the room in the chip is counted down to
  zero and no further;
- `PollRefines`: `PtSpec => HpImplementsTxQueues`;
- `StopIsNeeded`: `PtSpec => []FcStopNeeded`. `FcInv`, while no two calls of
  `ssv6200_tx_flow_control` have met: one call is under way at most, what mac80211 was
  told differs from `flow_ctrl_status` by the bit it is about to store, and a queue
  that is stopped has its backlog, or the call that is to wake it has begun.

### The USB interface (`UsbProofs`)

- `CommandReadsItsAnswer`: `UcSpec => []UcReadCurrent`, for every modulus of the
  numbers and every number of commands and faults. `UcSound`: each answer on its way
  is behind the current command by a known number of commands, each of which cost
  a failure; so one with the number of the current command is its own;
- `TransfersDelivered`: `UxSpec => []UxDelivery`, for every number of buffers,
  transfers, faults and suspends. `UxInv` says, until resume has met a buffer in
  use: a buffer is on the bus, in the queue or in the worker's hands, once and in
  one of them only (`UxApart`); the buffers that wait hold different transfers, which
  with those delivered are all there were (`UxHeld`); and unless a buffer was put
  back behind another, what was delivered, what the worker has and the queue are
  in the chip's order (`UxSorted`). `UxApart` is what the property does not say and
  needs: a buffer that is filled while it waits would lose a transfer.

### Firmware, broadcast, encryption, aggregates (`PartsProofs`)

- `FirmwareTypes`, `FirmwareIsRight`, `FirmwareRetryWorks`: `FwTypeOK`,
  `FwLoadedRight`, `FwRetryWorks`, for images of any length, any number of attempts
  and failures. `FwInv` says for each place of the program which blocks are in the
  chip, and that only the last may be elsewhere; `FwAgreement` draws from equal
  checksums that all are in their place;
- `BroadcastTypes`: `AbSpec => []AbTypeOK`;
- `BroadcastAnnounced`: `AbSpec => []AbTold`. `AbInv` follows the bit from
  `aid0_bit_set` to `beacon_buf` and the chip, and says which work items may wait;
- `FreedOnlyIfSlipped`: `CpSpec => []CpFreedInHand`, for every number of tasks and
  packets. `CpPlaces`: a packet waits in one place, two tasks have not the same one,
  and what a task has in hand came before all of `preprocess_q`, so that nothing
  freed comes back. `CpWatch`: a task between its wait and its next one has `running`
  set, and those the cleaner has passed sleep or have slipped; so no task that
  counts has a packet when the queues are emptied;
- `EncryptedInOrder`: `CpSpec => []CpInOrder`. `CpOrderInv`: both queues are in the order
  of arrival, all of `crypted_q` before all of `preprocess_q`, and all that has left
  before both. Taking the first of `preprocess_q` to the end of `crypted_q`
  keeps that, whichever task does it, and so does handing over from the head alone.
- `AggregateTypes`, `AggregateIsSplit`: `RxTypeOK` and `RxExact`, for any number and
  lengths of frames and whatever a header read at a wrong place says. `RxInv`: while
  it looks for the next length, the offset is where a frame begins or behind them
  all (`RxPeeks`); while it splits, and no frame was too long or without skb, all
  three places are where the frame begins that is due, and those before it are
  out (`RxSplits`, `RxCounts`). `RxStarts`, the places where frames begin, is a
  recursive function; that it exists is shown once (`StartsFromIs`, by a least
  counterexample), and from it that frames lie one behind the other
  (`RxPlaces`), so that a header read at a frame's place is that frame's own
  (`RxReads`) and the one that is due can be counted (`RxDueIs`);
- `PartsTypes`: `PartsSpec => []PartsTypeOK`. A step of one part leaves the others as
  they are (`PartsStep`), so that each keeps what types it (`PartsTypeInv`).

### Stations, keys and the restart (`HwRestartProofs`)

- `RsTypesHold`: `RsSpec => []RsTypeOK`;
- `ChipAgreesAfterRestart`: `RsSpec => []RsChipAgrees`, for every number of entries,
  stations, group keys, calls and restarts.

`RsChipAgrees` speaks of the moments between the calls. `RsInv` says what holds within
them. `RsDue(r, f, v)`: the field `f` of the register `r` has the value `v` once the
writes that are planned are done; every planned write of that field gives it `v`,
and either one is planned or the chip has it. `RsWsids`, `RsPairs` and `RsGroups` say
of the words of stations and keys what is due, with `RsKeyOf` for the key of a call
that has the mutex and has not returned to mac80211. A step that is no body
keeps what is due (`DueKept`): a write moves it from the plan to the chip, and a
restart writes what the chip had, because (`RsRecorded`) all that was written was
recorded. A body gives a new value to what it touches and leaves the rest
(`DuePlan`, `PairPlan`, `GroupPlan`). Besides: the mutex has one holder, and only the
holder has writes before it (`RsLocks`); a station has one entry, and an entry while
mac80211 knows it or it comes or goes (`RsOneEach`, `RsListed`, `RsPresent`); and
mac80211 changes no key of a station that comes or goes (`RsAsked`).

`MCParts` and `MCPollTx` check these parts on small instances; but for `PartsTypes`
the theorems are about the parts' own specifications.

`FiniteLemmas` holds the facts behind all of them that are not about this driver:
greatest and least elements of bounded sets (shown from cardinalities, since the
induction theorems cannot be instantiated here), what is inserted into or cut
from a sequence, what `Only` and `Without` leave of one (`OnlyIsPart`: its members in
their order, by the rank of their places), and remainders (`ModMod`, `ModNear`).
Claims about all positions of a queue are proved by a least counterexample.

### Only model-checked

- `Accounting` and `GivenBackOnce` with teardowns, and all properties of a session
  with refused frames, failed allocations and "no BA" reports, but for `TypeOK`,
  `EarlyCount` and `StoppedForBacklog`, which are proved for every fault;
- liveness (`EventuallyReleased`, `EventuallySent`, `PtEventuallySent`, `CpAllLeave`,
  `UxListens`, `AbNoneStuck`): fairness and ENABLED are outside what the proof system
  covers.

No module uses a RECURSIVE operator, so that each can be proved about.

## 5. The plan

Proofs that are left, in the modules that exist:

1. the window, and `AckedIsFinal`, with "no BA" reports;
2. `Accounting` and `GivenBackOnce` across a teardown.

Models that are left: `ssv6xxx_hci_usb_tx_handler` (a chip whose ids are read over
USB), several A-MPDU sessions that share `ampdu_tx_frame` and `tx_pkt_run_no`, WEP
keys with the TX task's unlocked change of `wep_idx`, two interfaces in
`HwRestart`, the two beacon buffers of the chip.

## 6. Not modelled

Most of the repository's lines are no behaviour: of its 127 000 lines the register
headers (`ssv6006C_aux.h`, `ssv6200_aux.h`, `ssv6006C_reg.h`, `ssv6200_reg.h`) and the
tables and register sequences of the PHY (`turismo_common.h`,
`ssv6006_turismoC.c`) are more than two thirds. The share of lines that a model can
stand for is small for that reason; the modules stand for the code that has
state, more than one actor, and failures.

- Rate control (`ssv_rc*.c`, `ssv_ht_rc.c`): statistics and a choice of rates; integer
  arithmetic in one context.
- P2P notice of absence: `CONFIG_P2P_NOA` is off, and `p2p.c` does not compile with
  it (`ies_len` is not declared, a call has an argument too few).
- What ciphers compute, e-fuse parsing, debug commands, the configuration file,
  smart link: sequential data processing.
- Initialisation and teardown: they run alone; the states they leave are the
  initial states of the modules. The removal of the USB device frees the receive
  buffers before the worker is stopped (`usb.c:154`), which is not modelled.
- `ssv6200_ampdu_action` returns with `sc->mutex` held when the station is gone
  (`dev.c:4395`). No legal sequence of calls reaches that return: mac80211 does not
  call it for a station it has removed.

In what is modelled: the encryption wait queue and debugfs of the A-MPDU session;
several sessions; the data race on `cur_ampdu_pkt` and the other places section 2 names
(below the grain of the model); that a refused frame without a delimiter is freed
and sent (`ampdu.c:1388`);
a failed read of the interrupt status; in polling mode the check of the chip's room
(`hpScan`), which is on or off for a whole behaviour; in `HwRestart` WEP, ciphers in
software and a second interface, the cipher of a station that is not the first one,
which stays in the chip when its key is removed, and `force_triger_reset`, which is
set by a restart and never reset; in `RxSplit` bytes beyond the data that make up a
header and a frame by chance; in `FwLoad` checksums that agree by chance.
