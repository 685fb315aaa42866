# A TLA+ verification of MP-SPDZ

MP-SPDZ runs multi-party computations: a compiler turns a program into
bytecode, parties execute it on shares of secret values, use up preprocessed
tuples as they go, and exchange messages over the network. This directory
models the program in two layers. The lower one is the parts in which threads,
processes, files and messages meet: queues, the thread pool, preprocessing
files over several runs, the sockets, the opening of values and the check of
their MACs, the setting up of connections. The upper one is what those parts
compute: arithmetic, sharings and protocols, preprocessing and its checks,
oblivious transfer, homomorphic encryption, Turbospeedz, the instruction set
and the compiler. TLC checks both on small instances. TLAPS proves the
safety properties of the lower layer for every value of the constants of its
modules (*Proofs*).

Paths are relative to the repository's `src/`. `PROJECT.json` names for every
definition the lines it stands for ("map"), for every hazard the line where it
bites, and for every property a change to a definition (a "mutant": a plausible
bug) that makes it fail.

Contents: *Inventory*, *Modules*, *Runs*, *Bounds*, *Fairness and deadlock*,
*Proofs*, *What is only model-checked*, *What the code does otherwise*, *Not
modelled*, *Plan*.

## Inventory

| Part | State it keeps | Operations | Talks to | What makes it correct |
|---|---|---|---|---|
| `WaitQueue` (`Tools/WaitQueue.h`) | deque, `running`, mutex, condition | `push`, `pop`, `pop_dont_stop`, `stop` | every pair of threads | no lost wakeup, order, nothing lost at `stop` |
| `ThreadQueue(s)` (`Processor/`) | two queues and `left` per thread, `available` | `schedule`, `next`, `finished`, `result`; `distribute`, `wrap_up` | machine, workers, preprocessing | answers reach who waits for them; work is cut alike at all parties |
| `Machine`, `thread_info` (`Processor/Machine.hpp`, `Online-Thread.hpp`) | threads, tapes, `pos` | start, `run_tapes`, `join_tape`, `fill_buffers`, shut down | queues, network, files | every thread does the same jobs at all parties; orderly end |
| `Data_Files`, `Buffer`, `DataPositions`, `OfflineMachine` | file positions, buffers, usage | read, `seekg`, `skip`, `prune`, `purge`, `generate` | file system, machine | no tuple is used twice, prepared files suffice |
| `Player`, `Exchanger`, `octetStream` (`Networking/`, `Tools/`) | sockets, progress of an exchange | `exchange`, `pass_around`, `send_receive_all`, broadcast | sockets | the right message arrives whole, nobody deadlocks |
| `TreeSum` (`Protocols/MAC_Check.h`) | tree position, values | `start`, `finish` | `Player` | all parties get the sum of all shares of the same opening |
| MAC check, commitments, checked broadcast (`Protocols/MAC_Check.hpp`, `Tools/Subroutines.cpp`, `Networking/Player.cpp`) | values and MACs that wait, running hash | `exchange`, `AddToCheck`, `Check`, `Commit_And_Open`, `Check_Broadcast` | `TreeSum`, `Player` | nothing wrong passes a check; honest runs pass; coins are fair |
| `ServerSocket`, `Server`, `Names`, `CryptoPlayer`, `Sender`, `Receiver` (`Networking/`) | client map, sockets, queues, roles | accept, identify, connect, handshake, request and wait | threads, sockets | every connection goes to who asked for it; requests pair up |
| Instruction set, bytecode, processor (`Compiler/instructions*.py`, `Processor/Instruction.hpp`, `Processor.hpp`) | registers, memory, program counter, usage | encode, parse, size, execute | everything | both sides read the same instruction; registers exist; declared usage suffices |
| Sharings and protocols (`Protocols/`) | pending products, seeds, hashes | input, multiply, open, truncate | `Player`, preprocessing | right results; altered messages are found where the protocol promises it |
| Preprocessing protocols and sacrifices (`Protocols/*Prep.hpp`) | buffers of tuples | make, check, buffer, hand out | protocols, thread pool | tuples have their relation, none twice |
| Oblivious transfer (`OT/`) | seeds, choice bits, correlation | base, extend, correlate, multiply | `Player` | both ends fit; inconsistent use is found |
| Homomorphic encryption (`FHE/`, `FHEOffline/`) | keys, ciphertexts, level | encrypt, multiply, switch, decrypt, prove | `Player` | decryption gives what was computed; proofs are sound |
| Turbospeedz (`*_turbo_*`) | masks, external values, files | two passes over one program | files | both passes agree on the masks |
| Numbers (`Math/`) | words | ring, prime and binary field operations | everything | agree with integers and polynomials |
| Compiler (`Compiler/`) | blocks, scopes, dependency graph, registers | trace, optimise, allocate, expand | bytecode | the code does what the program says |
| Oblivious data (`Compiler/*oram.py`, `permutation.py`) | tree of buckets, stash, position map | access, evict, sort, permute | protocols | an ORAM is an array |
| Dealer and checker (`Utils/Fake-Offline.cpp`, `Check-Offline.cpp`) | key files | deal, check | files | dealt files fit the keys, an altered number is found |

The behaviours that make these parts hard are listed with their lines under
"hazards": wakeups that come before the wait; jobs of two parties that must
match although nothing synchronises the parties; an answer collected by the
wrong operation; positions in a file kept by three counters; messages larger
than a socket's buffers; one stream for both directions; parties that are an
operation ahead; a party that alters what it sends; a server that learns who
connected only by reading what it sends first; tables written twice, in Python
and in C++; carries, borrows and wrap-around at the end of a range; data kept
for the next request.

## Modules

### Threads, files and messages

**`Fifo`, `WaitQueue`.** `WaitQueue` has one step for each stretch of code
between two points where no lock is held; the consumer's place is `pc`. `pop`
tests the size with `if` and reads `running` after the unlock, and both are in
the model. `ub` records a `front()` on an empty deque. `Fifo` is the contract,
and `WaitQueue` implements it with `pending <- queue, taken <- got,
open <- running`.

**`ThreadPool`.** For every party: the machine's own thread (`mpc`, `mi`:
creation, the synchronisation with thread 0, the main tape, shutdown in the
order of `Machine::run`), the workers (`wpc`, `job`: the loop of
`Sub_Main_Func`), the queues (`in`, `out`, `left`) as plain sequences, which
`WaitQueue` justifies, and the main tape (`todo`), whose operations are chosen
as the first party gets there and then are the same for all. `run_tapes`
includes the central filling of buffers (`fill_buffers`), which distributes
work and then writes to the buffers of another thread. A job ends only when the
same thread of every party has begun as many jobs (`Met`): that stands for the
messages it exchanges, and is what makes liveness hard. A job that exchanges
none may end alone (`Silent`: kinds of jobs of which that is so); the runs have
none of these, the theorems hold for every `Silent`. A distribute may be nested
in the caller's own slice; `Nests` says that one was while threads were free.

**`PrepFiles`.** One party's files over several runs. A tuple is an index, so a
file is an interval, reading is at `first + position`, and handing a tuple out
twice is visible in the history variables `used` and `again`. Inside a run: the
position of each thread's reader and what is left in its buffer (`reader`), the
usage and skipped counts of `Data_Files`, and `Machine::pos` in its three roles
(the position given to tapes, increased by `run()` while the main tape runs
already; then the sum of actual usage; then the position files are pruned at).
`Throw` is any exception: the process ends through `purge_preprocessing`.
`Generate` is the offline machine, `GenerateBulk` an external generator. An
instruction that starts or joins a tape names another thread than 0, which runs
the main tape. Builds with `INSECURE` (which may rewind) and programs of
unknown usage are left out.

**`Exchange`.** `N` parties with one bounded FIFO per direction and pair. An
operation is cut into parts (`Parts`), each with the transfers that are under
way together: one for `exchange` and `pass_around`, one after the other by
offset for `send_receive_all`, all at once for a broadcast. `Round` is
`Exchanger::round`: send what fits, then receive what is there or the length
(`ReceiveOctets`, `ReceiveLength`, `ReceiveNothing`).
With one stream (`inPlace`) the octets sent are read from the buffer that is
being received into; memory freed by `octetStream::resize` may hold anything.
The scripts are such as callers may use (`Usable`, part of `ScriptAssumption`):
who exchanges is exchanged with, and one stream serves both directions only
where the two lines allow it that *What the code does otherwise* names. It does
not move while octets of it are to be sent (`Exchanger.h:126`); and where one
party is sent to and another received from, no more octets are sent than one
beyond those that come, unless none come (`Exchanger.h:88`).

**`TreeSum`.** Every party's way through `start` and `finish`, for a choice of
number of parties, `opening_sum`, `max_broadcast` and base player made in the
initial state. A value is the count of every party's share in it and the
opening it belongs to. With `par.large`, a send waits until it is received.

**`MacCheck`.** Opening and checking of MACs (`MAC_Check_`, `MAC_Check_Z2k`)
with the subroutines below them: `Commit_And_Open`, `Create_Random_Seed`,
`Broadcast_Receive` with its running hash and `Check_Broadcast` at the end of a
thread. Every party but `Faulty` runs the code on the same script of calls. The
faulty one sends each party what it likes, at the latest moment: its messages
are chosen when they are received (wrong shares, wrong deltas, commitments to
anything, copies of others' commitments, openings that do not fit, nothing at
all), up to `MaxDeviations` that are not what the code would send. A value is
known by which one it is and whether it is right; a hash is what went into it;
a wrong sum of deltas never comes out zero, since the key of the MACs is not
known to the faulty party. `ScriptAssumption` says what `Invocation`s there are
and that a script ends with the last check and the comparison of broadcasts, as
a thread does (`Online-Thread.hpp`).

**`Connect`, `ThreadedPlayer`.** Coordination through the server of party 0,
which opens its socket in a thread of its own while others may dial already
(`StartServer`; who dials too early tries again or gives up), listening, connecting to oneself and every higher party, waiting for every
lower one by name, identification by the accept thread or by a thread of its
own after a timeout, handshakes of encrypted players; then every operation of
`CryptoPlayer` by its sending and receiving threads, in the order of their
queues. The main thread sends from one stream that it fills anew, so what
arrives depends on when a sending thread reads it.

### Instructions

**`InstructionSet`** is the compiler's side: opcodes, formats of operands,
decorators, encoding, declared usage. **`VirtualMachine`** is the machine's:
opcodes, parsing, and how many registers an instruction asks for.
**`Execution`** is what then happens to registers, memory and preprocessing:
each instruction as the ranges it reads and writes and the tuples it takes.
**`Bytecode`** takes every instruction through `get_encoding`, `parse`,
`compute_constants` and execution, with several vector sizes and repetitions
and every register operand in turn at the highest address. `OnlyInCompiler`,
`ReadsFirstOnly`, `NotCounted` and `CountedOnce` name the instructions for
which the two sides do disagree (see *What the code does otherwise*).

### Compiler

**`TapeOptimizer`** is `Tape.optimize` with the passes it calls: dependencies,
merging of rounds, dead code, expansion, register allocation, the count of
preprocessing. **`ControlFlow`** traces loops, conditions and functions into
blocks and links registers. **`Compilation`** compiles small programs with both,
runs the code and compares it with what the statements mean. **`BitCircuits`**
and **`NonLinear`** are carries, adders, comparators, truncation and bit
decomposition on secret bits, in a ring, in a prime field with statistical
masks and in a field of known prime; what is revealed is computed from masked
values as in the code. **`ObliviousTools`** has permutation networks, odd-even
merge sort, unit vectors and packed indices. **`TreeOram`** is a state machine:
linear, tree, Path and Circuit ORAM with buckets, stash, and the eviction of
each; **`ObliviousArray`** is the contract it implements, and
`IsArray` is that refinement.

### Protocols

**`Sharing`** splits values and puts them together; **`ShareProtocols`** is
input, multiplication, opening and truncation in Beaver, replicated, Shamir,
Rep4 and SPDZ-wise protocols, with at most one altered message;
**`Preparation`** makes, checks and buffers tuples; **`Dealer`** is Fake-Offline
and Check-Offline. **`ObliviousTransfer`** goes from base transfers to triples.
**`Cyclotomic`** is rings and slots, **`HomomorphicEncryption`** keys and
ciphertexts, **`CipherRings`** and **`CipherOffline`** the calls
made with them: producers, proofs, distributed decryption, sacrifices.
**`Turbo`** runs both passes of Turbospeedz over one program at two parties.
**`Arithmetic`** is `Math/`: rings modulo 2^k and primes in words with carries,
binary fields as sets of bits.

### Composition

`ThreadPool` and `ThreadedPlayer` use the contract of `WaitQueue`;
`ThreadedPlayer` extends `Connect` and goes on where it ends. `MacCheck` takes
from `TreeSum` that an opening is the sum of everybody's shares. `Bytecode`
composes the compiler's and the machine's tables, `Compilation` the tracer and
the optimiser. **`Computation`** is the shape of modules whose behaviour is one
call: an input (`job`), one step, a result (`out`). **`Algorithms`** composes
those of one party, **`Protocols`** those of several, so that one run covers
them and every call is a transition of its own. `MCPrepFiles`, `MCExchange`
and `MCStartup` hold the programs, operations and teams for TLC; the scripts of
`MacCheck` and the shapes of `TreeOram` are at the end of these modules.

## Runs

Properties that belong together are conjuncts of one definition; its parts have
comments of their own in the modules.

| Run | Properties | Shows |
|---|---|---|
| `wq` | `TypeOK`, `NoUB`, `NothingMissed` (no lost wakeup, lost only by `stop`), `DrainedWhenDone`, `ImplementsFifo`, `LoopServes` (delivery; `stop` ends the loop) | the queue with each consumer loop, with and without spurious wakeups |
| `pool` | `TypeOK`, `LeftCounts`, `JobsInOrder` (same jobs, matching answers, idle buffers, quiet queues), `WorkOnce` (slices cover, the main tape runs once), `Termination` | two parties, three threads, every main tape of up to two operations before its last joins, fewer items than threads too |
| `pool_nested` | `ResultsMatch`, violated | a distribute nested while a thread is free leaves an answer that a later `join_tape` takes for the tape's |
| `prep` | `HandedOutOnce` (no reuse without other tapes, exact pruning, of all but dabits), `Enough` (prepared files suffice, usage never exceeds what was declared), `RunsEnd` | two runs, a file of triples and one of dabits, a second thread, failures |
| `prep_tapes` | `NoReuse`, violated | two tapes of one `run_tapes` read from the same position |
| `exchange` | `Transferred` (delivered, framed, drained), `Completion` | three parties, all operations, messages larger than the sockets |
| `tree` | `OpenedInStep` (every share once, in step, an opening is a barrier), `Completion` | every tree of up to five parties |
| `mac` | `RightVerdict` (wrong values detected, no false alarm), `ChecksInStep`, `FairCoins` (same view, independent commitments), `Completion` | three parties, one faulty, every pair of calls |
| `startup` | `Connected`, `TalkInStep`, `Completes` | setting up, then operations of the threaded player |
| `oram` | `WellStored` (on its path, in one place), `IsArray`, `Settled` (after an eviction of Path ORAM) | all ORAMs on every sequence of accesses of a few items |
| `algorithms` | `NumbersAgree`, `SecretNumbers`, `SecretPlaces`, `CompiledCode`, `CodeUnderstood` | numbers, secret comparisons, oblivious structures, compiler, bytecode |
| `protocols` | `DealtFilesFit`, `SharesComputed`, `TuplesUsable`, `TransfersUsable`, `SlotsComputed`, `TurboCorrect`, `TurboFilesFit` | what parties compute together, with at most one altered value |

`prep_tapes` and `pool_nested` are the findings of `PROJECT.json`
(`Machine.hpp:249`, `ThreadQueues.cpp:19`); the other disagreements met while
modelling are under *What the code does otherwise*. Where one of them makes a
property false for some inputs, the property leaves these out and its comment
says so: `JobsInOrder` and `WorkOnce` (`Nests`), `HandedOutOnce` (dabits, runs
that fail, other tapes), `Transferred` (`Usable`), `NumbersAgree` (primes whose
top limb is all ones), `SecretNumbers`, `CodeUnderstood` (`NotCounted`,
`ReadsFirstOnly`, `CountedOnce`, `OnlyInCompiler`), `TurboCorrect` and
`TurboFilesFit` (`Supported`). They say nothing of these inputs, and the hazards
of `PROJECT.json` note it.

## Bounds

- *Queue*: all combinations of consumer and condition variable; four pushes of
  two values; more repeat states of the same deque and consumer. (Proved without
  bounds.)
- *Pool*: two parties and two helpers are the least with which slices, idle and
  busy threads and parties at different speeds coexist; two items are fewer than
  three threads, so that slices are empty or, with one busy thread, not. In
  `pool`, `Nested = FALSE` bounds the programs to those that nest a distribute
  when no thread is available only (of the others `JobsInOrder` and `WorkOnce`
  say nothing, and `pool_nested` has them). (All but termination is proved
  without bounds, for either value of `Nested`.)
- *Files*: buffers of two tuples and files of three buffers put every position
  at, before and after a buffer's end; two runs let the second read what the
  first left, pruned, failed or overwritten by a generator in between. Main
  tapes have up to three gets of two kinds, or tapes on one other thread.
  (`HandedOutOnce` and `Enough` are proved without bounds.)
- *Exchange*: room for two items against messages of up to three and their
  length; two operations let parties be one ahead; three parties are the least
  where the one sent to is not the one received from.
- *Trees*: up to five parties have two levels up and down with fan 2 and 3; a
  fan-in of 10 is a single level. (Proved without bounds.)
- *MAC check*: three parties, one faulty, two deviations (one to hide another);
  `SmallBatch` 2 stands for the 10 and `PopenMax` 3 for the `POPEN_MAX` of the
  code, so that a script passes both.
- *Start-up*: three coordinated parties, two with two threads each, two
  encrypted ones, at most one timeout; a connection holds one message in each
  direction. Operations of encrypted players of two and three parties follow,
  the latter from `ReadyInit`, the state after setting up.
- *ORAM*: depths one to three; as many items as overfill a bucket and the stash
  in turn; the position map is the array it promises to be; Circuit ORAM in
  GF(2^n) only; deadlock is checked.
- *Bytecode*: `Unit` 4 for 64 bits in a word, sizes 1 and 5, repetitions 1 and
  2, integers 1, 3, 5.
- *Arithmetic*: words of two bits, so that a number of 1 to 5 bits has one to
  three words and every carry occurs; binary fields with their real polynomials
  on sample elements.
- *Secret numbers*: ring of 4 bits, prime 131 with one bit of statistical mask,
  known prime 29; the first random number of a call is any, further ones are
  from `Draws`.
- *Compiler*: programs of a few statements modulo 16, one CISC function for all,
  at most 500 steps.
- *Protocols*: small `q` (a prime, a power of two, 2 for bits and in place of
  GF(2^n)); a generator of random numbers is a function of its seed, and equal
  seeds give equal runs; a hash is the sequence it was made of; one message is
  altered. Buckets of two for the code's three to five. Checks return the set
  of challenges they pass.
- *Homomorphic encryption*: `m` 4 with `p` 5 (two slots) and `m` 3 with GF(4),
  moduli of 15 and 14 bits, one secret coefficient, security parameter 1 or 2,
  challenges 0 to 3, two parties, two runs; noise for masks up to 6.
- *Turbospeedz*: prime 3, seven programs, two parties, at most three gates each
  (`Supported` states which programs the two passes are meant for). MACs go
  through the same linear operations and are left to `MacCheck`.

## Fairness and deadlock

`WF` on each thread's steps: they are operating-system threads that no code
suspends, and sockets deliver. In `Exchange` there is one `WF` for each party:
every step of it that changes anything is progress. In `PrepFiles` only the
steps of a run that was started are fair: nobody is obliged to start one or to
generate files, and failures are not required. `WaitQueue` needs `WF` on the
consumer only. In `Connect` every party, thread, accept thread and worker is
fair, and in `ThreadedPlayer` every sending and receiving thread.

`CHECK_DEADLOCK FALSE` is in three runs: the consumer of `WaitQueue` may wait
for ever when nobody pushes any more, and a behaviour of `Algorithms` or
`Protocols` ends with its call.

## Proofs

Eight modules hold theorems; each extends the module it is about and its
theorems are for every value of the constants that the module's named
assumptions allow (`PartyAssumption`, `KindAssumption`, `ScriptAssumption`, ...,
which TLC evaluates on every run). No other hypothesis is made, except where a
theorem states one.

**`WaitQueueProofs`.** `TypeCorrect`; `WakeSafe` (`NoUB`: the consumer takes
from the deque only when woken for a reason, `WokenForAReason`);
`RefinesFifo` (every step of the queue is a step of `Fifo` or a stutter; no
invariant is needed); `Drained` (what was taken and what is queued is what was
pushed, so a consumer that ends by `stop` with an empty queue has had
everything); `NothingIsMissed` (`NothingMissed`: no lost wakeup).

**`ThreadPoolProofs`.** `TypeCorrect`, with `IndexOK` for the machine's loop
index; `LeftIsExact` (`LeftCounts`: `left` is queued plus held plus answered).
The invariant says besides that no thread is born before the constructor and
where the machine's loop is (`BornInCreate`, `Beyond`). The rest of the module
shows `OrderInv` of every behaviour as long as `Nests` is not so: the program is one the compiler can
make, the list of every operation has one of eight shapes, and these and the
machine's loop say of every thread where it is and what its queues carry
(`Shape`): never more than one job in flight, except for the default job behind
the stop. Three parts of `JobsInOrder` follow (answers match, buffers are filled
and queues freed while the thread is quiet).

**`ThreadPoolJobs`.** `WorkDoneOnce` (`WorkOnce`), from `MadeInv`: the slices
made so far are those of the threads that are through, and the caller's once it
collects; that they tile the items is arithmetic on the ranks of the threads.
`JobsBeginInOrder` (`JobsInOrder`), from `TrailInv`: there is one course of
places for all parties; where a party goes next and what it assigns depends on
its place and the program only, never on how fast threads answer; and what a
thread has begun, with a waiting job, is what has been assigned to it so far. So
two parties' threads begin the same jobs as far as they have come. Neither
assumes anything of the program or of `Nested` and `Silent`: the properties
themselves end with the first distribute nested while threads are free
(`Nests`, which once true stays so: `NestsBefore`), as the code then does mix up
answers (`pool_nested`).

**`PrepFilesProofs`.** `AccountsKept` is the inductive invariant. It keeps an
account for every thread: what it has used and what its instructions still ask
for is at most what the instructions begun before give it, summed over the
instructions (`SumOf`, `Target`: a fold, unfolded at the last instruction).
That the usage never exceeds the declared one follows. While only the main tape
runs, the position of a reader is what was used plus what is buffered and a
multiple of `BufferSize`, so a file that holds the declared usage rounded up
suffices: `EnoughPrepared` (`Enough`). For every kind, what is handed out lies
below the position and each next one above (`HandedOut`): `OthersOnce`
(`HandedOutOnce`: no tuple of a kind other than dabits is handed out twice by
runs that end, and what they leave begins with the first unused one; of dabits
it is false, see *What the code does otherwise*).

**`TreeSumProofs`.** `OpenedTogether` (`OpenedInStep`: every party gets the sum
of everybody's share of the same opening). The numbers a party uses are relative
to a base player, which is a renaming; the levels of the tree are a chain, each
a cut of the one before; at every moment exactly one party carries the share of
another (`Carrier`), and messages up and down never share a channel. What is
needed by induction over the levels is had from least elements (`WFMin`).

**`MacCheckProofs`.** All honest parties follow one course: what is done next is
a function of script, mode and the number of values that wait (`AlwaysOnCourse`).
Positions on it are unique by round, so messages of two parties are about the
same thing. `CoinsAreFair` (`FairCoins`) needs that a commitment fixes its value
before any opening is sent (`FirstFirm`, `OwnCommitments`); `CheckedInStep`
(`ChecksInStep`) that the lists stay paired; `WrongValuesDetected` (`Detected`:
an honest party that finishes has had no wrong value).
`RightVerdicts` (`RightVerdict`) adds that honest parties raise no false alarm.
Its invariant `Faithful` says that, while the faulty party has not deviated,
every party has sent what its positions on the course ask for (`Told`), got in
each broadcast what the others sent and the faulty party's truth (`Heard`),
agrees with all others as far as both have come (`Agree`), and has what its next
step compares (`Ready`, `Enough`). Then no step throws (`Honestly`), and nobody
ends while another still waits for it, so no receive meets a closed connection
(`NeverClosed`).

**`StartupProofs`.** `AlwaysConnected` (`Connected`), for teams of any size with
any number of threads whose ids do not meet (at most 2^15 parties,
`TeamsAssumption`). `StartInv` says where on its course every thread is; that a
socket is set to the link of its two parties as soon as the thread is past it
(`Link`: the lower party's connection), which needs that ids of parties,
channels and threads never coincide (`IdsDiffer`); that entries of a server
socket are connections whose id has been read; and, as long as no timeout has
happened, that every id asked for belongs to an accepted connection (`UsedOK`,
so none is asked for twice) and that the server closes only after it has told
every party (`ServerOK`).

`AlwaysInStep` (`TalkInStep`), for teams of any size and any
sequence of operations. With `StartInv` the sockets of two players that are up
are the ends of one connection per channel, and the direction of a connection
belongs to one pair and one channel (`WaysDiffer`). `TalkInv` says of a party
that every stream it still awaits is in exactly one of its two queues and all
other queues are empty (`StreamOK`; every stream is called for once, since
offsets go round by every peer once: `CallsAre`); that nothing is received that
was not sent (`Served`); and that a wire holds the message of the one operation
that is sent and not received on it, or nothing if there is none (`WayOK`). So
the operation that a receiver is in and that of the message are the same: an
earlier one of the receiver would still be under way itself. A stream is sent
and received on different channels with one peer, and an exchange in place on
the first: that no two operations share a wire at a time is part of what is
shown.

**`ExchangeProofs`.** `AlwaysTransferred` (`Transferred`: a message is delivered
whole, in its own operation, and nothing is left over), for any number of
parties, any room of the sockets and any script of `Usable` operations. The
items that one party sends another are numbered through the whole script
(`Before`, `Nth`: the length, then the octets of one message after the other).
The invariant `Correspondence` says that a wire holds exactly the items between
the last one received and the last one sent (`Wired`, `Holds`), and that every
`Exchanger` is where its numbers say, with the right octets in its stream
(`WellDone`). No operation sends to or receives from anyone twice
(`OncePerPeer`), and who is sent to by a party receives from it in the same
operation (`SentIsTaken`), so that the next item on a wire is the one that its
reader is about to ask for. Two streams make that all; one stream needs a
second argument, because the amount asked for is not limited by the length of
what comes. Between two parties, who has not had all of a message cannot be an
operation ahead (`NoneAhead`), so nothing of a later operation is on the wire
to be read too early; with a third party, what is sent is limited by what comes
(`NoOverread`). That octets are sent before they are overwritten is part of
`WellDone`: what is received in place is never more than what was sent.

## What is only model-checked

- Liveness and absence of deadlock: outside what the prover does with fairness
  and `ENABLED`.
- Modules that use recursive operators, where the prover has no SMT backend, or
  whose results come from recursion over data: `Arithmetic`, `BitCircuits`,
  `NonLinear`, `Cyclotomic`, `HomomorphicEncryption`,
  `CipherRings`, `CipherOffline`, `ControlFlow`, `Compilation`, `TapeOptimizer`,
  `ObliviousTools`, and through them `TreeOram`, `Algorithms`, `Protocols`.
- Probabilities: a check that a wrong value passes with a small probability is
  modelled as one that finds it (`MacCheck`) or as the set of challenges that
  pass (`Preparation`, `CipherOffline`), whose size is what is checked.

## What the code does otherwise

Where the code does not do what its documents, comments or assertions say, the
models follow the code. Two cases are runs of their own. `prep_tapes`: tapes
started by one `run_tapes` are all given the same position (`Machine.hpp:249`)
and read the same tuples. `pool_nested`: a distribute nested in the caller's
slice of another clears `available` of the first (`ThreadQueues.cpp:19`; it
happens by `GC/BitAdder.hpp:45`, `RepPrep.hpp:56`, `MalRepRingPrep.hpp:169`), so
that its `wrap_up` collects nothing and a later operation gets the answers: a
`join_tape` returns while its tape is still to run. The others, met while
modelling:

*Threads and files.*
`DataPositions.cpp:13` counts a dabit as size 0, and its
buffer is neither moved nor pruned. `Buffer.cpp:74` purges only files that are
open, although `Online-Thread.hpp:358` announces that preprocessing is purged;
`prune` throws on a file that was used up exactly (`Buffer.cpp:62`). A tape that
starts in the middle of a buffer may find files of the declared size too short.

*Messages.*
`Exchanger.h:126` keeps a pointer into a stream that `resize` may have moved;
`Exchanger.h:88` does not limit what it reads by the length of the message, so
with one stream for both directions it may read into the next one.
`AllCommitments::open` checks only parties below its own number.
`Passing_MAC_Check` sends `os` where `pre_exchange` packs another stream.
`CryptoPlayer` exchanges in place on the first socket only.

*Instructions.*
`Instruction.h:354` (`get_max_reg`) leaves out `LDTN`, `ACCEPTCLIENTCONNECTION`,
`READFILESHARE`, `PUBINPUT`, `READSOCKETC`, `(G)STOPPRIVATEOUTPUT`, `GBITDEC`,
`GBITCOM`, `GMULBITM`, `(G)PREP`; it takes the vector size of `(G)MULRS` from the
opcode, the length of a `DOTPRODS` for a destination, and counts one register of
each output of `TRANS`.

*Compiler.*
`comparison.py:455`: `CarryOutRaw` with `linear_rounds` goes from the highest bit
and drops the carry. `comparison.py:155`: `TruncRing` with three-way splitting is
wrong for `m` 1. `KnownPrime.trunc_round_nearest` is wrong near the top, and so
for `k` the ring's size (`comparison.py:216`); its `bit_dec` is for numbers that
are not negative. `types.py:2591` has `_bitint.__sub__` broken, and the carry
lookahead adder mishandles a carry-in with leading constant zeros. Dead-code
elimination ignores `can_eliminate` of the members of a vector
(`allocator.py:521`), the merger ignores linked registers, `expand_vector_args`
has a misplaced loop, and `for_range` rounds its count down and reads the bound
again when the body changes it; `map_reduce` divides by zero when there are fewer
loops than threads at run time.

*Oblivious data.*
`TreeORAM.batch_init` is wrong for a depth of 2 and more; `find_deeper` of
`CircuitORAM` subtracts where `sint` needs an exclusive or; a full bucket or
stash loses the entry unless `crash_on_overflow`; a bucket of size 1 fails in
`find_deepest`; `merge` pads nothing when the second list is the shorter one;
`binary_search` ignores the bit that says an entry is empty.

*Turbospeedz.*
Missing files read as zeros, and files opened with `ios::app` give the first
masks again; `SUBSFI` is parsed and not executed; offsets are stored by register
(`Processor_turbo_prep.hpp:577`), so a register used in two multiplications gives
the product of another.

*Protocols.*
`SpdzWiseRing::zero_check` takes `bits[i]` for `bit_masks[i]`; a missing key file
gives a new key share silently; the dealer ignores the number of players in
key files; `get_triple_no_count` of `TinyPrep` calls `get`, which counts. In
`OTVole.hpp` the last chunk is not hashed when the row is a multiple of 16 long;
`generateBitsGf2n` of `MascotTripleGenerator` resizes its output in the loop.

*Homomorphic encryption.*
A ciphertext times a plaintext at level 0 fails with `n_mults` 1;
`infinity_norm` takes negative coefficients for small ones; `to_vec_bigint`
relies on `p0 > p1`; `create_more` of `SummingEncCommit` ignores the result of
the second stage; adding plaintexts leaves a coefficient equal to the prime;
`mul_by_X_i` treats every ring as `X^phi + 1`; `InputProducer` takes its security
parameter from the machine; `InverseProducer` fails if any slot of a product is
zero; the Smith form makes one pass over divisibility.

*Numbers.*
`Mont_Mult` drops a carry when the top limb is all ones and there are three or
more; `<<=` and `>>=` of `gfp_` discard their result; `Z2` from a limb, from a
`long` and from `unpack` is not reduced when `K` is below 64; `operator>` of
`SignedZ2` subtracts a pointer; `>>=` of `int128` sets its top part to a truth
value.

## Not modelled

Garbled circuits (`BMR/`, `Yao/`) and their runtime; external clients and their
sockets; the ECDSA application; `Tools/` other than what is named above; main
functions and scripts. Of homomorphic encryption: noise bounds, `DataSetup`,
`CutAndChooseMachine`, the threads of `SimpleMachine`. Of protocols: the making
of MACs in `TinyPrep`, multipliers of Tiny and Tinier, `MamaRectangle`,
`Passing_MAC_Check`, the field-size check of `Triple_Checking`. Of numbers:
special-cased limb sizes, the inverse in GF(2^128), NTL. Of oblivious transfer:
the bit transposition with AVX2 and SimpleOT's library. Of the compiler: fixed
and floating point, machine learning, `noreallocate`, private output and public
files. `AnonymousServerSocket`. Time: a receive gives up after 25 timeouts
(`sockets.h:91`), which the models have not.

## Plan

1. Two parties over `PrepFiles`; the threads of `GC/`.
2. Garbled circuits and external clients, as modules of their own.
