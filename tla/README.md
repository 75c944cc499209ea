# TLA+ models of the Mesh Security SDK

The repository extends a Cosmos SDK chain (the consumer of mesh security) with
*virtual staking*: contracts that governance trusts up to a limit may bond
staking tokens that are minted for the purpose, and burn what they unbond. The
code with state and logic is the Go module `x/meshsecurity` and the wiring of
the demo application around it; the protobuf code of both Go modules is
generated. This directory models that module and its wire format, checks them
with TLC on small instances, and proves with TLAPS, for all constants, every safety
property the passing runs check, and both refinements.

## The system

| Component | State | Operations | Hard behaviour |
|---|---|---|---|
| Task scheduler (`keeper/scheduler.go`) | KV entries (type, height, contract) -> repeat flag | schedule one shot, schedule repeating, delete all, execute the due ones | store changed under an iterator; failing callbacks; one shot and repeating task with the same key |
| Max cap limits (`keeper/keeper.go`, `keeper/msg_server.go`) | one limit per contract, never removed | `SetVirtualStakingMaxCap` by governance | limits share one total; a limit change schedules and deletes tasks |
| EndBlocker (`abci.go`, `keeper/wasm.go`) | none of its own | a pass of reports, the clearing of the memory store, a pass of rebalances | contracts are called one after the other, each may fail, and a response handler may stop the chain |
| Virtual stake (`keeper/stake.go`, `keeper/adapter.go`) | total delegated amount per contract; validators, shares, token pools and supply of other modules | `Delegate`, `Undelegate`, `InstantUndelegate` | rounding after slashes, validator status and pools, errors after a partial effect |
| Validator set updates (`keeper/valset_updates.go`, `keeper/staking_hooks.go`, decorators of `keeper/adapter.go`) | piped operations in a memory store | one capture per event, the report | order of modules within a block; removed validators; stake that moves between slash and report |
| Store keys (`types/keys.go`) | - | building and reading keys | lengths and offsets computed in one byte |
| Contract messages (`keeper/handler_plugin.go`) | - | bond, unbond; rejection of staking messages | authorization ignores the amount of the limit |
| Genesis (`keeper/genesis.go`, `demo/app/export.go`) | parameters | initialise, export, restart from an export | most of the store is not exported |
| Wire format (`types/*.pb.go` of both modules) | none | `Marshal`, `Size`, `Unmarshal`, `skip` of 21 messages | lengths that wrap, cut input, groups, unknown and repeated fields |
| Queries, parameters, wiring, CLI, types, provider stub | parameters | - | see *Not modelled* |

How they interact. Governance sets a limit by a message, which writes the limit
and the tasks of the contract. Hooks and decorators around x/staking,
x/slashing and x/evidence call `sendAsync` while a block is processed: it
stores the operation in a memory store and schedules a report, for the current
block, for every contract whose limit is above zero. The module's EndBlocker
runs last in a block. It calls each contract with a report
(`sudo valset_update`), clears the memory store and calls the contracts whose
rebalance is due (`sudo handle_epoch`). In these calls, and in transactions of
their own, contracts bond and unbond through custom messages.

What makes it correct:

- scheduler: a contract with a limit is called regularly and once per block at
  most; a lowered limit is told in the same block; no task is lost or stale;
- limits: their sum respects the module parameter, no bond exceeds a limit, and
  what is bonded can always be unbonded;
- virtual stake: minting and burning leave the native supply unchanged, the
  pools match the validators, and virtual stake never becomes spendable;
- reports: none is lost without an error, all are of the current block only and
  without contradictions, and they are sufficient to know the active set;
  slashes are told in fair parts;
- all together: stake above a limit is a passing state that a failed call at
  most prolongs, also when limits move between contracts. A restart from an
  export is the exception: it drops limits and amounts and leaves the stake
  (see *Findings*), so what is left over from before it is held by no limit;
- wire format: what was sent is read, whatever is read stays in bounds, a cut
  message never turns into another one.

## Modules

`SchedulerStore` is the task part of the KV store: a store is a function from
the keys present to the repeat flag, and each keeper method is an operator from
store to store. `HasScheduledTask`, `ScheduleOneShotTask`,
`ScheduleRepeatingTask`, `DeleteAllScheduledTasks` keep the names of
`scheduler.go`. `DueTasks` is what the iterator of `IterateScheduledTasks` sees;
that it is a snapshot, which later changes of the store do not reach, is taken
from the SDK (the cached store hands out iterators over a copy), not checked.

`MaxCaps` is the limits part of `keeper.go`, as operators used by `Scheduler`
and `VirtualStake`.

`Scheduler` is the state machine over a sequence of blocks. Phase `deliver`
stands for BeginBlock, transactions and the EndBlockers of the other modules
(`Instantiate`, `SetVirtualStakingMaxCap`, `sendAsync` in any order); phases
`valset` and `epoch` are the two passes of `EndBlocker`. `ExecTask` is one
round of the loop in `ExecScheduledTasks`; the outcome of a callback (error,
panic, out of gas) is a choice. The callback of the first pass builds the report
before it calls the contract, and may fail in doing so: in `SendValsetUpdate`
nothing is sent unless the report was `built`. `HandlerPanics` is the response handler, looked
at when a pass is complete, as in `abci.go`; `panicOnError`, fixed by `Init`,
says which of the two handlers the module was built with. `FreshChain` is the
state after InitGenesis. The variables named *history* are read by properties
only.

`EpochService` is the abstract specification of the scheduler: a countdown per
contract and a set of requests, no heights and no store.
`SchedulerRefinement` maps a repeating task to its distance from the current
height and a one shot to a request.

`ShareMath` and `Staking` are the environment of virtual staking: the parts of
x/staking and x/bank (Cosmos SDK v0.47, not in the repository) that the module
calls or depends on: shares, rounding half to even and truncation, the bonded
and not bonded pools, unbonding entries, slashing, status changes and the
removal of empty validators.

`VirtualStake` is `keeper/stake.go` on top of it. `handleBondMsg` and
`handleUnbondMsg` are the custom messages with their authorization,
`DelegateMsg` and `UndelegateMsg` the staking messages of users and contracts
after `NewIntegrityHandler`. A message that fails is reverted and is no step;
the exception is `DelegateFails`, where `keeper.Delegate` has written its cached
store before it returns the error, so a caller that goes on keeps the effect
(the contracts in `Direct`, which call the keeper without the VM; the VM reverts
the messages of the others).
`SupportsOffset = FALSE` is the demo application's `BankKeeperAdapter`, whose
`AddSupplyOffset` does nothing.

`VirtualLedger` is the abstract specification of virtual stake: an account per
contract, a limit per contract, and a native supply that only slashing changes.
`VirtualStake` implements it with `native = supply - delegated`.

`ValsetUpdates` follows validator changes to the contracts: phase `begin`
(slashing and evidence punish; x/staking's `Slash` calls the hook for a modified
validator as well), `deliver` (transactions), x/staking's EndBlocker
(`StakingEndBlocker`, which picks the validators with the most tokens), and
`report`. `sendAsync` is called with all operations of a step. `SendReport`
models what a contract makes of the report (`view`) and what it was told of
slashes (`told`). A callback may fail, or unbond.

`SlashKey` is the one place where bytes matter: the key of a slash in the memory
store, written by `BuildPipedValsetOpKey` and read by
`iteratePipedValsetOperations`, whose offsets are sums of a byte and untyped
constants, and so wrap at 256. The width of a byte and of an integer are
constants.

`MeshChain` composes the consumer side. It extends `Scheduler` (blocks, tasks,
limits) with the virtual stake of each contract in whole tokens, as
`VirtualLedger` has it: `delegated` is the module's total, `stake` what x/staking
holds for the contract, which slashing lowers. `Bond` and `Unbond` are the custom
messages, `UndelegateMsg` a staking message of a contract that
`NewIntegrityHandler` passes on. A handle_epoch call fails (`HandleEpochFails`)
or succeeds (`HandleEpochOK`); a contract is external code, and the one
assumption on it is the one the comment at `msg_server.go:57` makes: a call that
succeeds leaves nothing above the limit that could be unbonded.
`RestartFromExport` stops the chain after a commit and starts it from its own
export at the next height: `InitGenesis` brings back the parameters, and x/wasm
and x/staking bring back contracts and delegations. The history variable
`leftover` remembers the stake a contract had at that moment: its amount is gone,
its limit too, and neither `Undelegate` nor any later limit reaches it.

`ProtoDecoder` is the generated decoder: one state machine for `Unmarshal` and
`skip`, whose text is the same for all messages up to names and the cases of the
switch. Each step is a byte of a varint or a decision on one; a stack of frames
stands for the calls on embedded messages. Words have `WordBits` bits with
wrap-around, `int32` field numbers `FieldBits`, `uint32` values `UintBits`.
`ProtoMessages` has for each of the 21 messages (and the external Coin) its zero
value, `Marshal`, `Size` and the cases of its `Unmarshal`, each taken from its own
method, so that tags, sizes and cases that disagree show up as a failed round
trip. `Marshal` fills a buffer of `Size` bytes from its end, as the code does.

`WireFormat` says, without a decoder, which bytes stand for which message
(`IsSent`), and which inputs are what `Marshal` returned, or the beginning of it
(`IsMarshaled`). The proofs about the decoder are stated with it.

`MCScheduler`, `MCVirtualStake`, `MCValsetUpdates`, `MCSlashKey`, `MCMeshChain`
and `MCProto` give the constants values; `MCProto` also holds the sample messages
and what happens to them on the way. Operators whose comment says *Variant*
are plausible mistakes; the models never use them, they show that a property
can fail.

The proofs of a component are in a module named after it: `SchedulerProofs` (with
the refinement), `MeshChainProofs`, `ValsetUpdatesProofs`, `VirtualStakeProofs`,
`SlashKeyProofs`, `ProtoDecoderProofs`. `Foundations` (induction, recursive
functions, parts of sequences, powers of two, sums over finite sets) and
`ShareMathProofs` (division and rounding) hold the lemmas they share.

## Runs

| Run | Question | Instance |
|---|---|---|
| `scheduler` | Are tasks unique, current, never lost and never run twice; does each contract get every operation it is owed, or the response handler an error for it, and no old ones; do limits add up; is `EpochService` implemented; is an active contract called within an epoch; does the strict handler stop the chain before a block with a failure is committed? | 2 contracts, limits 0..2 of total 2, 2 operations, epoch 2, 5 blocks, either response handler |
| `scheduler_zero_limit` | Finding: a limit of 0 may start regular rebalances. | 2 contracts, 4 blocks |
| `virtual_stake` | Do supply, offset and pools balance; can stake always leave; does it never become spendable; is `VirtualLedger` implemented? | 2 contracts (one owns a token), 1 user, 1 validator, amounts 1 and 2; one contract calls the keeper directly and goes on after its errors |
| `failed_delegate` | Finding: a failed `Delegate` mints tokens. | the same, both contracts call the keeper directly, bank without offset |
| `valset_updates` | Does a contract that got all reports know the active set; is no report contradictory? | 2 validators for 1 place, 1 contract |
| `slash_reports` | Is each contract told its part of a slash? | 2 contracts and the operator at 1 validator, slashes of 1 and 2 |
| `removed_validator` | Finding: a removed validator makes all reports of the block fail. | as `valset_updates` |
| `staking_jails` | Finding: x/staking jails a validator and nobody is told. | as `valset_updates` |
| `slash_key` | Is a slash read back as it was written? | bytes of 4 bits, integers of 2 bytes, addresses of 1 to 7 bytes |
| `mesh_chain` | Apart from what is left over from before a restart, is stake above a limit, or above the total of all contracts, left at the end of a block only by a failed call; is it brought down later; do limits, amounts and tasks agree, restarts included? | 2 contracts, limits 0..2 of total 2, epoch 1, 3 blocks, one failure, one slash, one restart |
| `restart` | Finding: after a restart from an export a contract turns virtual stake into liquid tokens. | as `mesh_chain` |
| `wire` | Does every message survive encoding and decoding; do reads stay in bounds; is a cut message refused or a part of the sent one; does decoding end? | 21 messages in about a hundred samples, words of 15 bits, strings of up to 130 bytes, arbitrary inputs of up to 4 bytes of 10 values; the encoded and the cut samples meet the hypotheses of `MarshaledIsDecoded` (`InputsAreMarshaled`) |

Why the instances are large enough. The scheduler treats contracts alike and
interacts between two of them only through the sum of limits and the order of
execution; five blocks hold two full epochs and a limit change before, between
and after them. In `mesh_chain` an epoch of one block makes the regular task due
in every block after the limit was set, so three blocks hold a failed call, the
block that ends with too much stake, and the call that repairs it; two tokens of
total suffice to move a limit from one contract to the other while both bond. In
`wire`, 15 bits are, like 64, two varint bytes and one bit, so that the last
byte of a varint overflows and a length can be negative or wrap; 130 bytes make
a length of two bytes, also for the message around the string; 4 arbitrary
bytes hold an unknown group with a field in it that steps past the end. With one token of stake and slashes and amounts of up to two,
the exchange rate of a validator leaves 1, an unbonding of one token returns
none, a validator loses all tokens while shares remain (invalid exchange rate),
and it is removed with its last share. Limits 0 and 2 under a total of 3 reach
a limit below what is delegated, and more delegated in sum than the total. Two
validators for one place suffice for every exchange of ranks, and for the
removal and return of a validator within an epoch of the model. In
`slash_key` the longest address and amount are just inside and just outside
what fits in a byte.

Bounds that are not in the code: `MaxHeight` (blocks of `Scheduler` and
`MeshChain`), `MaxFailures`, `MaxSlashes` and `MaxRestarts` of `MeshChain`,
`MaxTokens` and `MaxDilution` (tokens of a validator and shares per token in
`ValsetUpdates`, where operators may stake again and again), one delegation of
one token per contract and validator in `ValsetUpdates`. `VirtualStake` needs
none: limits and funds bound it.

`CHECK_DEADLOCK FALSE` is used where the system stops: after a panic
(`scheduler`), after a slash or a message was read (`slash_key`, `wire`), and in
`VirtualStake`, where every account may have lost all it could move.

Fairness. `FairSpec` of `Scheduler` assumes weak fairness of `EndBlocker` as a
whole: CometBFT keeps deciding blocks, a block has finitely many messages, and
EndBlock is one call that runs to its end or panics. No fairness is assumed of
governance, contracts or validators. `FairMeshSpec` makes the same assumption of
`MeshEndBlocker`. `FairSpec` of `ProtoDecoder` says that a function call runs
until it returns.

## Findings

- `keeper.Delegate` (`stake.go:52`) books the new total and writes the cached
  store before anybody looks at the error of `Staking.Delegate`: tokens were
  minted and stay with the contract. The VM reverts this for contracts.
- `SetVirtualStakingMaxCap` (`msg_server.go:44`) starts regular rebalances for a
  limit of 0 if there is no repeating task.
- `ValsetUpdateReport` (`valset_updates.go:82`) fails for all contracts if one
  validator of the block is gone, and the report is not sent again. In `Scheduler`
  this is a report that was not built; `MissedReportsAreErrors` says that the
  response handler is shown the error, not that the operations arrive.
- x/staking's own jailing is not captured (`app.go:424`).
- `ExportGenesis` (`genesis.go:15`) exports the parameters only. After a restart
  from an export no contract has a limit, so `NewIntegrityHandler` lets a contract
  undelegate its virtual stake with an ordinary staking message. As long as it
  does not, that stake counts against no limit and not against the total: with new
  limits the contracts may hold more than `TotalContractsMaxCap` although no call
  failed. `ExcessMeansFailedCall` and `StakeFitsTotal` therefore bound the stake by
  the limits and the total plus `leftover`.

Observed, and not stated as a finding: the names of height and power are
exchanged in `StakingDecorator.Slash` and again between writer and reader of the
key (`keys.go:103`, `valset_updates.go:173`). The two cancel out, which
`SlashIsReported` checks. The total delegated amount does not follow slashing;
`VirtualLedger` says so: slashed tokens are not told apart, and the limit stays
used.

## Proofs

Every theorem below is checked by TLAPS to the last leaf and holds for every value
of the constants that satisfies the named assumptions in the modules (which TLC
evaluates in the runs) and the hypothesis the theorem states. Each property is
also checked by a run, which showed first, on a small instance, that it holds.

| Module | Theorem | Property |
|---|---|---|
| `SchedulerProofs` | `TypeCorrect` | `[]TypeOK` |
| | `TasksAreNeverStale` | `[]NoStaleTasks` |
| | `RepeatingTaskIsUnique` | `[]OneRepeatingTask` |
| | `ActiveContractsStayScheduled` | `[]ActiveContractsRebalance` |
| | `NoReportIsLostSilently` | `[]MissedReportsAreErrors` |
| | `NoReportIsRepeated` | `[]ReportsAreFresh` |
| | `OneCallPerBlock` | `[]ServedOncePerBlock` |
| | `LoweredLimitReachesContract` | `LoweredLimitIsServed` |
| | `ZeroLimitEndsRebalances` | `ZeroLimitStopsRebalances`, for an epoch above 0 |
| | `FailuresAreTolerated` | `[]FailingContractsDoNotHalt` |
| | `StrictHandlerStopsBlock` | `StrictHandlerHalts` |
| | `LimitsNeverExceedTotal` | `[]LimitsFitTotal` |
| | `SchedulerImplementsService` | `ImplementsEpochService`, for an epoch above 0 |
| `MeshChainProofs` | `MeshTypeCorrect` | `[]MeshTypeOK` |
| | `StoreStaysConsistent` | `[]NothingOutlivesItsLimit` |
| | `ExcessNeedsFailedCall` | `ExcessMeansFailedCall` |
| | `StakeStaysWithinTotal` | `StakeFitsTotal`, for finitely many contracts |
| `ValsetUpdatesProofs` | `ValsetTypeCorrect` | `[]TypeOK`, for finitely many contracts, as the next three |
| | `EventsNeverConflict` | `[]NoConflictingEvents` |
| | `ReportsCarryTheValset` | `[]SyncedContractsKnowTheValset` |
| | `SlashAmountsAreFair` | `[]SlashReportsAreFair` |
| `VirtualStakeProofs` | `VirtualTypeCorrect` | `[]TypeOK`, for finitely many accounts and validators, as the next six |
| | `PoolsAlwaysMatch` | `[]PoolsMatch` |
| | `OffsetFollowsDelegated` | `[]OffsetIsVirtual` |
| | `SupplyStaysNeutral` | `[]SupplyNeutral` |
| | `StakeCanAlwaysLeave` | `[]StakeCanLeave` |
| | `VirtualStaysIlliquid` | `VirtualNeverLiquid` |
| | `StakeImplementsLedger` | `ImplementsVirtualLedger` |
| `ProtoDecoderProofs` | `DecoderTypeCorrect` | `[]TypeOK` |
| | `DecoderReadsInBounds` | `[]ReadsInBounds` |
| | `SentDecodes` | `[](IsSent(request) => DecodesWhatWasSent /\ TruncationNeverCorrupts)` |
| | `SentIsDecoded` | `[]DecodesWhatWasSent`, for inputs with `InputsAreSent` |
| | `CutIsPartial` | `[]TruncationNeverCorrupts`, for inputs with `InputsAreSent` |
| | `MarshaledIsSent` | `IsMarshaled(in) => IsSent(in)`, for the generated tables |
| | `MarshaledIsDecoded` | `[](IsMarshaled(request) => DecodesWhatWasSent /\ TruncationNeverCorrupts)`, for the generated tables |
| `SlashKeyProofs` | `SlashesAreReported` | `[]SlashIsReported` |

The hypotheses. An epoch length above 0 is what `ValidateBasic` of the parameters
asks for (`types/params.go:24`); without it a repeating task is not repeated, and
only the theorems that say so need it. No run has an epoch of 0, which `InitGenesis`
lets through all the same: there `TasksAreNeverStale` and
`LoweredLimitReachesContract` are what is shown. The accounts, contracts and validators of
a chain are finitely many at any time, so sums over them exist. The decoder takes
any table of messages as a constant; `Generated` says that it is the one taken
from the generated code.

### The scheduler

None of `NoStaleTasks`, `OneRepeatingTask` and `ActiveContractsRebalance` is
shown to be inductive on its own: within EndBlock the loop works from the snapshot
`due`, and whether it deletes the right entry depends on how the snapshot and the
store are related. `IInv` adds that the snapshot is exactly the part of the store
the pass still has to walk (`DueIsExact`), that no task is further away than one
epoch (`WithinEpoch`), and that the phase tells which type of task is left. The
lemmas on top state what writing, deleting and scheduling do to a store; one lemma
per action that changes tasks shows that `IInv` is preserved.

`BlockInv` treats what is owed to a contract as an entry in the store: an
operation owed is piped, and the contract's report is scheduled until it was
sent or its callback failed, which then is in the results the response handler
will see (`ReportsOwed`); a lowered limit has an entry at the current height
until the contract was called (`LoweredScheduled`); an entry the second pass
still has to walk belongs to a contract not yet called (`ServedOnce`). That a
pass ends with its debts settled then follows from `DueIsExact`: the snapshot is
empty, so the entries are gone, so what they stood for was done. The lemmas
`SetCapKeeps` and `ExecKeeps` say which entries a step may delete; the first
uses `ActiveContractsRebalance`: a lowered limit meets the branch of
SetVirtualStakingMaxCap that adds no one shot only when the epoch length is 0,
where the regular task has the key of the one shot. TLC has checked `BlockInv`
and `IInv` on small instances with epoch lengths 0 and 2 and with both handlers.

`LimitsInv` says that finitely many contracts have a limit, that only contracts
with one have a task, and that the limits fit the total. The check in
`FitsTotal` is about the sum without the contract in question, the property about
the sum with it; `Foundations` connects the two.

`RInv`, the invariant of the refinement, is `IInv` and that one shots are for the
current height: otherwise the commit of a block would bring requests into the
next one, which `EpochService` does not allow. The proof has one lemma per action;
actions that touch no rebalance task are stutters, and a round of the second pass
is a call on the contract of the entry, with the countdown set again exactly if
the entry repeats.

### The consumer chain

Every step of `MeshChain` except the restart is a step of `Scheduler` or leaves
its variables alone (`MeshSteps`), so `IInv`, `BlockInv` and `LimitsInv` carry
over; the restart leads to a state without tasks and limits, where they hold again
(`FreshInv`). `MeshInv` adds `ExcessIsPending`: stake above the limit belongs to a
contract whose last call failed, or whose limit was lowered in this block and that
was not called yet. At the commit the second is excluded by `LoweredScheduled` and
the empty snapshot. That is about what a contract may unbond, the lesser of its
amount and its stake; the two properties are about the stake itself. `StakeIsAccounted`
connects them: stake that is not in the amount is `leftover` from before a restart,
so stake above limit and leftover means that amount and stake are both above the
limit. That is the argument behind `ExcessMeansFailedCall`, and, by comparing sums
term by term (`SumOfTwo`), behind `StakeFitsTotal`.

### Validator set updates

`ValsetInv` relates what is piped to the phase of the block. `NoConflictingEvents`
needs that bonded and unbonded events come only from x/staking's EndBlocker and
that a tombstoned validator stays in the store, tombstoned, until then
(`EventsByPhase`). `SyncedContractsKnowTheValset` is about commits; before its
callback a contract is exactly one report behind (`ViewsFollow`).
`SlashReportsAreFair` needs that a validator whose delegations did not move still
exists (`ReportsFollow`), and that the operator's shares are never negative
(`SharesCover`), which is arithmetic on truncated quotients.

The attempt to prove this showed that the new status of a validator in
`StakingEndBlocker` was given by a CASE with two guards that may hold at once, which
leaves the value open. TLC takes the first one, as the code does; the
definition is now a chain of IF ... THEN ... ELSE.

### Virtual stake

`StakeInv` has, next to the properties, that the delegations of a validator add up
to its shares (`SharesAdd`), that a validator without shares has no tokens
(`Backed`), and that only a contract with a limit has delegated (`LimitFirst`).
`PoolsMatch` alone is not inductive: `Unbond` removes a validator with its last
share, and only `Backed` says that no tokens go with it. `Backed` rests on the last
delegator being paid all tokens, and therefore on `SharesAdd`. The lemmas go along
the code: shares and tokens of one validator (`ShareMathProofs`), one validator
among the sums of the pools, then the steps of the keeper and of x/staking.
`StakeCanLeave` is a statement on rounding: the shares computed for the worth of
a delegation, truncated, are no more than the delegation has (`WorthIsCovered`).
The refinement maps each step to one of `VirtualLedger` with
`native = supply - delegated`, which `SupplyNeutral` keeps apart from slashing.

### The slash key

The proof goes field by field through the key: each concatenation that writes a
field starts with what was written before (`Starts`), so the slice that reads the
field back depends on its offset only, and the offsets, sums of lengths computed
in one byte, are the true ones as long as they fit. `SlashIsReported` says so
as its condition; the proof shows that nothing else is needed but a non-empty
amount and numbers that fit in an integer (`BytesAssumption`): with an empty amount
the first offset of the slice is past its last one. A number is read by an
accumulating loop over bytes written by repeated division. That the loop returns
the number is a lemma on digits, for every size of a byte: after `k` bytes it has
read the number without its `IntLen - k` last digits. No power of the byte size
occurs in it.

### The decoder

`DecoderInv` says that the slices of the calls on the stack are nested, that the
running call has a case for the field it reads, and that its index is in its
slice, with the one exception that makes `ReadsInBounds` not inductive: inside a
group `skip` may step past the end, and notices before the next read. TLC has
checked `DecoderInv` with the constants of `wire`. The proof holds for any word
width, so it contains the argument that index plus length is either right or
negative (`PlusExact`). The provers know nothing about powers of two; `PowerType`
and `PowerDouble` get them from the library's theorem on the size of a power
set. The proof takes any table of messages, and any set of inputs made of bytes;
of the table it assumes that embedded messages are in it (`UnmarshalAssumption`).

### The wire format

`DecodesWhatWasSent` compares the end of a decoding with a message the decoder never
saw, so its proof needs to say in each step what the bytes still to be read stand
for. That is what the parts of `WireFormat` are for. A part is a string of bytes
with a message before and a message after it, and a set of parts is *closed* when
each of them is empty, or begins with one field and goes on as another part of the
set. Closedness takes the place of a recursive definition of the format: one
step of the decoder needs one unfolding. The invariant `WireInv` gives each call on
the stack a part whose message is the one the call has built so far and whose bytes
are those that follow its index; within a varint the part is ahead of the index by
the bits that are still missing (`Reading`), and inside of `skip` the open groups
take the place of the part. One lemma per action shows that it is kept. When an
input lost its end, the same invariant holds up to the last byte: what a call has
built is then the message of a part on the way, and `IsSent` asks of those
that every field of theirs is the one sent, zero, or the beginning of a list.

What remains is that `Marshal` and the cases of `Unmarshal` fit, and here the proof
goes through the 21 messages and Coin one by one (`MarshaledIsSent`): each gives the parts
between the fields it writes, shows that the buffer of `Size` bytes is filled
exactly, and that tag, wire type and length are the ones its `Unmarshal` expects. The
lists of one type and the varints need inductions, on the elements from the last
to the first, as the code writes them, and on the number. Together they give
`MarshaledIsDecoded`: strings and lists of any length, any word width in which
the encoded message is shorter than half of the words (the code's `int`).

Of the inputs of `wire`, TLC finds the encoded and the cut samples to be
`IsMarshaled` (`InputsAreMarshaled`), so that the hypotheses of the theorem are known
to hold where they should. `SentDecodes` is wider: it also covers fields that
occur twice, messages merged from several pieces, and unknown fields and groups,
wherever `IsSent` holds. That it holds for the concatenations and the unknown fields
of the run is not shown: there TLC checks the property itself.

### Shared lemmas

The sums of the community modules are recursive over a set, in an order left open,
and the induction theorems of the library take an operator as an argument, which
the provers cannot instantiate. `Foundations` therefore derives induction from the
least element of a set of naturals: the smallest counterexample, by
cardinality, is impossible. On it rest that a sum does not depend on the
order, how it changes with one term, and that it is monotonic; that a function
defined by recursion on naturals exists (`RecursionExists`, `StepsExist`), without
which nothing can be said of `VarintBytes`, of a list that is written element by
element, or of the loops of the slash key; and the powers of two up to the seven
bits of a varint. Nonlinear
arithmetic is done once, in `ShareMathProofs`, from the defining property
of quotient and remainder.

### Only model-checked

- Liveness: `RegularRebalance`, `ExcessIsRetried`, `Terminates`. Fairness and
  ENABLED are out of the prover's reach.
- That concatenated encodings are the merged message, and that encodings with the
  unknown fields of `wire` around them are the message itself: samples of the run.
- The violations of the findings, which are counterexamples.

## Not modelled

- The export for height zero (`export.go:50`), which also rewrites the state of
  x/distribution, x/staking and x/slashing.
- Parameters: constants here; no message changes them after genesis.
- Gas limits, JSON, address and coin conversion: the failure of a callback or
  of a message stands for them.
- Queries, `GetNextScheduledTaskHeight` (used by tests only), events, CLI,
  codec, gRPC stubs and gateways: they change no state.
- `x/meshsecurityprovider` but for its messages: a stub that stores an empty
  parameter record. The functions `skip`, `sov` and `encodeVarint` of the
  other files are copies of those in `meshsecurity.pb.go`, which the map names.
- The contracts themselves (compiled code in `tests/testdata`), IBC, the
  end-to-end tests.

## Plan

What can be modelled of the core is modelled, and every safety property and both
refinements are proved. Left are liveness, which stays with TLC, and the one step
from samples to all inputs on the wire: a lemma that two strings of bytes that
stand for messages stand, one after the other, for the merged message, and one that
a field with an unknown number may be put between any two fields. Both would extend
`MarshaledIsSent` and leave `SentDecodes` as it is.
