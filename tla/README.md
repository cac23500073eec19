# Verification of the open62541 data consumer adapter

The adapter (`OpcuaAdapter`) publishes the devices of a data connector as nodes
of an OPC UA server. Devices arrive and leave as events, OPC UA clients read,
write and call their elements at any time, and devices fail by throwing. The
modules here model what happens between these three, TLC checks it on small
instances, and TLAPS proves the central properties for every tree of devices.

Paths of the form `Server/NodeBuilder.cpp` are below `src/sources/`.

## 1. Inventory

| Component | State | Operations | Talks to |
|---|---|---|---|
| `OpcuaAdapter` (`Adapter/Open62541Adapter.cpp`) | the four parts it owns | `start`, `stop` from the application; `registrate`, `deregistrate` from the connector's thread | `Runner`, `NodeBuilder` |
| `Runner` (`Server/Runner.cpp`) | `running_`, `thread_`, the server | `start`, `stop`, `runnable` (the server thread) | open62541 |
| `NodeBuilder` (`Server/NodeBuilder.cpp`) | none of its own: the walk over a device is on the stack | `addDeviceNode`, `deleteDeviceNode` and the add operations below them | open62541, `CallbackRepo`, `Historizer`, the device |
| `CallbackRepo` (`Server/CallbackRepo.cpp`) | `callbacks_`: node id to device function | `add`, `remove`, `find`, `read`, `write`, `execute`; the server callbacks `readNodeValue`, `writeNodeValue`, `callNodeMethod` with `handleExceptions` | the device, open62541 |
| `Historizer` (`Historizer/*.cpp`) | an SQL database: one table of nodes, one per node | start-up of the tables, `registerNodeId`, `dataChanged`, `write`, `readRaw`, `readAtTime` | the database, open62541 |
| `HistorianBits` | none: bits of a status | `setHistorianBits`; tests of the bits, which nothing calls | called by `Historizer` |
| Utilities | none | variant arithmetic, variant, string and timestamp conversion, status checks | everyone |
| `Configuration`, `Logger` | the server's configuration | read once at start | open62541 |
| open62541 (external) | the address space, the server's loop | add, browse, delete; `UA_Server_run` | calls the server callbacks |
| Information model (external) | the devices | `visit`, `function`, `read`, `write`, `call` | |

Three threads meet in this: the application's (`start`, `stop`), the
connector's (`registrate`, `deregistrate`; here the *registry thread*) and the
server's (`runnable`, and within it every client request). They share the
server's address space, `callbacks_` and `running_`. There is no lock across
two of them: open62541 is built thread safe and locks each call, the map locks
each entry, and a callback runs without the server's lock.

What is hard about it, and the property that makes each part correct:

* `CallbackRepo` and the server's nodes are two stores that have to agree. They
  are changed one after the other, by two threads, by id. Correct means: the
  device object behind a node is the one that was registered with it
  (`SameRegistration`), a client never reaches an older one
  (`NeverServedByOlderDevice`), neither store keeps what the other has lost
  (`NoOrphanNode`, `NoOrphanCallback`, `DeregistrationClears`).
* `NodeBuilder` walks a tree that changes under it, and undoes what it began
  when a step fails. Correct means: the nodes stay a tree that a deregistration
  can reach (`TreeConnected`), the walks end (`EventsAreHandled`), because each
  step does some of their work for good (`WalksAdvance`).
* A device's failure removes its node, in two steps. Correct means: the node is
  gone afterwards (`FailedNodeGone`) and no other is (`RemovedForCause`).
* `Runner` hands a flag and a thread between two threads. Correct means: no
  thread is overwritten (`NeverTerminates`), a stop waits for the server
  (`StoppedIsQuiet`) and returns (`CallsReturn`), since the thread it waits for is on
  its way out (`JoinsAdvance`), and a running adapter has a server
  (`RunningIsServed`).
* `Historizer` works in several transactions against a database that may refuse
  any statement, in two threads, and the process may end at any point. Correct
  means: a node's row and table come together (`RegisteredHasTable`), both are
  there before the first sample and under every value (`MonitoredIsRegistered`,
  `UpdateFindsRow`), who reads the database sees registrations that happen at once
  and stay (`IsHistoryStore`), a historizer that came up has what it needs
  (`StartedIsReady`), and a registration ends (`RegistrationReturns`).
* With the historizer built in, a registration with the database happens between
  two calls of a device's walk, while requests and samples go on. Correct means:
  nodes and callbacks do not notice (`KeepsAddressSpace`), the historizer is used
  as it was made to be (`KeepsHistorizer`), events are still handled
  (`EventsAreHandled`), and a node that is not historized is one the log names, or
  the log says that no historizer is set (`HistorizedOrReported`).
* History reads loop over nodes and times and can fail anywhere. Correct means:
  `readAtTime` answers a node for all times or for none (`EveryTimeIsAnswered`),
  the status tells how the values were found (`LocationIsHonest`), and one node's
  trouble is not another's (`NodesAreIsolated`), as far as the response goes: an
  interpolation that traps (`UaVariantOperators.cpp:27`, `:34`, `:41`) ends the process
  and all answers.
* The variant operators saturate instead of wrapping, and `interpolateValues`
  chains four of them. Correct means: the result lies between its neighbours
  (`InterpolationIsBetween`, which fails; `SafeRangeIsExact` and
  `UnsignedStaysBelow` are what holds).

## 2. Modules

| Module | Models | Built on |
|---|---|---|
| `InformationModel` | the device trees a connector may register (constants) | |
| `UaServer` | the server's address space, one atomic step per library call (external) | `InformationModel` |
| `CallbackRepo` | `callbacks_` | `InformationModel` |
| `NodeBuilder` | the registry thread: one event at a time, one action per call that another thread can observe | `UaServer`, `CallbackRepo` |
| `RequestHandlers` | the server thread in a request: find, invoke, remove, delete | `UaServer`, `CallbackRepo` |
| `AddressSpace` | the two threads together; properties of the address space | `NodeBuilder`, `RequestHandlers` |
| `DeviceCatalog` | abstract: what clients see of registrations, failures and withdrawals, with no walk, browse or callback in it | `InformationModel` |
| `AddressSpaceCatalog` | the refinement mapping from `AddressSpace` to `DeviceCatalog` | `AddressSpace`, `DeviceCatalog` |
| `Runner` | `start()`, `stop()` and the server thread's loop | |
| `OpcuaAdapter` | everything together; properties of the lifecycle | `AddressSpace`, `Runner` |
| `Historizer` | the historizer's constructor, `registerNodeId`, `dataChanged` and `write`, with the database's transactions | |
| `HistoryStore` | abstract: the registered nodes with their tables, and the storing of their values, with no transaction, session or thread in it | |
| `HistorizerStore` | the refinement mapping from `Historizer` to `HistoryStore` | `Historizer`, `HistoryStore` |
| `HistorizedSpace` | the build with `ENABLE_UA_HISTORIZING`: the two threads over the address space and the database | `AddressSpace`, `Historizer` |
| `VariantArithmetic` | the operators on integer variants, at any width | |
| `Interpolation` | `interpolateValues`, one action per operator | `VariantArithmetic` |
| `HistoryRead` | `readRaw` and `readAtTime` with the loops over nodes and times, the historian bits and the response | `Interpolation` |
| `MCAddressSpace`, `MCOpcuaAdapter`, `MCHistorizer`, `MCHistorizedSpace`, `MCHistoryRead` | instances for TLC | |
| `AddressSpaceProofs`, `RequestSafety`, `PromptRequestSafety`, `CatalogProofs`, `OpcuaAdapterProofs`, `HistorizerProofs`, `HistorizedProofs`, `HistoryProofs` | theorems | |

### How state and actions correspond to the code

* `nodes[n]` is the registration that added node `n`, or `Absent`; `callbacks_[l]`
  the registration whose device object the wrapper of leaf `l` points to. A
  registration stands for one device object; a device id can be registered again
  with another one behind it, whose elements may have other functions
  (`FunctionOf`). Registrations are numbered, so "older" has a meaning.
* The recursion of `addDeviceNode`/`addGroupNode` and of `removeDataSources` is
  the set `todo` of elements the calls on the stack have yet to handle; `IsNext`
  lets the innermost call continue first. Its order within one call is that of
  `visit()` or of the browse, which nothing fixes.
* For each leaf `step` is the next call of `addReadableNode`, `addObservableNode`,
  `addWritableNode` or `addCallableNode`: they differ in whether they read from
  the device, and whether before `CallbackRepo::add` or after it. `UndoLeaf` is
  the handler of `StatusCodeNotGood`, `AbortRegistration` every other exception:
  it leaves all the calls and undoes nothing.
* `call` is the request the server thread works on: `FindCallback` is
  `CallbackRepo::find`, `InvokeDevice` a device that answers, `DeviceThrows` and
  `DeviceThrowsOther` one that throws a `std::exception` or anything else, and
  `RemoveFailedCallback` and `DeleteFailedNode` are what `read`, `write`,
  `execute` and then `handleExceptions` do about it. After the answer `call`
  keeps it until the next request.
* `caller` is where the application thread is in `start()` or `stop()`, `thread_`
  where the server thread is in `runnable()`; "done" is a thread that returned
  and is still joinable.

* In `DeviceCatalog` a registration opens all elements of its device and decides
  on each once, `Show` or `LeaveOut`. `Undecided` maps the walk to that: the
  elements to visit with all below them, and the leaf in hand. Everything the
  code does in between (the callbacks, the reads, the browses) is a stutter;
  `UA_Server_deleteNode` on the device is the one step of `Withdraw`.
* In `Historizer` the first four variables are what is committed in the
  database; a statement of an open transaction shows only in the step of its
  session, and the commit applies all of them. `registration` is the call of
  `registerNodeId`, `writing` that of `write`, for a sample or for a client's
  write. `isHistorized` reads in a session of its own, an UPDATE waits for
  the transaction that holds the row (`RowLocked`), a commit that throws may have
  taken effect.
* In `HistoryStore` a value is being stored from the statement that has found the
  node's table to the end of its transaction (`Storing`). The statements of a
  registration are stutters, its commit is `Register`, or nothing if the node was
  registered before; a crash is `Restart`, which keeps nodes and tables.

* In `HistorizedSpace` a historizer's node is a variable node, and its type that
  of the element's registration (`NodeType`). `AddVariableNode` is the call of
  `UA_Server_addDataSourceVariableNode` and the beginning of `historize()` behind it,
  which looks neither at the server's answer nor at what becomes of the
  registration; the walk goes on when `registering` is empty again. The server
  thread stores a value after a client's write that the device accepted
  (`HistorizesAnswer`) or for a monitored item (`Sample`), and serves nothing
  else until it is stored or lost. `reported` is what the log says is not
  historized: by name the nodes whose registration failed (`NodeBuilder.cpp:119-122`),
  and without a name that no historizer is set (`NotSet`, `NodeBuilder.cpp:111-114`).
* In `VariantArithmetic` a type's range is `Half` numbers below zero or none, and
  `2 * Half` in all. For `signed` and `unsigned`, results are exact until they are
  converted back (`Convert` wraps); a `long` that overflows is undefined, which is
  every value of the type, and the minimum divided by -1 ends the process
  (`step = "trapped"`). Products and quotients pass through a double, whose
  conversion is undefined out of range and, for `long`, may be off beyond `Exact`
  (2^53 in the code). `Sums` and `Differences` are the dispatch of `operator+`
  and `operator-`, as it is.
* In `HistoryRead` `index` and `time` are the loop variables, and an exception is a
  step that leaves the inner loop, as its handler does: `ReadFails` is
  `runtime_error`, `RejectInputs` `logic_error`, `ReadHistoryThrows` the
  `logic_error` that `readRaw` has no handler for. A value of the answer is the time
  it answers and how it was found. A data location is the set of its bits.

### What the models assume

* `AddressSpace` and `OpcuaAdapter`: the build without `ENABLE_UA_HISTORIZING`,
  the default of `CMakeLists.txt`. `Historizer`, `HistorizedSpace` and `HistoryRead` are
  about the build with it. In `HistorizedSpace` devices answer the reads of their
  registration (`HistorizingAssumption`).
* `HistoryRead`: a query returns rows or fails. At this commit the database refuses
  most: the text of `readHistory`'s lacks blanks and quotes, and those of `readAtTime`
  (`Historizer.cpp:372-385`) quote neither table nor timestamp, and the second has a
  parameter in the place of an operator. What the model says therefore holds of
  the code as it is, and still will when the queries are repaired, but a client
  does not come to an interpolation before. No `bad_alloc` leaves `readAtTime`; its
  callback would answer it for all nodes at once. The timestamps the
  interpolation weighs with are arbitrary, because the code takes them from the
  column the neighbours were not looked up by, or from a variable that was not
  set.
* `VariantArithmetic`: signed types narrower than int, unsigned types narrower than
  intmax_t, and Int64, the one type of integer elements that comes back from the
  database as itself. Int32, UInt64 and floating point types are left out. For a
  narrow signed type, no divisor is the least intmax_t, which a difference of two
  times that the server converts does not reach.
* Ids of elements are unique across devices, an id keeps its place in the tree,
  and element types are ones `toNodeId` supports. Of the information model's calls
  in the course of a registration only `read()` throws, not `dataType()`,
  `parameterTypes()` or `resultType()`.
* Events are delivered by one thread, one at a time. An exception that leaves
  `registrate` is handled by the connector, which goes on delivering.
* The server runs one request at a time, in the thread of `runnable()`.
* `CallbackRepo::add` looks up and emplaces in one step: the registry thread is
  the only one that adds.
* The server may refuse any node (`AddLeafNode`, `VisitGroup`,
  `RefuseRegistration`); this includes the refusals a failing read during the
  addition causes.
* The application calls `start()` and `stop()` from one thread, as the example
  application does, and stops the adapter before it drops it.

Three constants are assumptions about the environment that the code depends on.
Each is checked on both sides:

| Constant | Means | Without it |
|---|---|---|
| `RegistrationReads` | does a device throw when it is read while its nodes are added? | run `leak`: a callback stays behind |
| `LateRequests` | may a device be registered again while a request on its previous registration is unanswered? | see below |
| `ThreadsMayFail` | may the system refuse a thread? | run `nothread`: `stop()` throws |

With late requests a failing request takes the callback and the node of the
*new* registration with it, since both removals go by id, and one that removed
the callback first leaves a node without one. `RemovedForCause`, `NoOrphanNode`,
`NoOrphanCallback` and `DeregistrationClears` therefore need `LateRequests =
FALSE`; the properties of run `harsh` do not.

## 3. Runs

| Run | Instance | Shows |
|---|---|---|
| `calm` | reads answer, no late requests | `NoOrphanCallback`, `NoOrphanNode`, `RemovedForCause`, `DeregistrationClears` |
| `harsh` | reads may throw, late requests | `TypeOK`, `TreeConnected`, `SameRegistration`, `NeverServedByOlderDevice`, `FailedNodeGone`, `EventsAreHandled`, `WalksAdvance`, and that `AddressSpace` implements `DeviceCatalog` (`IsCatalog`) |
| `leak` | reads may throw, no late requests | `DeregistrationClears` fails |
| `exception` | as `calm` | `UnhandledExceptionRemovesNode` fails |
| `adapter` | lifecycle, threads may be refused | `NeverTerminates`, `StoppedIsQuiet`, `RunningIsServed`, `JoinsAdvance`, `CallsReturn` |
| `nothread` | lifecycle, threads may be refused | `StopNeverThrows` fails |
| `historizer` | databases with and without the value domains | `TypeOK`, `StartedIsReady`, `RegisteredHasTable`, `MonitoredIsRegistered`, `UpdateFindsRow`, `RegistrationReturns`, and that `Historizer` implements `HistoryStore` (`IsHistoryStore`) |
| `historizer_domains` | as `historizer` | `DomainsAreCreated` fails |
| `historizer_types` | as `historizer` | `TableFitsNode` fails |
| `historized` | the build with a historizer, late requests | `HistorizedOrReported`, `EventsAreHandled`, and that `HistorizedSpace` implements `AddressSpace` and `Historizer` (`KeepsAddressSpace`, `KeepsHistorizer`) |
| `history` | two nodes at two times, all values of three bits, times from -1 to 2 | `TypeOK`, `SafeRangeIsExact`, `UnsignedStaysBelow`, `EveryTimeIsAnswered`, `LocationIsHonest`, `NodesAreIsolated` |
| `interpolation_between` | one node at one time, the same values | `InterpolationIsBetween` fails |

### Bounds

`MCAddressSpace` has two devices, one with a leaf of its own and a group with
another leaf: the smallest tree in which the recursions differ from a flat loop,
next to a device whose nodes must stay untouched. All five functions occur, and
the second registration changes the function of two leaves, so that a wrapper
can be of the wrong kind for its node. `MaxRegistrations = 3`: a hazard between
registrations needs two of the same device, the third leaves room for the other
device in between. There is no other bound. `MCOpcuaAdapter` has one device with
one element and two registrations; the lifecycle is not bounded at all, the
adapter may be started and stopped for ever. `MCHistorizer` has two nodes, so that
a registration and a write are about the same one or not, and two types, so that a
node can come back with another; it starts, crashes and registers without bound.
`MCHistorizedSpace` has one device with two leaves, so that one can be registered
while a client reaches the other, and two registrations that differ in functions
and types: a method takes the place of a variable, a write-only node that of one
that is historized. `MCHistoryRead` has two nodes and two times: one that fails after
or before one that does not, and two kinds of values in either order; queries
return up to `MaxRows = 2` rows. It takes every pair of three-bit values
(`Half = 4`): the tests depend on where a result lies between the limits of its
type, not on the width, and `Exact = 2` puts the limit of a double's precision
within the range as it is within 64 bits. Its times reach weights above the
denominator, zero and negative differences. What these two bounds leave open, the
theorems of section 5 close. No symmetry is used: some runs check liveness.

## 4. Fairness

The registry thread and the server thread keep taking steps while they have one
(weak fairness of `Registry`, `Server`, and of the application's and the server
thread's own steps in `AdapterSpec`): threads are scheduled, and devices are
taken to answer or to throw eventually. Strong fairness is asked of one step,
the server's loop noticing that `running_` was reset: `UA_Server_run` tests it
after each iteration, and an iteration serves finitely many requests, so
requests can disable the step again and again but not for ever. In `Historizer` the database
answers what it is asked unless it fails (weak fairness of `Registering` and
`Writing`), and serves those that wait for a row in turn (strong fairness of
`RecordNode`), as PostgreSQL does; no failure, crash or start is forced.
`HistorizedSpace` asks the same of its threads (weak fairness of `RegistryThread` and
`ServerThread`) and of the database (strong fairness of `RegisterNode`); a database
that fails a statement ends a registration as well. Nothing makes the application
call, an event arrive, a client send, or a server throw.

## 5. What is proved

All theorems hold for every set of devices and groups, every tree over them,
every function of every leaf and every number of registrations. They rest on the
assumptions on constants in `InformationModel` (`TreeAssumption`: devices, groups
and leaves are disjoint and no group is above itself; `RegistrationAssumption`),
`NodeBuilder`, `AddressSpace`, `Historizer` and `HistorizedSpace`; the theorems about
history reads hold for every number of nodes and times, every width and every set
of times (`WidthAssumption`, `TimesAssumption`, `RequestAssumption`).

* `TypeCorrect`: `TypeOK`, inductive as it stands.
* `TreeStaysConnected`, `Connected`: `TreeConnected` is not inductive, since an
  element may be added only if its parent is of the present registration.
  `TreeInv` adds that this holds for the elements still to visit and the leaf in
  hand. The key lemma, `NodesAbove`, says that everything above a node exists and
  is of its registration, by the least-set definition of `Ancestors`; that is why
  a recursive delete takes all of a device (`DeleteKeepsTree`).
* `StoresAgree`, `NodesMatchCallbacks`: `AgreementInv` adds that once
  `CallbackRepo::add` answered GOOD the leaf's callback is of the present
  registration or was removed by a failing request. The server thread only ever
  removes (`ServerOnlyRemoves`), which is why it cannot make the stores disagree.
* `ServedByNoOlderDevice`, `RequestsAreServedAfresh`: between the server's lookup
  and `find()` the entry can be removed or replaced, but only by a later
  registration, whose number is higher.
* `FailedNodesStayAway`, `FailuresAreFinal`: a failed node cannot return under
  the same registration, because the walk visits an element once. `WalkInv` says
  that a leaf that had its turn is neither in hand nor ahead, and no group above
  it is either.
* `ExpectedExceptionsRemoveNode`: in behaviours without `DeviceThrowsOther` what the
  changelog says of exceptions holds (`UnhandledExceptionRemovesNode`). `ExpectedInv`
  says that no other answer of a device that was reached is `BadUnexpectedError`; a
  method request that found a wrapper of the wrong kind gets it too, without reaching one.
* Under `~ LateRequests` (`PromptRequestSafety`): `RequestsArePrompt` shows that a
  request in progress is about the node that is there now, and from it
  `NodesAreRemovedForCause` and `NodesAreServed`.
* Under `~ LateRequests` and with devices that do not throw while they are added
  (also there): `RepositoryIsCalm` shows that a callback outside the leaf in
  hand has its node or is being removed, and that the part of a device's tree a
  deregistration has still to browse reaches every callback left
  (`BrowseReaches`); from it `CallbacksHaveNodes` and `DeregistrationsClear`.
* `AddressSpaceIsCatalog` (`CatalogProofs`): `AddressSpace` implements
  `DeviceCatalog`, with late requests and devices that throw. The proof goes
  action by action: what a step of the walk takes from `todo` is what the catalog
  decides (`GroupIsShown`, `GroupIsLeftOut`, `LeafIsUndecided`, `LeafIsDecided`),
  the deletion of the device takes exactly what is below it in the device tree,
  because the nodes are connected (`DeviceIsWithdrawn`), and of the server's
  steps only the deletion of a failed node is visible (`ServerFailsOneNode`).
* `AdapterImplementsAddressSpace`: `AdapterSpec` implies `AddressSpace`'s `Spec`;
  every step of the adapter is a step of the address space or leaves it alone.
  `AdapterSafety` carries over what holds without assumptions, `PromptAdapterSafety`
  and `CalmAdapterSafety` what needs them.
* `WalksMakeProgress`: every step of a walk ends its event, or takes an element from
  those ahead, or a call from those its leaf has left (`Advances`); requests do
  neither more nor undo it. `RegistryAdvances` goes through the actions; it needs that
  an element has one turn (`ElementsHaveOneTurn`, from `Apart`: nothing that is ahead is
  above or below another part of it). For a finite tree this bounds a walk:
  `WalksEnd` says that `Work` is a number of at most five for each element which every step
  lowers, and `SomeElementIsNext` that `IsNext` never leaves elements without
  one that is next. What fairness adds to these, that a step that can be taken is,
  is the part of `EventsAreHandled` that is only model-checked.
* `WaitsAreForAnEnd`: likewise for `CallsReturn`. While a call joins, `running_` is
  reset, and each step of the server thread lowers `ToDone`.
* `ThreadsAreJoined`, `StopQuiesces`, `RunningAdapterServes`: from `LifecycleInv`, which relates where the two threads
  are to `running_` and to the request in progress.
* `StopThrowsForThreadsOnly`: if threads can be created `stop()` never throws. `JoinInv`
  says that whoever is about to join has a thread to join; it uses `RunningIsServed`,
  which without a failed `start()` has no exception.
* `HistorizerProofs`, for every set of nodes and types: `RecordsInv` is
  `RegisteredHasTable`, `MonitoredIsRegistered` and `UpdateFindsRow` with the fact
  that a registration that got to its monitored item has its row. The key is
  `CommitKeepsRecords`: row and table change in one commit, and only grow.
* `HistorizerIsStore`: `Historizer` implements `HistoryStore`. By `RecordsInv` a commit
  either adds row and table or neither (`CommitIsRegistration`), a node that is sampled
  has its row, and an insertion that found a table stores a value of a registered node.
* `UnpreparedDatabaseStaysEmpty`: where the value domains are not there from elsewhere,
  no start succeeds and nothing is ever historized. This is what the finding of run
  `historizer_domains` amounts to, for any number of starts.
* `TablesFitLastingTypes`: if every node keeps its type, registered nodes have tables
  that fit (`TableFitsNode`). So the one way to the state run `historizer_types` finds is
  a node that changes its type, whatever crashes or fails. The hypothesis
  (`LastingType`) is about registrations; `FitInv` extends it to the tables.
* `HistorizedImplementsAddressSpace` and `HistorizedImplementsHistorizer`
  (`HistorizedProofs`): every step of the composition is a step of either part or
  leaves it alone. The first carries the safety theorems over (`HistorizedSafety`,
  `PromptHistorizedSafety`), the second those about the historizer (`HistorizerSafety`,
  with `HistorizerIsStore`), through an instance of `HistorizerProofs` whose definitions
  are those of `HistorizedSpace`'s own instance (`SameHistorizer`).
  The second needs to know of the address space that a node which is about to be
  added is not there, so that its type does not change under a registration:
  that follows from `TreeInv`, `FailureInv` and `CountInv`, which says that a walk that adds
  nodes has a registration's number to add them under (`DevicesAreCounted`).
* `NodesAreHistorizedOrReported`: `ReportInv` adds that a node whose registration is
  under way is of the present registration or gone. Items are never taken away, so
  a node that is monitored stays so, and a historizer that did not come up stays away
  (`UnavailableStays`), so what the log says of it remains the reason.
* `LastingTypesFit` and `UnpreparedHistoryIsEmpty` are the two conditional results in the
  whole adapter: a device that offers an element with the same type each time has
  tables that fit (the hypothesis of `TablesFitLastingTypes` is then an invariant of the
  walk), and without the value domains nothing is stored or on its way to the database,
  the log says that no historizer is set, and it never names a node.
* `SafeRange` (`HistoryProofs`): `SafeRangeInv` says, per operator, what has been
  computed exactly so far. It rests on facts about products the solver does
  not find by itself: a quotient of a product by a larger denominator is bounded by
  the factor (`QuotientIsBounded`), a factor of a product in range is in range
  (`FactorIsBounded`), and so no test fires (`DifferenceIsExact`, `ProductIsExact`,
  `SumIsExact`). `SafeRangeIsBetween`: there `InterpolationIsBetween` holds, which fails
  elsewhere.
* `UnsignedIsBelow`: a product that saturates is too small for its quotient to exceed
  the difference (`UnsignedProduct`), and a difference that saturates is zero.
* `HistoryTypeCorrect`, `TimesAreAnswered`, `LocationsAreHonest`: `RequestInvariant`.
  `AnswersInv` is what the two properties say of the nodes that had their turn;
  `PendingInv` is the same of the node in hand, up to the time in hand, and `RawInv`
  that a raw read has raw values only. `OtherNodesKeepAnswers` is about the response,
  which a process that traps does not send; it follows action by action, with the
  fact that an interpolation belongs to a `readAtTime` in progress.

## 6. Only model-checked

Liveness (`EventsAreHandled` with and without the historizer, `CallsReturn`,
`RegistrationReturns`) rests on fairness and ENABLED, which the prover does not
handle. Of the first two the measures that decrease are proved (`WalksAdvance`,
`JoinsAdvance`), and that there is always a next element; that the steps are taken
is not. `RegistrationReturns` has only its run.

Properties that are violated have counterexamples in their runs. Of
`StopNeverThrows`, `TableFitsNode`, `InterpolationIsBetween`, `DeregistrationClears` and
`UnhandledExceptionRemovesNode` a condition under which they hold is proved; of
`DomainsAreCreated` what follows from its failure. Everything else the runs check is
proved.

## 7. Where code and documentation differ

* `leak`: the changelog lists callbacks that survive a deregistration as fixed;
  a device that throws while it is added still leaves one
  (`NodeBuilder.cpp:367`, `:414`). The next registration of the element finds
  it, is refused, and removes it: the one after that works again.
* `exception`: the changelog says nodes are removed when a callback throws an
  unhandled exception; only `std::exception` leads to it (`CallbackRepo.cpp:91`).
* `nothread`: the changelog says that stopping a server that is not running
  returns true; after a failed `start()` it throws (`Runner.cpp:23`, `:44`).

* `historizer_domains`: the value domains that `createDomainRestrictions` creates
  are rolled back with its transaction (`HistorizerUtils.cpp:17-43`), so a
  database that does not have them from elsewhere never gets a historizer.
* `historizer_types`: the check of the value type that a comment asks for
  (`Historizer.cpp:196`) is not there; a node that comes back with another type
  keeps its old table.

* `interpolation_between`: the interpolation is said to use the linear formula of
  OPC UA Part 13 (`HistorizerUtils.cpp:463`). With the tests of
  `UaVariantOperators.cpp` it returns the type's maximum for a negative constant
  signal and zero for most unsigned ones. It is exact where `SafeRangeIsExact` says.
  A client does not see this yet, as the queries that find the neighbours
  (`Historizer.cpp:372-385`) are refused at this commit.

## 8. Not modelled

* Which values a raw read returns: limit, direction, bounds and continuation
  points. `readHistory` builds a query that the database refuses
  (`HistorizerUtils.cpp:207`, `:234`, `Historizer.cpp:292`), and assigns the continuation
  point to its own copy of a pointer (`Historizer.cpp:312`), so a client never
  pages. A model would be of what the query was meant to be.
* Which neighbours an interpolation finds (`Historizer.cpp:377`): it is checked for any
  two values and any times.
* Timestamps as text and the round trip of a value through a column: conversions
  without a state. In the models a conversion may fail, and times are arbitrary. By
  reading, they do not give back what they were given: `toString` does not pad the
  parts of a second (`StringConverter.cpp:40`), `toUaDateTime` computes them from the
  whole seconds (`HistorizerUtils.cpp:262`), `expandHistoryResult` writes the server's
  timestamp over the source's (`:452`), `addNodeValue` reads two bytes of a one-byte
  value (`:106`), and `setValueAttributes` copies the variant instead of the value
  (`NodeBuilder.cpp:304`).
* The wording of answers, such as `callNodeMethod` catching `NotWritable` where
  `execute` throws `NotCallable` (`CallbackRepo.cpp:138`); `WrongWrapperAnswer` does as
  the code does.
* `Int32`, whose overflow is undefined as that of Int64 and which traps in one of its
  two places; products and sums of UInt64; floating point. No integer element of the
  information model is of the first, UInt64 values do not come back from the
  database, and doubles have no exact model here.
* The bits of a status other than the data location, and the functions that read
  them: nothing calls them (the masks at `HistorianBits.cpp:59-71` leave out the bits
  they are named for).
* How many monitored items a node has: one more with each registration, since none
  is ever removed (`Historizer.cpp:204`).
* The destructors, logging and the wording of messages, file input, memory of library
  objects, the example application (which is the environment of `Runner`), and the
  internals of open62541, the information model library and the database.
