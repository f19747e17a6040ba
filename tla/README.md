# SDbgExt2 in TLA+

SDbgExt2 is an extension for WinDbg (and a COM library) that looks into .NET
processes: it enumerates the objects of the garbage collector's heap, those a
thread's stack refers to, the entries of dictionaries and the queues of the
thread pool, and it can open a window in which the user runs C# scripts against
the same services. It reads its target through the DAC, a library that
interprets the memory of a dump or of a running process.

This directory holds specifications of its control: how enumerations and
searches go through a target whose reads fail and that may change under them,
how results reach their consumers, how native and managed code keep the shared
objects alive, and what happens to the state that all callers share: the
engine's targets and its current thread, the cache of delegate fields, the
tables of the managed proxies.

Paths below are relative to the repository.

## 1. Inventory

### How the parts work together

```
   WinDbg command            form of !scriptit (thread of its own)
        |  DBG_PREAMBLE              |  SptWrapper (RCWs)
        v                            v
   CSDbgExt  ------------- enumerations, searches, batching callbacks
        |
   ClrProcess -- heap walk, threads, fields, types, delegates, dates
        |
   DAC (IXCLRDataProcess3) -- data target (DbgEng, or a bootstrapper's own)
        |
   the target: a dump, or a process attached without being suspended
```

Calls go down and are synchronous; results come up as a return value or through
callbacks (`IEnumObjectsCallback`, `EnumHeapSegmentsCallback`). The target is not
stopped when it is live: the attach in `SDbgExt/CSDbgBootstrapper.cpp` passes
`DEBUG_ATTACH_NONINVASIVE_NO_SUSPEND`. Every read of every enumeration may
therefore see another state than the one before it. The only threads of the
program itself are the debugger's, which runs one command at a time, and one per
open form.

### Components

| Component | State it keeps | Operations | What is hard | What makes it correct |
|---|---|---|---|---|
| GC heap walk (`SDbgCore/src/ClrProcess_Heap.cpp`) | locals between reads: heap details, segment pointer, "large objects visited" | `EnumHeapSegments` with server, workstation and per-heap loops | each read may fail, the two collectors treat failures differently, the target changes | every segment that can be read is seen once, its end is the right one |
| Batching wrapper (`SDbgExt/EnumAdaptors.h`) | the closure's vector | one item; flush | limit of 100, failure of the consumer, flush after an abort | nothing lost, repeated or reordered; a refusal is final |
| Heap enumeration (`SDbgExt/SDbgExt_EnumHeapObjects.cpp`) | current address | `EnumHeapObjects` | free words, unaligned sizes, stale bounds | every object reported, once; it returns |
| Stack enumeration (`SDbgExt/SDbgExt_EnumStackObjects.cpp`, `DumpStackObjects.cpp`) | bounds of the segments, current word | by thread, by range, by command | bounds older than the words, three sources for the limits | every root in the range reported, nothing outside the heap |
| Script host (`SDbgExt/ScriptIt.cpp`, `SDbgM/UMThunk.cs`, `SptWrapper.cs`, `MDbgScriptForm.cs`) | runtime loaded, buffer on a stack, RCWs, reference counts | commands, form open, close, collect | a second thread reads the first one's stack; shared RCWs | no use after release, no leak, every command returns |
| Dictionaries (`SDbgExt/DictionaryEnumerator.cpp`) | offsets, batch of 50 | enumerate five layouts, find by key, by hash | slots without entry, a rehash in between | the entries of the dictionary, each once |
| Thread pool (`SDbgExt/ThreadPoolEnumerator.h`) | node lists | global queues, work-stealing queues | running pool, wrapped indices | the items that wait in the queues |
| Threads (`SDbgCore/src/ClrProcess_Threading.cpp`, `SDbgExt/DbgEngMemoryAccess.h`, `DbgEngCLRDataTarget.cpp`) | the debugger's current thread | list, find, stack limits, TLS, context | switch and restore by two callers | the current thread is as it was |
| Delegates (`SDbgCore/src/ClrProcess.cpp`) | static field cache | `GetDelegateInfo` | early return between two fills | a delegate's target and method |
| Bootstrapper (`SDbgExt/CSDbgBootstrapper.cpp`, `SDbgExt.cpp`) | client, dump flag | init from dump, from process, `Init` | sequences with failures | one success, references balanced |
| Fields, statics, types (`ClrProcess_Fields.cpp`, `ClrProcess_Reflection.cpp`) | none | find, enumerate, read | inheritance chains, failures half way | the field that the language would find |
| Objects and arrays (`inc/ClrObject.h`, `inc/ClrObjectArray.h`) | lazily read data | length, element, field | caches of a changing object | bounds respected |
| Expressions (`SDbgExt_EvaluateExpression.cpp`) | scanner buffer, address | `EvaluateExpression` | separators in keys | the object the expression names |
| SQL pools (`SqlConnectionEnumerator.h`) | iterator, current group | nested enumeration | abort at each level | pools attributed to their group |
| Dates (`ClrProcess.cpp`) | none | date parts | leap years, masks | the calendar |
| Object proxies (`SDbgM/ClrObjects`, `SDbgM/Util`) | static tables | dynamic member access | filled by several form threads | tables complete when used |
| Formatting commands | none | print what a read answers | - | rows hold what belongs together |
| Declarations, tests, vendored libraries | none | - | - | not modelled |

`PROJECT.json` lists the components with their files and, under `hazards`, the
places in the code where each of these difficulties bites.

## 2. Modules

| Module | Models | Lines of the code |
|---|---|---|
| `SegmentWalk` | `EnumHeapSegments` and the target it reads | `ClrProcess_Heap.cpp` |
| `EnumCallback` | `GetEnumCallbackWrapper`, as operators for the actions of its users | `EnumAdaptors.h` |
| `ObjectStream` | the abstract contract of a consumer | - |
| `HeapEnum` | `EnumHeapObjects`, composed of `SegmentWalk` and `EnumCallback` | `SDbgExt_EnumHeapObjects.cpp` |
| `StackEnum` | `EnumStackObjects` and the limits of `!dumpstackobjects`, composed of the same two | `SDbgExt_EnumStackObjects.cpp`, `DumpStackObjects.cpp` |
| `DctEnum` | `EnumerateDctEntries` and the two searches, with the callbacks of `EnumCallback` | `DictionaryEnumerator.cpp` |
| `ThreadPoolEnum` | the thread pool's global and work-stealing queues | `ThreadPoolEnumerator.h`, `ClrObjectArray.h` |
| `ThreadRequests` | the thread list, `FindThread`, the commands over HTTP requests | `ClrProcess_Threading.cpp`, `DumpAspNetRequests.cpp`, `SDbgExt_GetHttpContextFromThread.cpp` |
| `DebuggerThread` | the engine's current thread and its users | `DbgEngMemoryAccess.h`, `DbgEngCLRDataTarget.cpp`, `DumpStackObjects.cpp` |
| `Bootstrapper` | how an `ISDbgExt` is made | `CSDbgBootstrapper.cpp`, `SDbgExt.cpp`, `WinDbgExt.h` |
| `FieldWalk` | walk and search of a type's fields | `ClrProcess_Reflection.cpp` |
| `TypeSearch` | search of types and methods | `ClrProcess_Reflection.cpp` |
| `StaticFields` | values of static fields, and their two users | `ClrProcess_Fields.cpp`, `DumpObj.cpp`, `SptWrapper_Fields.cs` |
| `StringRead` | a text read in two calls | `SptWrapper_Fields.cs`, `ClrProcess_Fields.cpp` |
| `DelegateInfo` | `GetDelegateInfo` and its cache | `ClrProcess.cpp`, `GetDelegateMethod.cpp` |
| `DateParts` | dates of the target | `ClrProcess.cpp` |
| `SqlPools` | SQL connections, down to their commands | `SqlConnectionEnumerator.h`, `DumpSqlConnectionPools.cpp`, `SptWrapper_Objects.cs` |
| `Expression` | `EvaluateExpression` | `SDbgExt_EvaluateExpression.cpp` |
| `ObjectProxy` | members and elements for scripts, and the static tables | `ObjectProxy.cs`, `UsefulGlobals.cs`, `SptWrapper_Fields.cs` |
| `ScriptHost` | commands, forms, wrappers, references | `WinDbgExt.h`, `ScriptIt.cpp`, `UMThunk.cs`, `Stubs.cs`, `MDbgScriptForm.cs`, `SptWrapper.cs` |
| `HeapImages`, `MCHeapEnum`, `MCStackEnum`, `MCDctEnum`, `MCScriptHost` | small targets and instances that TLC runs | - |
| `MCThreadRequests` | the targets of `ThreadRequests`, which two compositions extend | - |
| `MCThreadPoolEnum`, `MCSqlPools`, `MCFieldWalk`, `MCTypeSearch`, `MCExpression` | small instances of the component each names, where it has both as `Dump` and `Live` | - |
| `MCStillTarget`, `MCLiveTarget`, `MCEngine`, `MCValues`, `MCCaches` | components that read, use or keep the same thing, one of them in a behaviour | - |
| `CallbackProofs`, `WalkProofs` | lemmas about `EnumCallback` and `SegmentWalk`, which the enumerations share | - |
| `HeapEnumProofs`, `StackEnumProofs`, `DctEnumProofs` | theorems about the enumeration each names | - |
| `EngineProofs` | theorems about `DebuggerThread`, `ThreadRequests` and `Bootstrapper` | - |
| `ScriptProofs` | theorems about `ScriptHost`, `StaticFields` and `StringRead` | - |
| `CacheProofs` | theorems about `DelegateInfo` and `ObjectProxy` | - |

A composition such as `MCStillTarget` chooses a component in its initial state
(`part`), and its properties say of each part what the component's module defines.
It EXTENDS the components that theorems are about, so that run and theorem name the
same property, of the same variables: `MCEngine` extends `DebuggerThread` and
`Bootstrapper`, `MCValues` extends `StaticFields` and `StringRead`, `MCCaches` extends
`DelegateInfo` and `ObjectProxy`, `MCStillTarget` and `MCLiveTarget` extend `MCThreadRequests`
and with it `ThreadRequests`. That is why the names of these components differ
(`RequestNext`, `BootInit`, `ProxySpec`). The other components of a composition are
INSTANCEs, whose variables are `x1`, `x2`... in the order in which a module
declares them. What a part does not use rests in one value. The components do not interact within one such run:
what they have in common, the engine or a table, is a variable of one component
with several callers.

### The target

An `Image` is everything the DAC can be asked about in one state of the target:
the segments with their links and bounds, the details of each heap, which
addresses `GetObjectData` answers for and with what size, and which calls fail.
It also records which objects the collector put where; the code never reads
that, only the properties do. A behaviour starts in one of `Images`; `Mutate`
replaces the image by another one that `Steps` relates to it, and a dump by
none. `life` says for the properties which kind of target an image belongs to:
`"still"`, `"growing"` (allocates only) or `"moving"`. Since the walk does one read per action, `Mutate` may come between any two
reads.

### The walk and its clients

`SegmentWalk` keeps a program counter `wpc` for `EnumHeapSegments` and stops in
`"callback"` where the C++ code calls its client. The client's own actions run
there and end with `ResumeWalk` (the callback answered success) or `AbortWalk`.
The details that decide what gets enumerated are kept: a server heap asks for
the number of heaps twice and looks at neither answer (`HeapList`), the end of
the ephemeral segment is replaced by the heap's allocation pointer
(`WithAllocated`), large objects follow when the first list is exhausted, and
the server loop passes over a heap whose segment cannot be read while the
workstation returns the failure (`SegmentUnreadable`).

`HeapEnum` scans a segment by words. `SkipWord` is a failed `GetObjectData`,
`VisitObject` a successful one: in one action it records the object, runs it
through the wrapper, takes the consumer's answer and moves to the aligned end of
the object or aborts the walk. `Finish` is the tail of `EnumHeapObjects`: a
failed walk returns at once, any other result, `S_FALSE` included, is followed
by a flush and `S_OK`.

`StackEnum` uses the walk to note the bounds of the segments, then reads the
words of the stack. `IsValidObject` is a read of its own (`spc = "check"`), so
that the target can change between the word and its validation. Which words are
scanned depends on the entry point (`ScanFrom`, `ScanBase`).

`EnumCallback` has one operator per path of the closure. `reply` is the
consumer's answer and is chosen by the consumer whenever it is called. `calls`
and `received` are history: what the consumer has been given.

Addresses are numbers from 0 to `Top`. They do not overflow: a real heap does
not lie at the last address. The word size is a constant of `HeapEnum`; stack
words have numbers.

### Dictionaries

`DctEnum` has an image of its own: the type of the dictionary, its array or its
list, the words of each entry with those that cannot be read, and `live`, the
entries that the dictionary really has. `Identify` and the actions after it
find out the layout; a HybridDictionary leads back to `Identify` for the
hashtable or the list inside. Each word is read by an action of its own
(`ReadKey`, `ReadValue`, `ReadHash`), and an unreadable one leads to the next
slot or node (`Skip`). Arrays go through `Visit`, which is `Wrap` of
`EnumCallback`: the lambdas in `ReadEntries` are the same closure with a limit of
50. Lists go through `Call`, one call for each entry whose answer is not looked
at. Searches are clients that answer by themselves (`Answers`). The fixed
metadata of a type is read in one step; struct elements are told from class
elements by how a type's slots are filled (a ConcurrentDictionary has pointers,
which change and may be NULL).

### The script host

`dpc` is the position of the debugger's thread in the command it runs (`cmd`),
`fpc[c]` that of the thread of the form that command `c` opened. `refs[c]`
counts the references to the three objects a command makes (`CSDbgExt`,
`ClrProcess`, and the helper) and those that were taken on its DAC. `Less`
includes what a last `Release` does in turn: the destructor of `CSDbgExt`
releases its `ClrProcess`, that of `ClrProcess` its DAC. `rcw[c]` are the
runtime callable wrappers over the objects of `c`. The DAC is different: the
debugger may answer several commands with the same object (`DacOf`), and the
runtime keeps one RCW per object, so `dacRcw` and `dacUsed` say which wrapper
made the RCW that now stands for a DAC and which one a wrapper holds.
`Dispose` is `SptWrapper.Dispose` with its `FinalReleaseComObject` calls, which
empty an RCW for every holder.

### The thread pool

The record `e` of `ThreadPoolEnum` holds the locals of `ThreadPoolEnumerator`
and `mem` the pools of all domains, which `Live` lets go on between two reads.
A segment of a global queue is two counters and an array that is used once; a
work-stealing queue has counters that only grow and are reduced to the length of
the array by its owner, which the enumerator does not do. The fields of
work-stealing queues are looked up at the first queue and kept: a failure
there concerns the queues up to the next success (`Local`). An item is recognised
in steps of its own, since the two methods looked for share a flag.

### Threads, requests and the debugger's thread

`ThreadRequests` walks the linked list of threads by a read for each node and follows,
for each thread, managed object, execution context, illogical context, host context and
request. Threads start and end and change their requests meanwhile. A new thread goes to
the end of the list (`Listed` says what that list is at first) and may take the memory
of one that has ended, which `reused` notes. `Queries` are the two commands. The thread
store, the record of each thread (`readable`) and each place on the way to a request may
be unreadable. The rows of `!dumpaspnetrequests` and of `!findhttpcontext` are history.

`DebuggerThread` has one variable, `current`, that all callers share, and a record for
each of them. A command and any number of scripts run side by side; each call of the
engine is one step and may fail (`SaveRefused`, `SwitchRefused`,
`RestoreRefused`, and what is read of the TEB, `Reads`). The commands of the debugger
exclude each other (`Commands`). `lost` and `clean` note that calls have overlapped in a way
that the code cannot survive, so that the properties claim no more than it gives.

### Targets

`Bootstrapper` models one engine for the process, as the debugger engine is, and
clients with a `m_isDumpFile`, paths and a client pointer each. `Configure`,
`Call`, `EnsureDbgClient`, `Open`, the wait and the making of a DAC are actions
of their own and may fail; a wait that fails leaves its target in the engine.
`muddled` notes that, and that calls have overlapped; `openers` are the clients that
have opened a target, because `Init` alone relies on the flag of its own client for a
target that another may have opened.

### Fields, types, texts, dates

`FieldWalk` is the recursion of `FindFieldByNameExImpl`, flattened: `class`
descends from the root to the type and takes the number of instance fields
along. Fields of a class lie in a row, followed by those of another class, so
that a wrong count has somewhere to run to. `TypeSearch` compares the end of a
path, with `"short"` for a path that is shorter than the name, where the
comparison looks in front of the buffer. `StaticFields` starts with the caller's
own count of the domains. `StringRead` makes the four reads of
`GetFieldValueString`, two before and two after the buffer is made; `since` notes that
the target has done something after the size was read.
`DateParts` has the arithmetic as operators on one side and a calendar that goes
from day to day on the other (`Tomorrow`).

### Delegates and proxies

Both keep what they have looked up in static variables without a lock. In
`DelegateInfo` a `ClrFieldDescData` is copied in two steps, token or offset
first; `clash` says that somebody wrote while another call ran.
In `ObjectProxy` the tables are made (`NewTable`, `NewInverse`) and filled
(`Add`, `AddInverse`) in steps, and every `Add` goes to the dictionary that is
there then. A `Dictionary` is not made for two writers, nor for a reader beside one, and nothing
here keeps them apart. So when two threads have both come to add to a table, an `Add` may leave
it torn (`mtTorn`, `invTorn`): an entry may be lost or be that of another key, a later `Add` may
fail with what .NET throws from its arrays (`IndexOutOfRange` stands for all of it), and a
search may find anything, nothing, fail, or follow a chain of entries that leads back to
itself (`AfterTear`, `AnyFound`, `Missed`; the thread `spins`). A search beside an `Add` may
miss what is there. What is in a torn table is not kept, since nobody can tell. `mixed` is a
history variable: whether a thread took a step of a filling while another was in the middle
of one, or met a type that is not loaded. `loaded` are the types a target has loaded: `FindTypeByName` finds
no others. The answers tell a value by its type, and exceptions by theirs,
because `TryGetMember` treats one of them as a missing field.

### SQL pools and expressions

`SqlPools` goes down factories, groups, pools and lists and reads a connection's
handle, reader and text by steps of their own. Its two users differ: the command
prints, the managed one builds a tree below the current group and pool and
refuses connections whose time is no date. `Expression` scans a text character
by character; a path that is written as one (`Written`) has a meaning to
compare with (`Meant`).

## 3. Runs

| Run | Question | Properties |
|---|---|---|
| `heap` | Is a heap enumerated completely, whichever reads fail and whatever the target does, and delivered as it was found? | `TypeOK`, `Delivery`, `ScanForward`, `FullBatches`, `ReportsTheHeap`, `AbortIsFinal`, `StreamSpec`, `Terminates` |
| `stack` | Are the roots of the scanned range reported, and only what is in the heap? | `RootsReported`, `InSlotOrder`, `StreamSpec`, `Terminates` |
| `dct` | Are the entries of every type of dictionary reported, once, and found? | `EntriesReported`, `ValueFound`, `StreamSpec`, `Terminates` |
| `script_host` | Are objects alive while they are used, and gone afterwards? Do commands return? | `TypeOK`, `BufferReadInTime`, `UsableUntilDisposed`, `NothingLeaks`, `CommandReturns` |
| `still_target` | What is found in a dump that is damaged in one or two places, and does each call return? | `MembersFound`, `ExpressionsMeant`, `PoolsReported`, `RequestsShown`, `Terminates` |
| `live_target` | What is lost, repeated or mixed up while the target runs? | `ItemsReported`, `ThreadsSeen`, `ConnectionsShown` |
| `engine` | Whose thread and whose target does an answer come from, after overlaps and failures? | `ThreadAnswers`, `BootAnswers` |
| `values` | Which values are shown, and is there room for them? | `StaticsShown`, `OverrunExplained`, `DatesRight`, `TextWhole` |
| `caches` | What is left of static tables that several calls fill at once? | `DelegatesRight`, `TablesSettle`, `NoneMisled`, `Served` |
| `stack_usage` | Does the command scan the limits of its usage line? No. | `ScansTheGivenLimits` (violated) |
| `dct_message` | Is `E_INVALIDARG` an unknown type? No. | `InvalidMeansUnknown` (violated) |
| `pool_local` | Are the thread-local queues dumped as well? No. | `LocalQueuesDumped` (violated) |

A property of a composition is a conjunction of those its components define; each
of their parts is broken by a mutant of its own.

What they show:

* A successful enumeration of a workstation heap that was not refused reports
  exactly the objects of the heap. For a server heap it is weaker, and the
  property says by how much: an unreadable segment hides the rest of its heap
  and the call still succeeds.
* In a live target that only allocates, what existed at the start is reported,
  by the heap scan and by the stack scan, although the bounds both use are older
  than the objects they look at. With a collector that moves objects no such
  claim is true and none is made; order within a segment and delivery hold.
* Both enumerations implement `ObjectStream`, so a consumer written against that
  contract works with either, with or without batches, although one answers a
  refusal with `S_OK` and the other with `S_FALSE`.
* The usage text of `!dumpstackobjects` (`SDbgExt/DumpStackObjects.cpp:164`)
  promises a scan of the limits given. With two arguments they are dropped, with
  three the lower one is overwritten by the stack pointer. This is the finding
  of `stack_usage`.
* A Hashtable and a list are enumerated exactly. `EntriesReported` says what the
  other types do instead: a Dictionary also reports slots of removed entries, and
  a ConcurrentDictionary only the first entry of each bucket. `ValueFound` needs
  that no other key starts with the one looked for, since the search compares
  that many characters only; otherwise an entry with a longer key answers, or
  hides the right one if its own value is NULL.
* A refusal ends the enumeration of an array and is not heard in a list. The
  refinement of `ObjectStream` says so in its mapping of `stopped`.
* A HybridDictionary that never held anything is answered with `E_INVALIDARG`,
  which `!dumpdictionary` reports as not a known hashtable type
  (`SDbgExt/DumpDictionary.cpp:113`). This is the finding of `dct_message`.
* A form's thread always finds the buffer of interface pointers on the stack of
  the command that started it. A wrapper's objects live until it is disposed of,
  with one exception that the property names: the DAC's RCW is shared, and
  disposing of one wrapper takes it from the others.
* An enumeration of the thread pool in a dump is exact for the global queues. Of a
  work-stealing queue it shows the items that lie before the end of the array: the
  counters are taken for positions, so that a queue that has wrapped around is
  shown in part or not at all although the comment at
  `SDbgExt/ThreadPoolEnumerator.h:60` promises them (`pool_local`). No item is
  shown twice while the pool runs, and one that stays is shown.
* `!dumpaspnetrequests` shows the requests of the threads up to the first one whose
  record cannot be read. That one ends the walk (`SDbgCore/src/ClrProcess_Threading.cpp:37`)
  and hides all behind it; `EnumThreads` fails then (`EndTold`), but the command does not
  look at its result, so that the user sees a shorter list and no error.
* Of a thread whose execution context can be read but not followed to its end, the same
  command may show a context that is not the thread's: the variable is not initialised
  (`SDbgExt/DumpAspNetRequests.cpp:30`). It is that of a thread before it or what was on the
  stack, and of a thread that can be followed it never is (`StaleExplained`). `!findhttpcontext`
  clears the variable and shows none.
* Threads that run all along are come across, unless nodes are used again.
* The debugger's current thread is put back after any failure, and after overlapping
  calls as long as the first to save it is the last to restore it and the engine refuses
  neither. `GetThreadStack` returns where a switch is refused; `GetTLSValue` looks at
  none of these results and reads the storage of whichever thread is current. An unknown
  thread is asked for its TLS as the engine's thread 0.
* `Init...` gives an interface to the target it was given unless an earlier wait
  failed or another client has opened something. A command over a target without
  a CLR uses a NULL pointer; so does a client where no DAC is installed, because
  `InitIXCLRData` answers `FALSE`, which counts as success.
* A class whose instance fields are not counted sends the walk over the fields of
  its descendants into fields of other classes; `StaysInside` says exactly when. A
  name that is hidden in the language is found in the ancestor. What cannot be read
  hides no type and no method behind it.
* A domain that starts after the caller's count ends the process, since the
  values of one more do not fit; one that is unloaded leaves a row without domain.
  A value is always one that the field has had during the call. If the field's
  module cannot be asked, other than with `E_INVALIDARG`, the offset alone is shown
  as an address, although the comment at `SDbgCore/src/ClrProcess_Fields.cpp:36`
  has the domain neutral store asked "if that fails".
* A text whose string is replaced between the two calls of `GetFieldValueString` by a
  longer one is written past the end of the buffer; it is never returned cut,
  except to one character if the first string was empty.
* Dates and clocks agree with the calendar on all days of 401 years and on the
  last years that 62 bits can hold. The kind does not: the mask at
  `SDbgCore/src/ClrProcess.cpp:92` has neither of its two bits, so that UTC times, which
  `SDbgExt/SR.h:33` heads as such, are given as local ones. The text of `FormatDateTime` is of
  the remainder by 2^62 - 1 (line 117), not of the low 62 bits: it is up to three ticks late,
  and on the next day for the last ticks of one. It fits its buffer nonetheless.
* `GetDelegateInfo` is right where calls do not overlap, and where the cache was
  complete. It is completed by any delegate. A lookup for an object that is none but
  has a field `_target`, made while another fills the cache, spoils it for good.
* The tree of SQL connections is that of the target without what cannot be read.
  In a live target a connection is missed only if another left the list, and a
  command shown with another's connection only if a handle was reused.
* An expression without dots and brackets in its keys leads where it says. With
  them it is refused, or ends the process (a quote alone between two brackets), and
  is never answered with another object.
* Half-filled tables never make a script read a text as an object or a number as
  another. They make it fail instead, for good if a primitive type was not loaded
  when they were filled, since nobody fills them again. Filled by one thread after the
  other, both tables are whole in the end. When two scripts fill them over each other nothing
  of the kind is true: an entry may be lost for good, and a search may never end.
  Entries from an earlier target stay; they and torn tables are the only sources of a
  wrong answer. A member whose type is not known, a Char and a null reference are
  refused like one that is not there, although the comment at
  `SDbgM/ClrObjects/ObjectProxy.cs:72` speaks of a field not found.

### Bounds

`Top = 25` gives four segments of one to four objects, with a free word between
objects, an object whose size is not a multiple of the word (size 3, word 2), a
second word of an object that looks like an object, an ephemeral segment whose
own record is out of date and a segment that is linked only later. Each of these
is a case of the code; a larger heap repeats them. `MaxBatch = 2` (100 in the
code) makes full batches, an incomplete last one and an empty flush happen with
five objects; the proofs are for any size. `DumpImages` is every combination of
failing globals, heap data, heap list, heap details and segment reads, for both
collectors. `LastSlot = 7` gives a stack with words for each kind of number the
range check has to tell apart. The dictionaries have three to five entries: a
slot never used, one of an entry removed from a collision chain, an entry without
a value, a key that starts with another; a chain of two; one call or one word
that fails. They grow by one entry into a new array, or from list to hashtable.
`script_host` has two forms and two stubs, three
of the four over one DAC: the least with which a wrapper can meet the RCW of
another that is then disposed of while a third one comes. The commands of a
session are not repeated; each is typed at most once.

The thread pool has two domains, segments of two items and work-stealing queues of up to
five slots, so that a queue can wrap around and a last one fail. Three or four threads
are enough for one to end before, at and behind the position of the walk, and `LastId`
bounds how many start. A dump has three threads, each of which may be sound, have an
unreadable record, or break off at any place on the way to its request, or it has none,
or its thread store cannot be read. A command and a script with two calls between them
(`MaxCalls`) show every overlap of save, switch and restore, and each of the three
refused; the proof is for any number of callers. The two bootstrappers of the part
`targets` are alike, hence the symmetry. Two bootstrappers and a command make four calls
between them, of a dump, a process and one without a CLR: a target, one that fails to
come up, and one more of either kind, or two clients over each other. Types have three
classes with up to two fields, sound or with one place damaged: a count can be lost at
the root, in the middle and at the type itself. Domains are three, and two of the events
of a live target (`Events`) are a start and an unload; texts have up to three
characters, which is more than twice the shortest plus what is spare. Delegates are
asked about by two calls of any sort. SQL pools have every level twice and up to two
unreadable parts; in the live pool five events let a connection leave, another come, and
a handle change its owner. Expressions are every text of up to five characters of seven,
up to three of eight with the second sort of quotes, and paths of up to three steps. The
proxies' tables have three types (15 in the code): one before the text's, the text's,
one behind. One script looks into two targets which load types, two do so with a
question each, and three fill the tables over each other for one target: two that tear
them and one that finds them torn. The dates are the `Spans` of `MCValues`, after which
the calendar repeats itself, at five times of the day, the last tick among them.

Deadlock is not checked (`CHECK_DEADLOCK FALSE`): an enumeration that returned,
a session in which everything typed is done and closed, and a debugger that
crashed have no next step.

### Fairness

An enumeration is one thread that waits for nothing once the consumer's callback
returns: `WF_vars(EnumStep)`. `Terminates` is checked on dumps, where it depends
on the scan's progress alone; a live target that adds segments forever can keep
a walk busy. In `ScriptHost` the debugger's thread and each form's thread are
weakly fair up to the message loop of the form; the user need not type or close
anything and the garbage collector need not run. In the other modules the caller's own
steps are weakly fair and the target's are not (`MCStillTarget`, `MCCaches`): the callers are
running threads of the operating system and no step of theirs waits for a lock. A
script need not ask for anything. Runs without a liveness property state no fairness.

## 4. Proofs

Proved by TLAPS for every value of the constants that the `ASSUME`s allow: any
set of images and any relation between them, segments, lists, stacks, arrays and
chains of any length, any batch and word size; any number of commands, forms and
DACs, of callers, calls and threads, of bootstrapper clients, targets and paths, of
domains and fields, of scripts and primitive types; strings of any length.

### Invariants

Each component that theorems are about has an inductive invariant made of named parts
(`IInv`, or one with the component's name: `WalkerInv`, `BootInv`, `StaticInv`, `TextInv`, `ProxyInv`), a lemma
for each action that shows it kept, and a theorem (`Invariance`, `WalkInvariance` and so on)
from which the others follow.

`CallbackProofs`, `WalkProofs`
: What the wrapper and the walk do for whoever uses them. Between two calls a
  wrapper without batches holds nothing and a buffer is never full (`Waiting`);
  calls but the last are full batches. The walk keeps its type; and it is
  described by the set `V` of the segments it has shown so far (`Underway`, `Shown`,
  `Kept`): a list that is followed to its end has been shown whole.

`HeapEnumProofs`
: That what was found is what was received and what waits (`Delivery`) is not
  inductive alone. An enumeration whose consumer refused has to have an empty buffer
  and a walk that answered `S_FALSE` (`Control`), without which the flush after an
  abort might call the consumer again. From it follow `TypeCorrect` (no address
  outside the heap is read), `DeliveryCorrect`, `BatchesCorrect`, `AbortCorrect` and
  `Refinement`, the step simulation of `ObjectStream`. `ScanForwardCorrect` adds that
  everything found in a segment lies before the current address. It needs `Align`
  to move past the object, hence the assumption below that an object's size is not zero.

`StackEnumProofs`
: The words found lie in the range and before the word that is looked at (`Scan`,
  `InOrder`); `OrderCorrect`, `BatchesCorrect` and `Refinement` follow. A refusal
  returns without a flush, so that the buffer must be empty then (`Control`).

`DctEnumProofs`
: `Control` and `Stops` say what is known of the type at each place. A
  HybridDictionary makes the enumerator start over as one of another type, so
  nothing may have been found or delivered before (`Early`). `Refinement` follows
  for all five types; a list does not hear a refusal.

`ScriptProofs`, the script host
: `HostInvariance` says that each count equals the number of its holders:
  the frame of the command, the frame of `ExecuteOpCode`, the RCWs, and the
  object above (`Holds`, `Holders`), together with how far command, form and
  wrapper can be apart (`InStep`), what the state of a wrapper says of its RCWs
  (`Wrappers`) and who took a shared RCW away (`DacShared`). `TypeCorrect`
  (counts never below zero), `BufferCorrect`, `WrappersUsable` and `Balanced`
  follow. The proof of a step is split by the kind of fact: counts, positions,
  wrappers, types.

`ScriptProofs`, statics and texts
: `StaticInv` keeps, besides what the properties say, where the copied list of domains
  can differ from the target's: only where a domain was started or unloaded since, at
  the place of the call that `startedAt` and `unloadedAt` note; and that each value found so far was in
  its domain during the call. A row without a domain is a place that the callee's list
  did not fill. `StaticsOfDomainsShown` follows. `TextInv` says that as long as the target has done nothing
  since the size was read, the buffer is that of the string which is read next; so an
  overrun has such a cause (`TextsOverrunExplained`). `TextsReturnedWhole` is the action property:
  what is returned is what was copied, which is cut only by the least buffer.

`EngineProofs`, the current thread
: That the chosen thread is current when no call is under way follows only from
  where it is kept meanwhile: the first of the calls under way has saved it, as long
  as nothing was lost (`Kept`). That answers are of the right thread follows from what
  each call has before it at each place, unless another has switched in its way
  (`Undisturbed`). A switch is by any caller, so the lemma `OthersStay` shows once that
  whoever is exposed to it is marked and no one else depends on the current thread.

`EngineProofs`, threads and requests
: A walk over a list that changes needs to know what stays: ids only grow along the
  list, from a node to the one it links to, also when the node is no longer linked
  (`Numbered`, `LaterOn`, `Unbroken`). So a walk that stands at a thread that has ended
  still leads to every later one, unless its memory was used again (`Ascending`, `Covered`).
  `ThreadsComeAcross` follows: threads that run throughout are come across, and each thread
  once whatever is reused. For a dump, `DumpInv` adds what the rows have so far (`RowsSoFar`),
  that who has been called back with could be read, and so could all before (`Reading`), whose
  context the uninitialised variable holds between two callbacks (`Held`),
  and that `!findhttpcontext` has cleared its frame (`OwnOnly`); `RequestsOfDumpShown` follows.

`EngineProofs`, the targets
: As long as nothing is muddled, one client is under way, the engine's pending target
  is the one it was asked for, and once it has waited that target is the current one
  and its flag is right; between calls nothing is pending. For `Init` alone this
  holds while nobody else has opened a target. `TargetsOpenedRight` follows.

`CacheProofs`, delegates
: What the properties say of an answer needs two facts that are kept side by side.
  While no lookup has met another call (`AloneInv`): at most one call fills the cache,
  the fields before the one it is at are those of its object's type, and the last
  token is set only by a call that has found all four, so that a call which finds
  every token set finds a delegate's fields. And whatever has met (`CleanInv`): a call
  that found the cache complete while only delegates were being looked up reads with
  these offsets to its end, because each of the others writes what is there already
  (`SettledStays`, `FieldStays`). `Place` says which positions go with which step,
  `Trusted` what a call has read and been told. `CompleteForGood` is the action property
  `KeepsComplete`: a step never takes from a complete cache while only delegates are
  looked up.

`CacheProofs`, the proxies' tables
: `ProxyInv` says nothing of the tables once fillings have overlapped (`mixed`): two
  calls of `Add` may have torn them. Until then (`Apart`) at most one thread is in the
  middle of a filling (`Sole`), nothing is torn, and the tables hold exactly what is due
  at its place: the types before it, of its target (`Due`). While nobody fills them and
  they are made, they are those of one target (`Whole`). A thread that has found no
  tables yet may still begin anew, but as long as it does so alone it starts from
  nothing and ends with all types. Only a torn table makes a search spin, so that
  `TablesFilled` follows from `ProxyInvariance`. `ScriptsAnswered`, the action property
  `AnswersFit`, needs no more than which accesses come to the tables (`Way`) and that
  the method tables of a target differ.

### What is found

What an enumeration reports is proved under hypotheses about the target that are part
of the theorems, and TLC evaluates them on the images of the runs: the modules
`MCHeapEnum`, `MCStackEnum` and `MCDctEnum` extend the modules of proofs and `ASSUME`
them. Each says how a collector or a .NET collection keeps its data, and none speaks of
what the code does or of which reads fail.

| Theorem | Hypotheses | Why they hold |
|---|---|---|
| `HeapEnumProofs!SegmentsFoundWhole`, `OnlyObjectsReported` | `StillStays`, `HeapWellFormed` | a dump does not change; objects begin at word boundaries, one behind the other, and nothing outside of them looks like one |
| `DumpReported` | `DumpAssumption`: these, and `OneHeap`, `ObjectsBounded`, `ListsApart`, `AllLinked` | a workstation has one heap; objects lie before the allocation pointer or the segment's end; lists end, and share no segment |
| `LastingReported` | `GrowthAssumption` | a target that allocates leaves objects and links where they are, appends segments, and allocates behind what is there |
| `HeapReported` (`ReportsTheHeap`) | both | |
| `StackEnumProofs!NothingElseReported` | `StillStays` | |
| `RootsFound` (`RootsReported`) | `RootsAssumption` | as for the heap; `IsValidObject` knows the objects that a walk comes across |
| `DctEnumProofs!SlotsReportedOnce`, `DictionaryReported` (`EntriesReported`), `SearchCorrect` (`ValueFound`) | `DctTargets` | an array has no slot twice; entries are in the array, or on the list, which ends; a slot that holds none is marked as .NET marks it; growing, a dictionary leaves its entries where they are, or moves them to a new array as they are |
| `EngineProofs!AnswersCorrect` (`ThreadAnswers`) | `DebuggerAssumption` | the engine gives threads different ids, from 0 |
| `ThreadsComeAcross` (`ThreadsSeen`), `RequestsOfDumpShown` (`RequestsShown`) | `RequestAssumption` | threads are linked in the order of their starts; uninitialised memory is told from what was read; of what can be read nothing is assumed |
| `TargetsOpenedRight` (`BootAnswers`) | `BootstrapperAssumption` | names of different things differ |
| `ScriptProofs!StaticsOfDomainsShown` (`StaticsShown`) | `StaticAssumption` | addresses and contents are numbers; no domain is at NULL |
| `TextsOverrunExplained` (`OverrunExplained`), `TextsReturnedWhole` (`TextWhole`) | `StringReadAssumption` | a marshalled `StringBuilder` has room for one character more than its capacity, or for none |
| `CacheProofs!DelegatesCorrect` (`DelegatesRight`), `CompleteForGood` | `DelegateAssumption` | delegates inherit four fields, at the same offsets, from `System.Delegate` and `System.MulticastDelegate`; no other type has all four; there is no code at NULL |
| `TablesFilled` (`TablesSettle`), `ScriptsAnswered` | `ProxyAssumption` | no primitive type is listed twice, and String and DateTime are; types of one target have different method tables |

The argument is the same for the three enumerations. What has been found is compared
with a set that grows with the position. For the heap it is the objects of the
segments of `V`, and in the segment that is scanned those before the current
address, which never points inside an object (`ScanExact`, `Complete`). That each is
found once rests on a numbering of the segments along the lists, which exists where
lists end (`Numbers`). For a target that grows, the same is said of the first image
of its growth, which the current one extends (`Keeps`). For the stack it is the roots
among the words that were passed (`RootsInv`), once every root is known to lie between
the noted bounds. For a dictionary it is the entries at the places that were passed, of
the array or the chain that the image had when it was reached (`At`, `Gathered`). A
search is an enumeration whose client refuses at the first hit: what it holds then is
one item (`Single`, `Targeted`).

`EntriesReported` claims nothing of what lasts in a ConcurrentDictionary that grows,
of which only the first entry of each bucket is ever seen, and which may be another one
after an insertion.

### Only model-checked

* `MembersFound` (`FieldWalk`, `TypeSearch`), `ExpressionsMeant`, `DatesRight`: what is
  computed along a chain of classes, a text or a calendar, by recursion or by a count of days. What a recursive
  definition gives for every input needs an induction over data, which is beyond the provers.
* `PoolsReported`, `ItemsReported` and `ConnectionsShown` (`ThreadPoolEnum`, `SqlPools`).
  Their invariants are those of the enumerations above, once for each level; they are instances in
  the compositions, and no theorem is stated of them.
* `NoneMisled` is `KeepsComplete` and `AnswersFit` in one behaviour; both are proved of
  their components (`CompleteForGood`, `ScriptsAnswered`).
* Liveness (`Terminates`, `CommandReturns`, `Served`), since fairness is beyond the prover; for the same
  reason the absence of endless scans is a property of the runs on dumps only.

What these components take for granted of their parameters is a definition of each
(`PoolAssumption` and so on), which the compositions `ASSUME` of their instances.

## 5. Assumptions about what is outside

* The DAC answers a `GetObjectData` that succeeds with a size greater than zero.
  With size 0 on an aligned address the scan would not move.
* Lists of segments end. The images are as the collector keeps them; a damaged
  list that runs into itself is listed as a hazard and not checked.
* A target does not change its kind of collector, nor a dictionary its type.
* .NET's Hashtable and Dictionary mark removed entries as the images do: the first
  with the array as key or with zeroes, the second with a hash code of -1.
* `GetObjectStringData` with room for n characters answers the first n of a longer
  string.
* The runtime keeps one RCW per COM identity; `FinalReleaseComObject` on an RCW
  that is already empty does nothing; an exception that no one catches on a
  form's thread ends the process.
* In `ScriptHost` commands start from a successful `Init`; its failures are those of
  `Bootstrapper`.
* The engine has one list of targets and one current thread for the process; each of
  its calls is atomic. A target whose wait failed stays and may come up in a later one.
* .NET's thread pool takes from a segment at its lower counter and puts at its upper
  one; a work-stealing queue's counters only grow and its owner reduces them.
* Threads are linked in the order in which they started; the memory of one that
  ended can become another's. A GC handle that is freed can be given out again.
* Fields of a class lie in one array, instance fields first. `List<T>` moves items up
  when one is removed. A `DateTime` counts ticks of the Gregorian calendar from the
  year 1 and has its kind in bits 62 and 63.
* `FindTypeDefByName` knows types that are not loaded, `GetMethodDescFromToken` only
  loaded ones. `E_INVALIDARG` arrives in managed code as an `ArgumentException`, other
  failures as a `COMException`. `Marshal.SizeOf(typeof(char))` is 1.
* A `StringBuilder` is marshalled with room for its capacity and at most one character
  more (`Spare`; the proofs are for both).
* The callback of a consumer returns.

## 6. Not modelled, and the plan

What is worth adding:

1. Proofs: `ThreadPoolEnum` and `SqlPools`, as the enumerations are proved. `DateParts` compares a
   calendar that counts with arithmetic, which needs an induction over days;
   `Expression`, `FieldWalk` and `TypeSearch` follow texts and chains of classes.
2. The record that the stack enumeration reports with an object that has gone in
   between, and entries of a dictionary whose words change while they are read: nothing is
   claimed of either.

Of the parts that are modelled in part: the `-alt` method of `!dumpstackobjects` prints
one answer of the DAC and the registers are a table; `ClrObject` keeps one read each;
`!dumpobj` is modelled in the static values it shows, its other columns print
one read each.

Left out for good: the commands `!dumpmt`, `!dumpmd`, `!ip2md`, `!name2ee` and `!threads`,
which print what one call answers, table formatting, interface declarations, build
files, the tests' fixtures (comparisons of stored dumps with recorded numbers)
and vendored code. They keep no state that a property could be about.
