# Verification of irods_netcdf

irods_netcdf adds netCDF and HDF5 to an iRODS server: API plug-ins that run in
the server's agents (`api/`), commands that call them (`icommands/`), and
microservices for the rule engine (`microservices/`).  This directory holds TLA+
modules of its core, the TLC configurations that check them on small instances,
and theorems that the TLA+ proof system checks for every value of the constants.
`PROJECT.json` lists the runs, the mutants that show each property can fail, the
lines each definition models, the hazards and the findings.

    tlc -workers 2 -config MCNcDesc.cfg MCNcDesc
    tlapm NcDescProofs.tla

## 1. The system

An iRODS *agent* is one single-threaded process that serves one client
connection.  A request is one call of one handler (`rs*`), and a client stub
(`rc*`) is one request.  A handler that finds that its data object lives on
another server of the zone calls the same handler there, with
`NATIVE_NETCDF_CALL_KW` when it wants the bare library call, or passes the
request to another zone.  So nothing runs concurrently *within* an agent; what
is concurrent are agents of different clients, which share the catalogue, the
file systems and the source data, and the client itself, which orders its
requests as it likes.

| Component | State | Operations | Interacts with |
|---|---|---|---|
| L1 descriptors (`rsNcOpen`, `rsNcCreate`, `rsNcOpenGroup`, `rsNcClose`) | the agent's `L1desc` table, files open in the netCDF library here and on peers, ncids of other zones | open, create, open group, close | every other handler, which takes an ncid |
| Archiving (`rsNcArchTimeSeries`) | the run's indices; the collection's registered and physical files | new and incremental runs | `dumpSubsetToFile`, `svrRegDataObj`, `rsNcGetAggInfo` |
| Aggregate information (`rsNcGetAggInfo`, `readAggInfo`, `rsNcGetAggElement`) | `.aggInfo` of a collection | scan and write, read | the catalogue, archiving |
| Reading an aggregate (`rsNcGetVarsByTypeForColl`, `openAggrFile`) | `openedAggInfo_t`: the element open now | read a range across files | descriptors |
| Inquiry (`rsNcInq*`, `rsNcGetVarsByType`) | none of its own | look up ids, attributes, variables | descriptors, hosts |
| Subsets and copies (`rcNcInq.cpp`) | a file being written | parse and resolve a subset, copy variables | archiving, microservices, `inc` |
| Client walks (`ncUtil.cpp`, `ncattrUtil.cpp`) | a stack of collections, an open ncid | print or dump one object or a tree of them; list, add and remove attributes | every request |
| Global attributes (`rsNcRegGlobalAttr`) | metadata in the catalogue | register | descriptors |
| netCDF microservices (`msiNc*`) | the variables of a rule: an ncid, what was inquired, arrays | open, close, inquire, read, look into what was inquired or read, build arrays | the handlers |
| HDF5 microservices (`msiH5*`, `h5File.cpp`, `h5Group.cpp`, `h5Dataset.cpp`) | the HDF5 library's open objects; a tree of groups; L1 descriptors found by file id | open, read a dataset, attributes, close | the descriptor table, peers |
| OOI (`rsOoiGenServReq`, `ooiCi.cpp`) | none | HTTP request, JSON conversion | libcurl |

### What is hard here

* **One table, two owners.** The client holds indices of a table that the
  handlers fill and free on many error paths.  A wrong branch frees an entry
  that is still held or leaves one that nobody can name.
* **Failure in the middle.** Nearly every handler is a chain of three or four
  calls that may each fail on another host.
* **A log of files with an index written last.** Archiving dumps, registers and
  describes in that order, with no transaction around it, while the source grows
  and other agents work in the same collection.
* **Index arithmetic.** Pieces, chunks and subsets are all intervals of a time
  dimension, with an off-by-one at each end.
* **Recursion over graphs the program does not own**: collections on the client
  side, the groups of an HDF5 file, with cycles, on the server's.

What makes each part correct:

* descriptors: an entry stands for something open, an ncid the client holds stays
  valid, no two entries own one thing, and nothing leaks without an error;
* archiving: `.aggInfo` describes files as they are, the pieces tile an interval
  of the source, ok means that everything was archived, and runs end;
* reading and copying: the range asked for is the range returned, each element
  once and in order;
* inquiries and microservices: an answer is the file's, whichever host it is on;
  what a rule finds in it by index or name is what the file has there; an id
  leads back to its name; what is read is what was asked for;
* walks: every object is visited once, what is opened is closed, an error is
  answered.

## 2. The modules

### NcDesc: the descriptor table

| Model | Code |
|---|---|
| `l1desc` | `L1desc[]` of the agent: `inuseFlag`, `oprType`, `dataObjInfo`, `l3descInx`, `remoteL1descInx`, `pluginData` |
| `ncfiles` | files open in the netCDF library of this host and of one peer |
| `zoneNcids` | ncids open in the other zone |
| `agent` | `"faulted"` once a handler has used a null or freed pointer or a negative index |
| `held`, `reply` | the client's view: ncids it was given and has not passed to `rsNcClose`, the last answer |
| `rsNcOpen`, `rsNcCreate`, `rsNcOpenGroup`, `rsNcClose` | the handlers, one disjunct per way out of them |
| `Reconnect` | the agent exits and the client connects to a new one |

A handler is one atomic step since an agent serves one request at a time.  Every
call to the catalogue, host resolution and the library may fail.  The file's
place (`Place`) is fixed: this host, a peer, another zone.  The peer's own
process is not a second instance of the module: what it contributes, a file in
its library, is.  The client may pass any integer in or next to the table's
range as an ncid.

### NcArch and AggArchive: archiving

| Model | Code |
|---|---|
| `srcLen`, `Time` | the source's time dimension and its values |
| `cat`, `phys` | numbers registered in the collection; what is at each path |
| `aggInfo` | `.aggInfo`, replaced as a whole |
| `run[a]` | the variables of one `_rsNcArchTimeSeries` / `archPartialTimeSeries` |
| `OpenSource` ... `WriteAgg` | the run, cut where it calls something that other agents can see |
| `Rescan` | `rsNcGetAggInfo` as a request of its own |
| `Crash`, `Grow` | the agent ends between two steps; the source gains a step |

`TimeInx` is `getTimeInxForArch`, `NextNumber` is `getNextAggEleObjPath`,
`CloseEnough`, `Interval` and `PieceEnd` are the arithmetic of the loop.
`AggArchive` is what an aggregate promises a reader: pieces that tile an
interval of the source, never change and only grow at the end.  `NcArch`
implements it (`ImplementsArchive`) with `pieces` mapped to what `.aggInfo`
lists.

Two abstractions are deliberate: the scan of the catalogue is one step, and the
put of `.aggInfo` is one step.  The dispatch of the request to another host or
zone, ahead of the run, changes nothing and is left out.

### NcDump: one data object of inc

| Model | Code |
|---|---|
| `src` | the data object: dimensions, lengths, variables, what `rcNcInq` answers |
| `cmd`, `conds` | the options of `inc`; `ncVarSubset->ncSubset` |
| `pc`, `status`, `status1` | `ncOperDataObjUtil` and what it calls |
| `ncid` | the agent's descriptor that it opens and closes |
| `todo`, `lcount`, `curCount` | the loop over variables; `lcount[0]` and the chunks of `getAndPutVarToFile` |
| `file` | `outFileName`: dimensions as defined and, for each cell of a variable, which cell of the source is in it |
| `printed` | for each variable printed, the cells of the source in the order they were |

The data are the *places* the data came from, so a cell in a wrong place, twice,
or missing is a different value.  `GetVarsByType` is `_rsNcGetVarsByType` as it
is (the stride only sizes the buffer), `Interval` is the loop of
`resolveSubsetVar`, `ChunkRows` and `Rows` the arithmetic of the chunks.
`Readable`, `Writable` and `PutVars` are what the library does with a hyperslab.

Every request and every call of the netCDF library may fail, also those whose status
the code does not look at.  After an `nc_enddef` that failed (`rcNcInq.cpp:796`,
`1048`) the file may still be in define mode (`"define"`), where the first put ends
that or fails.  `CloseFile` is the `nc_close` at the end of a dump (815, 984, 1082): if it
fails, 0 is answered with a file of which it is not known what it holds
(`"unclosed"`).  `RemoveFile` is `closeAndRmNeFile`, of which neither call is looked at, so
a file may be left behind an error (`"left"`).

Numbers are printed one after the other.  Text (`NC_CHAR`) is printed in rows of the
last dimension, but `bufPtr` stays where it is (470-492): each row shows what the buffer
begins with, up to a NUL or past its end (`TextAt`, with `nul` for the cells that are
NUL).  For a variable without dimensions the length of a row is `count[-1]` (467), any
number: the text is shown once, more than once if it is negative, or without end if it
is zero (`PrintLoops`).  How a number is formatted is left out.  The cells of a row
are counted in an int (845), so `DumpAssumption` has no variable with rows of more than
`INT_MAX` cells.  A data object has its dimensions numbered from 0; `inc` does not open
groups.

### NcWalk: many objects of inc and incattr

| Model | Code |
|---|---|
| `tree` | collections, their members and special classes; the global attributes of each object |
| `cmd`, `i`, `savedStatus` | the options and paths; the loop of `ncUtil` or `ncattrUtil` |
| `calls` | the calls of the recursive walk: collection, position in its listing, `savedStatus` |
| `agent`, `used` | the agent that serves the command and the entries of its table that are taken |
| `avus` | metadata in the catalogue |
| `continueInx`, `printed` | the pages of `queryAUVForDataObj` |
| `ops`, `lost`, `gone` | for the properties: what was done with which object, what could not be listed, collections that had gone |

`ncOperCollUtil`, `regAttrCollUtil`, `rmAttrCollUtil` and `listAttrCollUtil` are
the same walk with another operation on an object, and are one here.  The
operations differ in what they may come to (`Outcomes`): `inc` is what `NcDump`
shows, cut down to its status and the entry it may leave; a registration is
`_rsNcRegGlobalAttr` in the agent of the catalogue's host; a removal and a
listing need no entry.  The four functions answer `savedStatus`, so an error
that is not saved is lost.  `inc` of a collection without `-r` opens it as an
aggregate, of which the agent ends (see `NcOpenColl` of `NcDesc`).

### NcInq: inquiries

| Model | Code |
|---|---|
| `world` | the descriptor table as `NcDesc` leaves it, with the open files of this host, a peer and another zone |
| `req`, `asked` | the client's request; the name behind the id in it |
| `inp`, `host` | `myNcInqInp` and the like: the request as it gets to the file's host |
| `pc` | the loops of `ncInq`, `inqAtt` and `_rsNcInqGrps`; `"idle"` between the calls of a rule |
| `ncInqOut`, `gattFreed` | the answer so far; `inqAtt` has freed its `gatt` |

`Passed` is what each handler sends on: to another zone a general inquiry goes
without its type, name and flags (`_rsNcInqDataObj.cpp:23-24`), so it becomes an
inquiry of everything.  `VarAtts` is as the code has it: the attributes of the
variable whose id is the place in the answer (`rcNcInq.cpp:1592`).  A file has the
types and values of its attributes, its unlimited dimension and its format, which
the microservices look at.

Ids of dimensions are of a whole file, groups included: `dim` has all of them, `own`
is the set of ids that belong to the file or group itself, and `dimid` is what
`nc_inq_dimid` finds by a name, in a group or around it.  `nc_inq` of a group counts its
own dimensions, and `ncInq` then asks for the ids 0, 1, 2, ... (`rcNcInq.cpp:1526-1530`):
in a file with dimensions of its own these are the file's and not the group's.
`InqDim` does so.  A client that gets an id of a name may use it in
another request (`UseId`).  Nothing in this module changes the table; `NcMs` adds
the steps that do.

### NcMs and NcSlab: the netCDF microservices

| Model | Code |
|---|---|
| `client` | `"program"`: one request, as in `NcInq`; `"rule"`: a rule that calls microservices |
| `rule` | the microservices the rule uses, and whether it writes its bounds as lists (`"0%1"`) |
| `param` | the variables of the rule: `type` and `inOutStruct` of each `msParam_t` |
| `call` | the microservice that waits for its handler, with what it needs when that answers |
| `query`, `ret` | the last call and its `rei->status`; `"fault"` if the agent ended in it |
| `files`, `added` | for the properties: the file an answer was made of; what the rule put into an array |
| the operators `msiNc...` | the microservices by their names |

All 33 microservices are there.  A rule may call those it uses in any order and
with any literals.  Three kinds differ in how they are modelled:

* The ones that *inquire or read* (`msiNcInq`, `msiNcInqId`, `msiNcInqWithId`,
  `msiNcInqGrps`, `msiNcGetVarsByType`, `msiNcSubsetVar`) put a request into `NcInq`
  (`Calls`) and wait until it is done, step by step, with every error; `Give` is
  what they do with the answer.  `ReturnVars` is the library's read behind
  `rsNcGetVarsByType`, with the buffer that `getSizeForGetVars` gives it.
* The ones that *look* into a variable are operators that give the set of ways the
  call may end: a value, an error, or an end of the agent where the code reads past
  an array (`Astray`).  So `msiNcGetDimLenInInqOut` compares the index of a
  dimension with the number of *variables*, as the code does.  A length goes through
  an int (`ToInt`), in which -1 stands for none (`DimsToFind`).  `AttValStr` is
  `ncValueToStr`: text is cut to what there is room for in `NAME_LEN` bytes behind its
  quotation mark (`Quoted`), and of numbers the first is shown (`ValueStr`, which need not
  tell two numbers apart, as `%.2f` does not).
* The ones that *open and close* are one step with what they leave in the table;
  their branches are those of `NcDesc`, and of `NcWalk` for `msiNcRegGlobalAttr`.

An argument that is unset or of a wrong type is refused before anything happens
(`Refuse`).  Once an agent has ended nothing follows (`Ended`).

`NcSlab` is the arithmetic of hyperslabs (`getSizeForGetVars`, the row order of
arrays), of which both `NcDump` and `NcMs` are clients.

### H5Desc: HDF5 sessions

| Model | Code |
|---|---|
| `l1desc[h]` | the descriptor table of the agent on host `h`: the client's, and those its server has on peers |
| `h5files[h]` | files open in the HDF5 library of `h`, by file id |
| `held` | the handles the client has: a file id and, as a ghost, the replica it was opened as |
| `msiH5File_open`, `msiH5File_close`, the reads | the microservices, one disjunct per way out |

The table is searched by file id (`getL1descInxByFid`), which is the library's
number and not the table's index; it is an int, as `hid_t` was in the HDF5 1.6 that
`CMakeLists.txt` asks for (with `H5_USE_16_API`).  A later library has a `hid_t` of 64
bits, which `h5File.cpp:61` narrows: that is not in the model.  A call to a peer may fail, and its answer may
be lost after the peer has done its part.  A read is one step: the file id is
looked up and the file of the entry is read.

### H5Walk: the groups of an HDF5 file

`H5File_depth_first` is a recursion over a graph; the model has its frames in
`stack` and the tree it builds, as a set of paths, in `tree`.  `HasLoop` is
`H5File_has_loop` with what `objID` is in memory: two ints that are read as two
longs.  `StackSize` is how deep the process's stack is; past it, the process
ends (`StackFault`).

### CommonLemmas

What operators of several modules return, for the proofs: `Min`, `Max` and
`FlattenSeq` of the community modules, and `Volume`, `Slab` and `Before` of
`NcSlab`.  The provers know nothing of these operators but their definitions, a
`CHOOSE` and a fold, and nothing at all of `SelectSeq`, which is recursive; so the
models filter with `FlattenSeq` (`Matches` of `NcWalk`, `Screened` of `NcDump`).
`FlattenOnce` says when what it joins has nothing twice, and `CountConcat` counts in it.

A slab holds each choice of indices in its lengths, once (`IndexIn`, `IndexOf`,
`SlabHas`), by induction from the last dimension, with `Volume` as a product that can
be taken from either end (`VolumeAppend`, `VolumeFrom`).  It holds them in row order
(`IndexOrder`, `SlabOrder`): of two places of a slab the first whose indices differ is
at a smaller one, since what lies behind that dimension is less than a row.  So the
place of a cell is the number of cells before it (`BeforeCount`), however the cells
are given.

## 3. Runs

| Run | Bounds | Shows |
|---|---|---|
| `desc` | three free entries, one file id per host, two ncids of the other zone, one group | types, `HeldInUse`, `HandlesLive`, `OneOwner`, and that leaks are answered with an error |
| `desc_root` (violated) | as `desc`, two file ids | closing a file after a group of it was opened leaves it open |
| `arch` | one agent, a source of up to eight steps, files of two steps, three times read at once | `.aggInfo` is faithful, ok means archived, refinement of `AggArchive`, termination |
| `arch_two` (violated) | two agents, five steps | two runs at once make `.aggInfo` lie |
| `h5` | a host and two peers, two entries a table, two file ids a library, three replicas of two objects | entries stand for the files they were opened for, handles are served, a file is lost only with an error |
| `h5_fid` (violated) | as `h5` | a read of a file on a peer may be of one here |
| `h5walk` | every file of three groups with up to two members each, longs of 4 and 8 bytes, five frames | the tree is the file's but for what is unreadable; faults have a cause; the walk ends |
| `h5_loop` (violated) | two groups linked to each other, longs of 8 bytes | a loop is walked until the stack is used up |
| `dump` | six sources of up to six cells a variable, chunks of three, strides 0 to 2, one or two conditions | closed copies and subsets, and prints, are exact; failed dumps are removed; an ncid is left open only with an error; chunks are bounded; the command ends, but for text without dimensions |
| `dump_stride` (violated) | as `dump` | a stride is not honoured |
| `walk` | a chain of three collections with three objects, the last one plain, linked or mounted; one or two paths; a table of two entries; pages of one row | each object is tried once and in order; ok means all; attributes are as answered; a table is full only behind failed objects; queries are exact; the command ends |
| `inq` | a program with a file here, one on a peer and one in another zone under the same numbers, and every inquiry; twelve agents with a rule each, over six files and groups, indices -1 to 2, three lists, seven subsets, arrays of two, text of two characters and lengths up to 7 | full inquiries are whole, single ones about the item named, errors leave no answer (`InqExact`); ids lead to what they were asked for; what a rule finds in an answer is what the file has; what it reads is what it asked for; every call comes back |

Three entries are enough for the table: a full table, an entry per kind of
object, and a file with two groups all occur; two ncids of the other zone allow
one to be reused.  The second file id of the `_root` run lets an id be reused
while a stale entry holds it.  Eight steps with files of two give an archive of
three runs, pieces that are whole, cut and extended by "close enough", and a
backward search of three chunks.  `next \in Numbers` bounds the number of dumps
that failed runs repeat; it is never what stops a run that succeeds.

In `h5` two entries and two ids let a table and a library be full, and let one
id be handed out on two hosts, which is what the lookup by id is about.  The
peers are interchangeable (`SYMMETRY`).  In `h5walk` three groups give links to
an ancestor, to a sibling and to the group itself; five frames are more than any
path without a loop needs.  The sources of `dump` are a grid of 3 by 2 with an
unlimited time, a series of five ahead of which a scalar is copied, one with no
records yet, one of text (a line, a page with a NUL in it, and text without
dimensions), one without dimensions and one without variables.  With chunks of
three cells the grid takes two chunks and the series one and a half.  Indices
lie in and past the dimensions; values lie on, between and past those of an
axis.

In `inq` the hosts use the same library numbers for different files, so a request
that is passed on with a wrong number is about another file; an item that is
not the first of its type, a name that is a dimension's and a variable's with
different ids, and a file without dimensions, global attributes or groups occur.
Each of the rules has the microservices that can feed one another (open, inquire
and look; put arrays together and read; list the groups and open one), since what
the others do cannot reach them but through the table, of which it has the one or
two free entries it fills.  The files differ in what has more of what: `Grid` has
more dimensions than variables and more attributes of a variable than of the file,
`Series` the other way round and a variable without dimensions, `Square` more dimensions
of a variable than variables, `Inner` is a group with two dimensions that do not come
first in its file, one under a name that the file has too, and a variable with a
dimension of the file around it, `Bare` a group without dimensions, `Empty` has nothing.
Two lengths do not fit an int of `INT_MAX` = 7, of which one becomes -1; `NAME_LEN` = 4
has room for a text of two, and one attribute has three; a float is shown as another.  An
array has room for two elements (`NC_MAX_DIMS`), which is as many as a variable has
dimensions; the literals are one ahead of it and one past it; the lists and subsets
are in, at the end of and past the dimensions, one with a stride, one twice on one
dimension and one that cannot be parsed.

In `walk` two entries are filled by two of the three objects, so the third sees a
full table; a path that is missing, a path below another, and a collection
without objects of its own occur; two matches with pages of one row let a last
page be full and the one behind it empty.

Seven properties say less than they might, and the reason is in the code.
`CopyWhole` leaves out variables without dimensions, which are copied with the
count of the variable ahead.  It and `SubsetExact` are about a file that `nc_close` has
closed; where the close failed, and 0 was answered, they say only that the file is not
one that was removed or left.  `ExtractExact` is of what is dumped (`SubsetExact`)
and of what is printed (`PrintExact`).  Both take strides of 0 and 1, as others are
not honoured (`dump_stride`), and axes that ascend, which `resolveSubsetVar`
assumes; the first leaves out `--var all`, with which nothing is dumped
(`rcNcInq.cpp:996` compares a name that is never set).  Of text `PrintExact` says what
the code prints, row by row.  `DumpEnds` leaves out text without dimensions.  `InqExact` is of full
inquiries (`InqWhole`), of inquiries of one item (`InqOne`) and of errors
(`ErrorLeavesNothing`).  For a group whose dimensions do not have the first ids of its
file (`DimsFirst`) `InqWhole` says that it is answered as many of the file's, from id 0.
`InqOne` leaves out another zone, which is asked for
everything, the attributes of a single variable, which are those of the variable
with id 0, and the id of a single attribute, which is always 0 (1685).
`FailedDumpRemoved` leaves out sources without dimensions
(`rcNcInq.cpp:733-735` returns with the file open) and files that cannot be removed.  `AnswerExact` leaves out the
calls that read past an array (`Beyond`) and those that do not find what is there
(`TooShort`), which come from bounds of something else: the number of variables for
dimensions, of global attributes for a variable's, of the file's dimensions for a
variable's; and arrays of strings, which are shown by their address.  It also leaves out
those that answer something else (`Misled`): the dimensions of a group that do not come
first, and lengths that do not fit an int.  `ReadsAsked`
takes reads of the file that was inquired of: `msiNcSubsetVar` and
`msiNcGetVarsByType` take ids from the variable's inquiry without asking whether it
is of that ncid.  With a stride it says only that the bounds fit the variable, as
`dump_stride` shows why.

**Fairness.** `WF_vars(Step(a))` for each agent: once a handler runs it goes on
to its return.  There is none for `OpenSource`, `Rescan`, `Crash` or `Grow`:
clients need not call, and sources need not grow.  In `H5Walk`, `NcDump` and `NcWalk`
`WF_vars(Step)`: one process goes on to its end.  In `NcMs` `WF_vars(Serve)`: an agent
goes on with the call it serves, and every call of the library, of another host or
of a connection comes back, if only with an error; rules need not call anything,
so there is none for `Microservice`.  The descriptor modules have
no liveness property, since clients need not close what they opened.

## 4. Theorems

Each theorem below is of every value of the constants; the table says which
properties of the runs it states.

| Module | Properties proved |
|---|---|
| `NcDescProofs` | `TypeOK`, `HandlesLive`, `OneOwner`, `HeldInUse`, `SlotLeakIsHostError`, `FileLeakIsAnswered` |
| `NcArchProofs` | `TypeOK`, `LoopEndsAtEnd`, `AggInfoFaithful`, `OkArchives`, `ImplementsArchive` |
| `H5DescProofs` | `TypeOK`, `EntriesLive`, `HandlesServed`, `FileLeakIsAnswered` |
| `H5WalkProofs` | `TypeOK`, `TreeIsFile`, `FaultHasCause` |
| `NcDumpProofs` | `TypeOK`, `CopyWhole`, `ExtractExact`, `LeakSawError`, `FailedDumpRemoved`, `ChunkBounded` |
| `NcWalkProofs` | `TypeOK`, `WalkComplete`, `OkMeansAll`, `AttrsAsAnswered`, `FullTableExplained`, `QueryExact` |
| `NcMsProofs` | `MsTypeOK`, `InqExact`, `IdLeadsToItem`, `AnswerExact`, `ReadsAsked` |

### NcDescProofs

The invariant is `DescInv`: besides
`TypeOK`, `HandlesLive`, `OneOwner` and `HeldInUse` it has `EntryShape` (what the
fields of an entry in use may be together) and
`GroupsMarked`: a file with an entry that names one of its groups has every
root entry marked `NC_OPEN_GROUP`, so that closing it does not close the file.
It is needed because `HandlesLive` alone is not inductive: the mark that
`rsNcOpenGroup` sets on the wrong entry is the only thing that keeps the file
open for the group.  The assumption `RootGroup \notin Groups` says that no
client opens a group by the path `/`; with it a group entry has the file's own
ncid, and closing it would close the file under the others.  The two leaks are
action properties of the same invariant: a request that leaves something without
an owner has answered an error.

### NcArchProofs

`TypeOK` and `LoopEndsAtEnd` hold for every number of agents,
every length, limit and chunk.  The invariant `ArchInv` adds to the types that a
run in the loop is either ahead of its start or has not moved, that its interval
is positive, and that it never passes `end + 1`.  The step that matters is
`DumpPiece`: the "close enough" test leaves at least two steps behind or none.

`AggInfoFaithful`, `OkArchives` and the refinement are of runs that do not overlap
(`OneAtATime`, for any number of agents that take turns), as two at once break them
(`arch_two`), and of this `Setting`: `--new` only for a collection that is empty;
no two steps of the source with the same time (with a time twice `TimeInx` goes back
to the first of them and a later run dumps a step again); and the sentinel `NoAgg`
is not a set of elements.  The invariant is `CollInv`.  What it has to say is what a
failed run leaves: files that are registered but not described.  The next run starts
from what `.aggInfo` says, so it dumps over these, and a crash in that leaves a
registered file with less in it.  The invariant holds since it dumps the *same*
steps again: all but the last of these files were cut by the interval
(`Adjacent`), where more than half as many again were left for every run there is or
may be (`MoreFrom`), and a source only grows (`Longer`).  `f`, in `InRow`, is where
each file begins, also while it cannot be read.  The refinement maps the pieces of
`AggArchive` to what `.aggInfo` lists: its write is `Extend`, all else stutters.

### H5DescProofs

`TypeOK` and `EntriesLive` hold for any hosts, tables, libraries
and replicas.  The invariant `H5Inv` adds `EntryShape` (an entry names a
replica and a file id, and on a peer the replica is the peer's own) and
`OneEntry` (no two entries of a table name one file), without which closing one
entry might close the file of another.  `HandlesServed` is a count: as many
entries have a file id as the client has handles with it.  It is inductive by
itself, since the open adds one of each and the close takes one of each, *whichever*
entry of the id the search finds; which file that entry is of is another matter
(`h5_fid`).  `FileLeakIsAnswered` is an action property of `H5Inv`.

### H5WalkProofs

The calls on the stack are the path the walk is at: each is for the member its
caller is at (`CallsInv`).  `TreeInv` says that every path in the tree leads to a
member by way of readable groups, and that in a file without loops each such path is
in the tree or still ahead of a call (`Pending`).  When the last call returns nothing
is ahead, which is `TreeIsFile`.  That no path is too long for the stack in a file
without loops, and that a loop gives paths of every length, is by induction on the
length (`LoopEndless`).  `FaultHasCause` needs `EnteredOnce`: with longs of four bytes
the search of the callers works, so no group but the root is entered twice, and by
the pigeonhole principle the stack is never deeper than there are groups, and one.
Its hypothesis is `Cardinality(Groups) < StackSize`; with less room the process may
end in a file that is deep and has nothing wrong with it, as the code has no limit.

### NcDumpProofs

`FailedDumpRemoved` and `LeakSawError` come from `EndInv`, which says at each point
of the program what state the file and the descriptor are in.  `IntervalExact` is about
the search in `resolveSubsetVar`: on an axis that ascends, if a value lies between the
limits, the indices from start to end are exactly those of the values between.

The rest is about cells, and rests on what is in a slab (`CommonLemmas`).
`ChunkBounded` is the arithmetic of
`ChunkRows`: `r` rows of `w` cells, of which `r - 1` fit.  `CopyWhole` needs `CopyAt`:
a variable that is no longer to do is whole, the one at hand has the rows up to
`curCount`, and every cell is in its own place; `ChunkHas` shows that a chunk has
just the rows from `curCount` on.  A variable without dimensions is exempt, as its
`lcount` is the one ahead's.  `ExtractExact` needs `SubsetAt` and `PrintAt`, and
`CondsAt`: what a condition was resolved to is kept until it is used.  An interval
that `InRange` lets through has a value of those asked for in it (`IntervalValue`), so
`IntervalExact` applies; without strides the buffer has room for all (`ReadWhole`).
A row of text then follows from what is in the buffer.  The invariants are about the
data in the file while the handler writes it, so nothing in them depends on how
`nc_enddef` went.

### NcWalkProofs

`OkMeansAll` needs `WalkInv`: whatever has failed is held by
the `savedStatus` of the command or of a call that has not returned; `Back` is
where it is handed on.  `FullTableExplained` needs `TableInv`: the entries taken are at
most as many as the operations that may leave one.  `WalkComplete` needs `StackInv` and
`DoneInv`.  A call on the stack is for the member its caller is at, and since the
collections are a tree the stack is no deeper than their number.  What was done so far
is what the paths ahead come to, followed by what each call on the stack has made of
the members behind it; a call that returns has made its collection's whole `Listing`,
which is then what its caller has made of that member.  `AttrsAsAnswered` needs
`AttrInv`: the catalogue has, of every object with an operation behind it, what the
operation answered, and later ones do not undo it, as a registration only adds and a
removal only takes.

`QueryExact` needs `QueryInv` and that no row comes twice (`MatchesOnce`).  The second
is about the tree: what lies below one member of a collection (`Parts`) does not lie
below another (`PartsApart`), as each member has one place and no collection is below
a member of its own; so joining the listings of the members repeats nothing
(`FlattenOnce`).  `QueryInv` counts: while no error is held, an object has been printed
once for each path ahead whose rows it is in, and once more if it is in those that were
read of the path at hand.  A page is the rows behind these (`PageRows`), and the query
is left for the next path only when all of them were read.  All pages are of one query
that `continueInx` goes on with, and a query changes nothing in the catalogue, so the
rows are the same from one page to the next.

### NcMsProofs

The first part is of one inquiry (`Spec` of NcInq), the second of rules (`MsSpec`).
`InqExact` is about finished answers and so is not inductive; `InqInv` says
what the answer is at every point of `ncInq`: made of the counts at its start
(`Header`), with dimensions, variables and attributes that are each those of the
file at a place the request picked, in order and no more than counted
(`DimPart`, `VarPart`, `GattPart`), and complete in the parts whose loop is over
(`Stage`).  `GrpPart` is the same of groups.  That a group has no more dimensions than its file
(`OwnDimsInFile`) makes the ids that `ncInq` goes through ids of the file, though perhaps
not the group's; `InqWhole` asks for the group's only where the ids agree.  It holds while the request keeps its
meaning on the way to the file's host, which is what `AtFile` says.  `IdInv` carries
the name behind an id through the request that uses it.

In a rule inquiries follow
one another, and entries are opened and closed between them.  `RuleInv` adds what
the variables of a rule are worth: each has been set by the inquiry that `files`
says, the variables in an `NcInqOut` are exactly those of that file, and the id is
one of the name it was asked for.  It is needed since the second request is made of
what the first has left in a variable, perhaps many calls ago; that its entry still
stands for the file is asked of the table when the rule uses it (`OfFile`).

`AnswerExact` is of the microservices that look into an answer.  `FromInv` says that
what is in a variable is *all* that the file in `files` has (of the dimensions, as many
as the group has, from id 0); `AnswerInv` that what the
last call returned is one of the answers it may give, of which `LookedInq`,
`LookedGrps` and `LookedItem` show that each is right.  The attempt to prove it found
that the property had left out a case of the code: `msiNcGetDimNameInInqOut` of a
variable searches the dimensions up to the number of *variables*
(`msiNcGetDimNameInInqOut.cpp:72`), so with more dimensions than variables it may
answer that there is none.  No file of the run had such a variable; `Square` is one,
and without this disjunct of `TooShort` TLC finds `AnswerExact` violated.

`MsTypeOK` comes from `TypesInv`.  Its part about the handler (`HandlerTypes`) keeps
that what `ncInq` has gathered lies in the file even when it ends at a global
attribute, where `inqAtt` frees the attributes and `ncInq` leaves the rest of the
answer as it is (`InqGattError`); its part about the rule
says of each array that it is *exactly* what the rule has added (`ArrayIs`): the
elements in their places, zeros between them, and at least one of them unless it was
freed.

`ReadsAsked` needs both, and what happened between the call and its answer.
`ReadInv` says that while a read waits for its handler its bounds are those the rule
means, dimension by dimension, for the variable of the inquiry that has the id in the
request (`AsksRead`: from `ArrayIs` for arrays, from the first condition on each
dimension's name for subsets); that the handler answers the variable of that id in the
file of the entry (`VarsAnswered`); and that a read that is over has the cells of that
file if it is the one inquired about (`HasRead`).  The two files are compared only
when the answer is there: between call and answer nothing closes an entry, as the
agent serves one call at a time.  `CellsRead` then turns the slab, with `BeforeCount`,
into the cells between the bounds in their order.

### What the theorems assume, and what is only model-checked

The assumptions on constants are named and stand in the modules that declare
them: `TableAssumption`, `ArchAssumption`, `IntWidth` and `Sentinels` (that a file is
not one of the values that stand for none), `SessionAssumption`, `WalkAssumption`,
`DumpAssumption`, `CommandAssumption` (collections are a tree in which each member
has one place, as it has one path), `InqAssumption`, `MsAssumption`.  Hypotheses of
single theorems are `RootGroup \notin Groups` (descriptors), `Setting` and
`OneAtATime` (archiving), `Cardinality(Groups) < StackSize` (faults of the HDF5 walk).

Induction over data (the length of a list, the depth of a tree, the dimensions of an
array) is by the least number of a set that has one (`NatInd`): the induction theorems
of the library take an operator as a parameter, which the provers cannot instantiate.
Functions that are defined by recursion are first shown to exist and to be unique.

Only model-checked:

* liveness (`RunTerminates`, `DumpEnds`, `WalkEnds`, `CallReturns` and the end of the
  HDF5 walk), which the proof system does not do here.

## 5. Not modelled, and the plan

Not modelled: the text of what is printed, the parsing of options and dates, the
conversion of values, the service requests of OOI (HTTP and JSON), build files
and tests.  They transform data and keep no state.  What the netCDF and HDF5
libraries, the catalogue and the connections do is modelled from how the code
uses them.

Of the microservices these are left out: bounds in arrays of another type than int
(the handler takes the bytes as they are), errors of range when the library converts
a value, and subsets of more than `MAX_NUM_VAR` conditions.  A request with what was
inquired of another file is in the model, but no property is about it: nothing in
the code says what it should do.  An end of the agent on a buffer that is
overrun is one of the outcomes, not a study of what is overwritten.

The code behind the opening of an aggregate (`rsNcGetVarsByTypeForColl`,
`ncCloseColl`) is left out: `openAggrFile` asks `any_cast` for an
`openedAggInfo_t` where a pointer to one is stored (`rcNcOpen.cpp:216`, `245`),
gets NULL and follows the null `ncAggInfo` of a fresh one (255), so nothing
behind it runs in this build.  `NcOpenColl` of `NcDesc` ends there.

`CMakeLists.txt` leaves parts of what is modelled out of the plug-ins it builds:
`rsNcArchTimeSeries` (issue #39), `rsNcCreate` (#40), `rsOoiGenServReq` (#42 and #44) and the five
HDF5 microservices (#48).  Their code is in the repository with its client side
(`incarch`, `rcNcCreate`, `msiNcCreate`), and it is the code that is modelled.

One document differs from the code where no property depends on it:
`msiNcSubsetVar.cpp:38` and the comment at `rcNcInq.cpp:1160-1162` give a subset as
`name[start:stride:end]`, while `parseNcSubset` looks for `%` (1176-1195).

Next: an aggregate read as one file, once `openAggrFile` can be reached.
