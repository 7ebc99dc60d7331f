# Plastron in TLA+

Models of the parts of [plastron](../src/README.md) that are hard to test, the
TLC configurations that check them on small instances, and proofs that TLAPS
checks for every value of the constants. `PROJECT.json` relates every
definition to the lines it stands for, and lists hazards and findings with
their places in the code.

## Inventory

Plastron administers a Fedora repository: it imports, updates, publishes and
exports items from the command line (`plastron-cli`), from a STOMP daemon
(`plastron-stomp`) and over HTTP (`plastron-web`). All of them run *jobs*
(`plastron-jobs`) against *resources* (`plastron-repo`), through an HTTP client
with transactions (`plastron-client`); items are described by content models
(`plastron-models`) mapped to RDF (`plastron-rdf`).

| Component | State | Operations | What is hard | What makes it correct |
|---|---|---|---|---|
| STOMP daemon: `CommandListener`, `MessageProcessor`, `AsynchronousResponseHandler`, `InboxWatcher` | inbox and outbox directories, thread pool, connection, one shared `result` | receive, store, acknowledge, submit, run, respond, redeliver | three kinds of threads, crashes between file operations, redelivery, frames lost without notice | no acknowledged command is lost; one task per command; responses belong to their job; everything is answered in the end |
| Transactions: `transaction()`, `TransactionClient`, `TransactionKeepAlive` | flags `stopped`, `failed`, `active`; the transaction on the server | begin, request, maintain, commit, roll back, stop | a keep-alive thread shares the flags; lost answers; expiry | nothing half-done is committed; exceptions tell what the server did; both threads end |
| Import job: `Job`, `ImportJob`, `ImportRun`, `ImportRow`, `MetadataSpreadsheet`, `ItemLog` | job directory (config, source.csv, completed log), drop logs, the repository | create, resume, validate, select rows, create, update, publish, log | crashes and errors between the repository and the log; repeated, skipped and dropped rows; percentages | the log is true; duplicates only after faults; each selected row is accounted for |
| Publication: `PublishableResource`, `HandleServiceClient`, `PublicationJob` | access classes and handles in an item's description, the registrations at the handle service | publish, unpublish, hide, find, mint and correct a handle | check then mint by concurrent jobs; a description that has changed since it was read; lost answers | no two items share a handle; a retry does not mint again; a PATCH changes what was asked for and nothing else |
| Update job: `UpdateJob`, `walk()` | completed log, transaction, the walk's stack | walk the tree below each URI, check, PATCH, log | the log line is written before the commit; trees that overlap; answers that are lost; HEAD errors | what is logged is updated; each resource once; update_complete means all |
| Job directory: `Jobs`, `JobConfig`, `ItemLog`, `MetadataSpreadsheet` | config.yml, source.csv and the completed log in one directory, and a set of keys in each process | create, convert, store, resume, show, append | nothing locks the directory; each file is truncated and written in two steps; a command may be delivered twice | a process believes only what is in the repository; a job whose directory is there can be resumed |
| Page sequences: `PageResource`, `AggregationResource`, `fixpageorder` | members, files, proxies with their previous and next | create request by request, follow, relink | failures between requests; a chain that is relinked while somebody follows it; neighbours found by position in a map of numbers | whoever finds the item finds all of it; a chain has one successor everywhere; readers come to an end |
| Commands on the repository: create, delete, reindex, set, replace, annotate, stub, web PATCH | a tree of resources, the log of deleted ones | HEAD, GET, PUT, PATCH, DELETE, POST, one at a time | several processes at once; HEAD errors; edits computed from what was read | the tree is closed; titles have no more values than edits; annotations and stubs are whole |
| Resources and RDF mapping: `RepositoryResource`, `TrackChangesGraph`, properties, `EmbeddedObject` | a graph, its original, a description that shares it or not | read, describe, set, add, attach, create, update, validate | temporary and relative URIs; lost answers; other clients; properties that share a predicate | update() loses no edit; an edit changes what it names and nothing else |
| Export job and CSV serializer: `ExportJob`, `CSVSerializer`, `Row`, `FileGroup` | counters, sheets by model, a bag; afterwards rows somebody has edited | export an item, copy its files, finish; read the rows back | one failing item among many; separators; positions of embedded objects; equal names | rows come back as they were; a bag holds what its rows name |
| Binary sources: local, zip, SFTP, HTTP | where the files are and what can be reached | exists, open, digest, MIME type | validation asks and loading opens, by different means | what was found can be opened; only some failures end the run |
| Content models, vocabularies, OCR, file handlers, namespaces | none of their own | reading and formatting | data | (not modelled) |

How they interact: the daemon calls a command function on a pool thread; the
import command creates or resumes a job and returns its generator, which the
daemon drives and sends a progress message for every step; the job creates
items inside a transaction and publishes them in it; the transaction's
keep-alive thread runs beside all of it. Publication is called by the import
job, by a job of its own, by a command and by web requests, all at the same
time. The commands of the command line send their requests to the same
repository without knowing of each other; `fixpageorder` relinks pages that an
export may be reading. Import and export meet in the spreadsheet: the serializer
writes the rows that `MetadataSpreadsheet` reads. The job directories, the two
message directories, the repository and the handle service are what survives a
crash.

## Modules

| Module | Models | State |
|---|---|---|
| `JobMessaging` | the promise of the daemon: somebody is responsible for each posted command | `owed`, `stored`, `answered` |
| `StompDaemon` | listeners.py, handlers.py, inbox_watcher.py, daemon.py, `MessageBox` | see below |
| `StompDaemonProofs` | theorems about `StompDaemon` | |
| `Transactions` | transactions.py, and `load_item` when `CommitsItself` | see below |
| `TransactionsAndPagesProofs` | theorems about `Transactions` and `PageSequence` | |
| `ImportJob` | importjob/\_\_init\_\_.py, spreadsheet.py `rows()`, jobs/\_\_init\_\_.py, and what the two import commands pass to them | see below |
| `ImportJobProofs` | theorems about `ImportJob` | |
| `Publication` | publish.py, handles/\_\_init\_\_.py, publicationjob.py, the command and the web request that publish, `read()`, `update()`, `TrackChangesGraph` | see below |
| `PublicationProofs` | theorems about `Publication` | |
| `UpdateJob` | updatejob.py, `walk()`, `context()`, `ItemLog`, and what the commands pass to them | see below |
| `UpdateJobProofs` | theorems about `UpdateJob` | |
| `JobDirectory` | jobs/\_\_init\_\_.py, logs.py, the files of importjob/\_\_init\_\_.py, ndnp.py's loop, by several processes | see below |
| `JobDirectoryProofs` | theorems about `JobDirectory` | |
| `PageSequence` | aggregation.py, pcdm.py (pages and files), fixpageorder.py | see below |
| `RepositoryCommands` | the commands of plastron-cli on the repository, client/base.py, the web service's PATCH | see below |
| `RepositoryCommandsProofs` | theorems about `RepositoryCommands` | |
| `RDFMapping` | plastron-rdf: graph.py, resources.py, properties.py, embed.py | operators only |
| `Descriptions` | the resource that is read, described, edited, created and updated (repo/\_\_init\_\_.py) | see below |
| `DescriptionsAndExportProofs` | theorems about `Descriptions` and `ExportJob` | |
| `Spreadsheet` | serializers/csv.py and spreadsheet.py as functions | operators only |
| `BinarySources` | files/\_\_init\_\_.py as questions and their answers | operators only |
| `ExportJob` | exportjob.py, composed with `Spreadsheet` and `BinarySources`: the rows and files are imported again | see below |
| `MCStompDaemon`, `MCImportJob`, `MCPublication`, `MCUpdateJob`, `MCJobDirectory`, `MCPageSequence`, `MCRepositoryCommands`, `MCDescriptions`, `MCExportJob` | instances for TLC | |

In every module the assumptions about constants are named, a step stands for one
request or one file operation and whatever the code computes around it, and
`faults` counts everything that goes wrong, so that properties can say "unless
something failed".

### StompDaemon

One message is one command (`PlastronCommandMessage`) and `JobOf` its
`PlastronJobId`. `inbox` and `outbox` are the two directories: a file is absent,
`torn` (opened, which truncates it, but not yet written) or complete. The
receiver thread's program counter `recv` walks through `on_connected` (`resend`
and `resent` for the outbox loop, `submit` for the inbox loop), `listening`,
`on_message` (`write`, `ack`) and `stopped`. `created` are the watcher's pending
events, `pool` the executor's queue, and `worker` what each thread of the pool
does: `run` and `respond` are `MessageProcessor`, `open` to `clear` the done
callback. Every file-system and network operation is a step of its own, and
`Crash` and `LoseLink` may come between any two.

`broker`, `link`, `handed` and `received` describe the outside: a message is
acknowledged only if the broker saw the acknowledgement; unacknowledged messages
of a lost connection are delivered again; a frame on a connection that broke
unnoticed raises a `StompException` or (`SilentLoss`) vanishes, since the daemon
asks for no receipts.

Abstractions: a message's headers and body are its identity; an interrupted
write leaves an empty file, not part of one; an empty file reads as a message
without headers, whose task and callback both raise (`outbox.add(None)` fails),
so submitting it has no effect; directory listings and the executor's queue are
sets, so that every order is explored; an exception in a listener's method ends
the receiver (stomp.py's loop), as it does in the library's version in use.

### Transactions

`main` is the thread in the `with` statement, at the granularity of its accesses
to the flags; `ka` is the keep-alive thread. `wire` is the commit or rollback
request: done, refused, or its connection fails before or after the server
executed it. `Expire` is the server dropping a transaction nobody keeps alive;
while the thread still maintains it, it does not expire. With `CommitsItself`
the body ends the transaction as `load_item` does, and `transaction()` then
commits once more. Names that `PageSequence` has as well begin with `Tx` here
(`TxInit`, `TxSpec`, `TxTypeOK`), so that one module can extend both.

### ImportJob

One job over several runs. A row is its identifier; `HasUri` are the rows that
update an item. `pc` is the run's next step: `save` (config.yml), `store` and
`write` (source.csv), `open`, and for every row `row`, `read`, `validate`,
`load`, `publish`, `log`. `copies` counts the resources created for a new item,
`dirty` are the existing items that differ from the file. A creation is one step
because it happens in one transaction (see `Transactions` for what that is
worth): an exception that is not a ClientError leaves nothing, unless only the
answer to the commit was lost. `Crash` is a killed process or a closed
generator.

Row selection keeps the code's arithmetic: the integer target, the step that is
truncated towards zero, strides from either end. Appending to a log is one step
(the file is line buffered).

### Publication

Of a description, `types` keeps the access classes `Published` and `Hidden` and
`handles` the handles of one item. `entry` is what the handle service has
registered for a handle: an item, nothing, or `Elsewhere` (the address an item
had before it was migrated); `current` are the handles whose target is the
item's public URL. A job goes through its list; `base` is the graph it read,
`hdl` the handle it will write, `pc` the request it sends next: `read`, then
`info` and perhaps `retarget` for the one handle of a description, `find` and
perhaps `mint` if there is none, and `patch`. `Apply` is the SPARQL Update: it
deletes what the job removed from the graph it read and inserts what it added,
in whatever the description is by then.

`WebJobs` end at the first error (activitystream.py); the others count a
`RepositoryError` and go on, and end at any other exception. `Before`, `Old` and
`Init` allow every state in which no two items share a handle to begin with.

Abstractions: a description with several handles takes the path of one with an
invalid handle, since the property is not repeatable; `find_handle` answers with
any handle registered for the item; the counter of errors is left out, because
nothing is decided from it; a PATCH is atomic at the server; an error status of
the handle service ends the job except in `create_handle`, as `publish()` catches
only that.

### UpdateJob

`stack` is what the recursion of `walk()` still has to visit below the current
URI, `left` the URIs it has not begun, `seen` and `skipped` the resources it came
to and those it took for missing. `applied` and `pending` count how often the
update is in the repository and in the open transaction; `Settled` in the
invariant is what the log is believed for. `opts` are the parameters of the
`UpdateJob` class. Not every combination can be reached from a command at this
commit: the command line parses `--no-transactions` and does not pass it on
(update.py:105), so a log without transactions occurs only where the class is
used directly, and the STOMP command passes no log.

Abstractions: the update does not change the predicates that are traversed
(with a model the code applies it to the graph in memory before it reads the
children from it); a HEAD and the GET after it are one step; a log line is one
step; `Children` is a sequence, so the order is fixed, while the order of the
URIs (a set in the command line's code) is not.

### JobDirectory

`ImportJob` follows one run after another; this module looks at the directory
itself. Each process runs one command (`create`, `convert`, `resume` or `show`)
in steps of one file operation: `config`, `source` and `log` are the three files,
each of which is `Absent`, `Empty` once it has been opened for writing, or holds
something. `proc[p].keys` is the set a process has read from the log at its
start. A log without its header line is read with its first row for a header,
and the rows below it have no `id` (`Unkeyed`). `Crash` may come between any two
steps. `overlapped` records that two commands that write have been at work at
the same time; nothing in the code keeps them apart.

`ImportJob` and `UpdateJob` take the creation of the log for one step; here it is
two, and a crash between them leaves a log without its header. The first line
appended to it by the next command is read as the header by the one after it, so
that item is created again: their bound "once more than there were faults" is
therefore one higher here while the header is missing (`HeaderLost`).

Abstractions: a row is its identifier; updates and publication are left to
`ImportJob`; every process has a `MetadataSpreadsheet` of its own; a line that is
half overwritten is `Junk`. A row is appended with one write to a file that is
buffered by lines, so it is there or not; a crash that tears a row in the middle
is left out, as is a `convert` that also replaces the file it has just written by
one that is given with the request (importcommand.py:268).

### PageSequence

An item of pages with files is created by one process (`creator`), in a
transaction or not, a request per step in the order of the code: members
container, page, files container, binary, description, link, proxies, and last
the item itself. `reader` is an export that follows `first` and `next` with a
request for every proxy. The `fixer`s run `fixpageorder`: each follows the chain,
puts the pages in the order of the numbers in their titles and relinks them with
one PATCH per proxy in a transaction, computed from what it has read. `prev` and
`next` are sets, since two PATCH requests may leave two values.

Abstractions: a page's title is its number, or has none (`numbered`); a proxy is
its page's; the server isolates the transaction (`txn`, `fixer[x].writes`).

### RepositoryCommands

`repo` gives each path its status (missing, live, gone: a tombstone), titles,
content and annotations. Each process runs one command; its `pc` is the next
request. `Send`, `Ask` and `Probe` are the three kinds of request: one that
changes the server (at once, or in the process's transaction `writes`), one that
reads, and a HEAD whose error status counts as "not there". `Ancestors` and
`Members` are what contains a path and what it links to; `walk()` follows the
latter with a stack. PUT refuses what exists, and what is or lies below a
tombstone.

Abstractions: the one property that set, replace and the web service edit is the
title; the update of `set` is the difference between the titles read and the
new one; `imgsize` reads and patches just as `set` does and is not there a second
time; the log of completed annotations is not there, because nothing writes it.

### RDFMapping and Descriptions

A graph is a set of triples; a URI is a base and a fragment, a literal a
sequence of tokens, a language and a datatype. `RDFMapping` holds what the
library computes: the values of a property (data properties keep the literals of
their own datatype, so that two may share a predicate), `set_properties`,
embedded objects, the types of a class (`default_values`, which the last
decorated base class decides, since `__init_subclass__` updates a dictionary in
resolution order), validation, and `change_uri`, whose string replacement
takes fragments apart when the old URI is empty, and takes every literal that
begins with the old URI and a `#` for a fragment of it (`IsHash`).
`EmbeddingAssumption` leaves out an object embedded into a resource whose graph is
empty, to which `if graph:` (resources.py:61) would give a graph of its own: the
resources of the module have types before anything is embedded in them.

`Descriptions` is the life of one item: `read`, `describe` (which shares the
resource's graph unless that is empty, `if graph:`, resources.py:61),
`attach_description`, `create_child`, `update`, with edits in between, another
client's changes (`foreign`) and PATCH requests whose answer is lost (`unsure`).

### Spreadsheet, BinarySources and ExportJob

`Spreadsheet` has the two directions of a row: `flatten` with its headers,
languages and INDEX, and `unflatten` with the lookup index, the file groups and
`split_escaped`. `BinarySources` says what each kind of place answers to exists,
open, digest, MIME type and upload, exceptions included: for example, an HTTP
source that exists cannot be opened, because `open()` returns a generator and
the caller uses it in a `with` statement.

`ExportJob` exports a list of URIs one by one: read, gather the files, write the
row in the sheet of its class, copy the files into the bag. A failure is
counted or ends the job, and one in the middle of a copy leaves a file that was
cut short, because it is opened for writing before its source is read
(`CutShort`). Then somebody may change one cell or one header (`EditCell`), and
each row is imported; or the bag is moved to a place and an item is loaded from a
row with its files (`Load`). So the properties are about the whole round trip:
`FilesArrive` about the bag that is delivered (`EveryItemArrives`) and the files
that are loaded from it (`LoadsAreSound`), `RowsComeBack` about the rows and the groups of files.

The round trip is about what a spreadsheet can carry at all: `PlainItem` asks that
no value holds a separator, an escape, a tag that is more than a word, or a
datatype that rdflib has no Python value for, and that an embedded object is a
fragment of the item; `PlainPages` asks that every page has a title and a root
name of its own. What happens outside of it is under "Disagreements"
(`AnyRowComesBack`). `Original` is the item as it was read together with the types of
what an import describes, which `set_properties` always adds.

A text is a sequence of tokens, which are strings, and the operators go through
it from the first token to the last, with recursive functions rather than folds,
so that they can be proved about. The assumptions on the constants are these:
separators and language tags are tokens that differ (`TokenAssumption`); a label
names one attribute, only embedded properties have nested labels, and two
headed attributes share a predicate only as data of different types, as in every
`HEADER_MAP` of the models (`HeaderAssumption`, `PropertyAssumption`); usage tags,
directories and extensions are told apart by how they are written
(`FileNameAssumption`); graphs are finite and made of triples
(`RepositoryAssumption`); a file's name is the item's directory, a root and an
extension that may be empty, as `os.path` takes it apart (`PageAssumption`); and
an edit is a change to the column of a basic attribute, whose `expect` is what the
text says under the header it now has (`EditAssumption`). Each class that has a
sheet has a type (`ClassAssumption`), so that no object is embedded into an empty
graph.

## Runs

| Run | Shows | Bounds |
|---|---|---|
| `daemon_safety` | `TypeOK`, `AckedIsSafe`, `SingleTask` (one task per file, and no repetition without a fault) and refinement of `JobMessaging` (`LedgerSpec`) | 2 commands, 2 workers, 2 faults |
| `daemon_liveness` | `AnsweredOrStuck` | 2 commands, 2 workers, 1 fault |
| `tx_context` | `EndTellsTheTruth`, `ThreadsEnd` | 2 requests, 2 faults |
| `import_resume` | `LogMatchesRepository` and `VerdictIsTrue` over up to 3 runs, `RunEnds` | 3 items (2 new, 1 existing), 4 files, one with a repeated item, one with other items and one with none, 0 or 50 percent, limits 2 and 9, 1 fault |
| `publication` | `HandlesSound`, `CompleteMeansPublished`, `OnlyAskedChanges` | 2 items, a job over both and a web request for one, 3 runs, 4 handles (1 old), 2 faults |
| `update_job` | `LogMatchesUpdates`, `CompleteMeansUpdated`, `RunEnds` | 5 resources in two overlapping trees, one missing and one invalid, 3 runs, 2 faults, every combination of options |
| `job_directory` | `DuplicatesNeedCause`, `VerdictIsTrue`, `JobCanResume`, `RefusedMeansDone` | 3 processes, 2 items, 5 sets of requests, 1 fault |
| `page_sequence` | `CreatedWhole`, `ChainIsSound`, `FixKeepsReading` | 8 sets of 2 to 4 pages, 2 files, 2 processes that fix, 2 fixes, 6 proxies followed, 1 fault |
| `commands` | `DeleteLogIsTrue`, `TreeIsClosed`, `EditsAreWhole` | 2 processes, any two of 21 commands, 6 paths, 2 faults |
| `descriptions` | `UpdateSynchronises`, `ValidationIsSound`, `EditsAreExact` | an item with one property of each kind, a value that reads like a fragment of its URL, 3 edits, 2 triples of other clients |
| `export` | `RowsComeBack`, `FilesArrive` | 2 different ones of 5 items, 3 kinds of failure at any step, 7 changes of a cell or header, 16 places |

A property with several parts is a conjunction of named ones, each with a comment
of its own in its module (`LogMatchesRepository` is `LogIsSound`,
`DuplicatesNeedFaults` and so on). The type invariants are checked in every run.

Two messages are the fewest with which results and outbox files can be mixed up,
two workers the fewest that interleave, and two faults allow a crash during the
recovery from a crash. Two requests distinguish a half-done body from a whole
one. Three rows with a repeated one distinguish "number of completed items" from
"number of rows"; three runs allow validate, import and resume; 50 percent of
three rows gives steps of two and, after a change of file, negative steps.
Two jobs and three runs let one publish while the other hides or unpublishes and
one of them retry; each run mints at most two handles. Two trees that share a
resource, with a child below it, are the smallest in which an update can be
applied twice by one run and lost below a skipped resource. Three processes are
a command, the same command again and somebody who resumes; one fault leaves a
torn file that the next process meets. Four pages are the fewest of which three
behind the first can be in the wrong order; the other row sets have a gap, a
repeated number, a label without a number, a page 0 and a first page that is not
page 1;
following six proxies tells a loop from a chain of four. Any two of the commands
meet on one resource, above one another, or through a link that is not
containment. Of the three rows of `stub` two have a file, so that two can be
written and a second one that is not whole would be noticed; the third fails on
the way. Each of the five items of `export` has something a spreadsheet finds
hard: languages, two embedded objects, separators, a title without page number,
a datatype, an identifier another item has too; pairs of them share sheets,
columns and directories.
The symmetries are sound: `daemon_safety` and `publication` check safety
properties that treat messages, workers and new handles alike. All
configurations switch the deadlock check off: a daemon with nothing to do, a
transaction that is over, a job nobody starts again and a command that is done
are at rest.

### Disagreements with documentation and comments

The run `daemon_two_workers` is expected to end with a counterexample to
`OwnResult`: there is one `MessageProcessor.result` for all threads (`findings` in
`PROJECT.json` quotes the comment). These definitions say what other comments
and documents promise, and do not hold either; they stay in their modules under
"Does not hold", and TLC shows a counterexample when one is named as an INVARIANT
or PROPERTY in the configuration in the last column:

| Definition | Promise | What the code does | Configuration |
|---|---|---|---|
| `Processed` | listeners.py:66, the watcher responds to the stored file | the watcher may read a file that is not written yet | `daemon_liveness` |
| `HealthyIsCommitted` | transactions.py:72 | the keep-alive may wake in the middle of `commit()` | `tx_context` |
| `LoadGoesOn` | load.py:265-269 | `transaction()` commits after `load_item` rolled back | `tx_context`, `CommitsItself = TRUE` |
| `AllPublished` | importcommand.py:178 | unchanged items are not published | `import_resume` |
| `LogIsTrue` | update.py:55 | resources are logged before their transaction is committed; `LogIsTrueUnlessLost` says how much can be wrong | `update_job` |
| `FixedIsSorted` | fixpageorder.py:18 | `first` and `last` are not updated; numbers with gaps are cut off; of a repeated number one page is relinked | `page_sequence` |
| `AnyRowComesBack` | plastron-models/docs/CSVSerializer.md:112-113 | separators and backslashes are not escaped, some tags and datatypes are not read back | `export` |

Seen while modelling, and in the models where they matter, without a run of
their own:

- outbox files are named for the job (handlers.py:24), so two commands for one
  job overwrite or remove each other's stored response; the daemon's properties
  therefore assume `UniqueJobs`;
- a half-written outbox file raises in `on_connected` at every start, and
  the daemon then never gets to its inbox (`AnsweredOrStuck` says "or stuck");
- `Client.request` turns a connection error into a RuntimeError, so `commit()`
  raises that instead of a TransactionError, and the keep-alive thread, which
  catches only TransactionErrors, dies of it unnoticed;
- an import ends at any exception other than a ClientError while it creates an
  item, or other than a RepositoryError while it updates one, with the row in no
  log; above 50 percent the stride between rows is one;
  resuming over STOMP overwrites source.csv with the message's body even if that
  is empty;
- a crash between the opening of the completed log and the writing of its header
  leaves a log whose first line is taken for the header (the item is created
  again), and which cannot be read from the second line on, so that the job cannot
  be resumed; two commands at once truncate each other's log;
- `publish()` corrects the target of a handle it finds in the description, but
  not that of one it finds at the handle service (publish.py:73); of several
  handles two jobs delete those each has read (publish.py:88); a handle minted in
  a transaction that is rolled back stays registered (importjob/\_\_init\_\_.py:597);
  an item that is updated but whose publication fails is not published by a later
  run (importjob/\_\_init\_\_.py:534);
- an inner `transaction()` resets the client of the outer one
  (repo/\_\_init\_\_.py:128); no caller nests them at this commit;
- `walk()` takes every error of a HEAD request for a missing resource, does not
  end if a resource is below itself, and does not pass `include_tombstones` and
  `min_depth` on to the resources it goes down to;
- two processes that `set` a title at the same time leave it two values, and two
  that each set it twice may leave it none: each reads both values, deletes the
  other's and does not insert its own, which it has read (`TitlesBounded` says
  what remains true: an edit that nobody else asks for is not lost with all
  others); two that annotate a page may both find no container for annotations (pcdm.py:40),
  and the second is refused;
- when a request of stub fails it says "not created" (stub.py:165), and the end
  of the `with` statement commits the part that was created; a missing file
  raises a `BinarySourceNotFoundError` nobody catches; extractocr never writes
  the log of completed items it reads;
- values in several languages are exempt from `values_from` and `validate`
  (properties.py:170); the triples of an embedded object stay in the graph when
  the property is set again; a blank cell of an embedded property does not clear
  it;
- a column "Header {Datatype}" is accepted and ignored; values of datatypes
  unknown to rdflib are exported as "None"; titles of pages with ":" or ";" break
  the FILES cell; items with one identifier share a directory of the bag;
  exportjob.py:264 says "log the failure, but continue", but what a failing
  request raises is mostly not what it catches and ends the job: a `partial_export`
  comes only from a body that is read after its headers (`response.text`,
  `response.content`), where requests' own ConnectionError gets through;
  its spreadsheet names files that are not in the bag, or are there empty;
- a file in an HTTP place passes validation and then raises a TypeError; a zip
  archive that is not there ends the run out of the validation; over SFTP the
  digest of a missing file raises an IndexError; `except (A | B)`
  (files/\_\_init\_\_.py:96) raises a TypeError.

### Fairness

`StompDaemon`: the receiver, the watcher and each worker take steps when they
can (operating-system threads); the broker delivers what is queued to a
listening subscriber; a queued task is taken by some worker; commands end; a
daemon that exited is started again by its supervisor. Nothing makes clients
post, and nothing has to fail. `Transactions`: both threads are scheduled and
each request gets an answer or an error (the session raises when the connection
fails). `ImportJob` and `UpdateJob`: a run in progress goes on; nobody has to
start another, and nothing has to fail. `JobDirectory`: every process goes
on until its command ends; none has to start with the others. `PageSequence`: the
creator, the export and a `fixpageorder` that has begun go on; nobody has to begin
one. `Publication`, `RepositoryCommands`, `Descriptions` and `ExportJob` state no
liveness property: they are loops over finite lists whose every step ends.

## Proofs

`StompDaemonProofs`. `DaemonInv` is inductive when no two commands name one job
(`UniqueJobs`; without it a response may overwrite another that was not sent).
`AckedIsSafe`
alone is not inductive: one has to know what each thread relies on between its
steps. `Quiet` and `Exclusive` say that a message is in at most one of
`created`, `pool` and the hands of one worker, and that its file is there
meanwhile; `ReceiverHolds` and `HoldsFor` say where the message is while
`on_message` and the callback are half way (for example: before the inbox file is
removed, the response is in the outbox or was sent); `SecondTask` handles the
one way a message is processed twice, its redelivery after a lost connection;
`OutboxKeyed` says that responses lie under their own job. From it follow
`NoJobLost`, `OneTask` and, step by step, `Implements`: each step of the daemon
is one of `JobMessaging`'s or a stutter. `TypeCorrect` needs no assumption.
`NoCommandTwice` (both halves of `SingleTask`) adds `FaultFree`, what is true as
long as nothing has failed: an undelivered command has left no trace, a command
is delivered once, and a worker that sends a response is the only one that knows
of its command, whose file is gone.
`OneWorkerOwnResult` is the other side of the run `daemon_two_workers`: with one
worker the shared result is always the right one.

`TransactionsAndPagesProofs`, on `Transactions`. `TxInv`: once a commit is under
way the body is whole or the request will be refused (`CommitIsWhole`);
`transaction()` rolls back exactly for a ClientError (`RollbackForClientError`);
the exception that leaves agrees with the server (`LeftAsEnded`). `FailureIsReal`
assumes `~CommitsItself`.

The same module, on `PageSequence`: `PagesInv` is proved for items of any size and
chains of any length. `Shown` is what holds of an item whoever looks at it, on the
server or in the creator's transaction: nothing refers to what is not there, and
a first page comes with everything else. Whether the next request keeps it
depends on how far the creator has come: `Progress` accounts for every page
before the current one (`PagesMade`), for the files still to be attached
(`FilesAttached`), and for the links once all proxies are there (`Linked`).
`Fresh` is the chain as it was made. A reader or a fixer that holds a page has
found the item visible, so the creator is through with it (`FixerHolds`,
`ReaderInv`). `Alone`: while no two runs of `fixpageorder` overlap, what the one at
work has read is still so, and hence the difference it sends leaves each page one
successor. `OnChain` is what an undisturbed export has read so far.

`ChainSound` needs that a chain of single successors that ends has no page twice.
This is an induction at first sight; the proof takes the last page that was there
before (`Greatest`, from the well-foundedness of the naturals), and the one after
it would be another. That the positions `fixpageorder` looks up are those of
proxies it has read is a counting argument (`RankExists`): every rank below the
size of a finite set of numbers is that of one of them. `ReadWhole` had to be
corrected for the proof. It used to say that an export reads what a chosen walk
along the chain gives, up to `MaxFollow`. Where two runs of `fixpageorder`
overlapped, a page may have two successors, and the export need not take the
chosen one: TLC finds this with three runs, and the bounds of `page_sequence`
are too small for it. Now it says that what was read is a chain from the first
page to an end, complete where nobody relinked it and without a page twice
where no two runs overlapped.

`FixedPagesSorted` is the action property `FixSorts`: where the numbers of the pages
are 1, 2, 3 and so on, each once, and the first page has the first, a run that
none overlaps and that commits leaves all pages in one chain in the order of
their numbers, whatever runs before it did, stopped at or failed with. Its
invariant `OrderInv` says that the chain is at any time in one of two orders, the
one it was made in or that of the numbers (`Orders`), that a run reads the pages in
this order and has read them all at the end (`HasRead`, `AllRead`), and that behind
the position it has come to every page leads to the next number already or is in
`writes` with it (`HasPlanned`). What is looked up by position is then the page
with this number (`SortedByNumber`). `Sorted` says this with a path through all
pages; it used to follow the chain with a recursive function as far as `MaxFollow`,
which said less, because a page might have led to a second one.

`ImportJobProofs`. `ImportInv`: a row is worked on only while its item is not in
the log (`RowInHand`) and resources beyond those the log accounts for were paid
for by faults (`CopiesPaid`). `RunInv`: the rows behind the current one have been
dealt with (`RowsBehind`), a validating run never reaches the load stage
(`LoadsIfAsked`), and a verdict stands until the next run (`Verdict`).
`CompleteIsComplete` uses cardinality facts of `FiniteSetTheorems`.

`UpdateJobProofs`. `UpdateInv`: outside a transaction nothing is pending
(`PendingOnlyInside`); what is about to be logged has been sent
(`SentBeforeLogged`, which contains `LogIsTrueUnlessLost`); what is on the stack
and in the transaction is below one URI (`OneUri`), so that a lost transaction can
be charged to that URI; a resource that is not in the log has been updated only as
often as something failed (`UpdatesPaid`); and everything `walk()` owes is in
`left`, on the stack or in hand (`WalkCovers`, with `RunShape`). The last is the
loop invariant of the recursion, and it needs two lemmas on sequences
(`RangeOfPop`, `RangeOfConcat`).

`PublicationProofs`. `NoSharedHandle` alone is not inductive, since a job may
write a handle it chose long ago. `ClaimsAreUnique` therefore counts a handle as
an item's if it is in the description, registered for the item, or held by a job
that is busy with the item; no step but minting makes a new claim
(`NoNewClaims`), and minting claims a handle nobody knew (`MintClaims`). From it
follows that a minted handle is never registered for another item
(`MintedKept`), hence `OneMintPerJob`. `PublishedSoFar` is the invariant of a
job's loop: if nobody unpublishes, a count that has kept up with the place in
the list means that every item before it is published, and a PATCH computed from
a stale graph takes nothing back.

`DescriptionsAndExportProofs`. `SynchronisedByUpdate` needs that what the resource
remembers as original differs from the server only in what others or a PATCH
without an answer changed (`OriginalIsServers`), and the same of a description
that a `read()` left behind and that may be attached again (`LeftBehind`). It
does not depend on what the mapping computes. The other three theorems do.
`GraphsHold` strengthens `TypeOK` to `ProperInv`: every graph is finite, and is
free of the empty URI unless it is that of a description under the empty URI
(`UnderBase`). Finite graphs are needed for counting: `AcceptedIsSound` shows that
a property that is not repeatable has one value per language, from a comparison
of two cardinalities, so that the languages tell the values apart. The empty URI
is special because `change_uri` replaces nothing else in part; where nothing
stored has it, and no literal reads like a fragment of the old URI (`IsHash`), a
created resource is what was described, moved to its URL.
`EditsExact` shows this, and that setting a property leaves every separate one
(`Separate`) alone. The attempt to prove it for all properties, as it was stated
before, failed: two properties that the same predicate and kind make one are not
kept apart, and the models declare such a pair (an Article's `issue` and the
`member_of` it inherits, both on `pcdm.memberOf`). The theorem's hypothesis, that
`Absent` is not a graph, is one on the value chosen for "no resource". What
`default_values` computes over the classes is not proved; the proofs use only
what `TypesAssumption` says of it, and TLC evaluates that on the instance.

The module then proves about `ExportJob`, whose names begin with `Export` where
both have one. `ItemsArrive` counts: the items behind the job that have not
arrived (`LostItems`) are no more than the errors (`LossesCounted`). That holds
turn by turn because at the end of a turn no item but the one at hand can be lost
anew (`OnlyThisIsLost`), even one that is listed twice: writing a file, whole or
cut short, leaves every other file that has a name of its own (`FileIsWritten`).
`CopiedSoFar` says during a copy which files are there already, and `AllCounted`
that exported and failed items together are those behind the job, so that the
verdict is the count of errors. `RowsAreLoaded` rests on what the sources of a
place answer: what exists can be uploaded, except over HTTP (`ExistsAnswers`,
`UploadAnswers`). These proofs do not need to know what `flatten`,
`FilesCell` and `build_file_groups` compute, only that a row depends on the item
alone. They assume that `Uris` and `MODEL_MAP` are lists; `Uris` may be empty and
repeat itself. They made three corrections: the job's verdict on an item is now
one property with a count, where the run used to say of a delivered bag that it
lacks nothing, true only because no failure that the job survives was
among those checked; a file may be cut short; and a row without files at item
level no longer names an empty one.

`RowsReturn`, in the same module, does need to know it. Its invariant is small:
`ImportedInv` says that whatever an import has made of a row is what it would make
of it now (`ImportOf`), because neither the repository nor the rows change after
the export, and an edit comes before all imports. All else is about operators, in
three layers.
The first is induction. The library's induction theorems take an operator as a
parameter, which the provers cannot instantiate, so `NumberInduction` and
`SequenceInduction` are stated about sets: a set of lengths that contains 0 and
with each number the next contains all, proved from the least number that is
missing. `SequenceRecursion` follows: a function defined by recursion on the
front of a sequence obeys its equation everywhere. `PiecesStep`, `JoinStep`,
`GroupedStep`, `ThoseUpTo` and `FlattenUpTo` apply it.
The second is the algebra of cells. `SplitOfJoin`: splitting undoes joining when no
part holds the separator; when there is no part at all it gives a blank one, and
blank ones are dropped. `CellComesBack`: the values of a property, flattened and
read again, are the same set, languages included. `ParamsComeBack` and
`ObjectsComeBack`: the n-th pieces of the columns are the n-th object, the
position in INDEX gives it the fragment it had, and objects with the same
fragment are the same. `ItemComesBack` puts the attributes together: setting the
properties that were read replaces, for each predicate and kind, just the triples
that were there.
The third is the file cell. `ParseSpec`: parsing what a FileSpec prints gives
its label, usage and name, when the label holds no colon. `GroupGrows` and
`GroupsOfPages` go through the pages in order: the files of a page whose root is
new make one group with its title, and later pages leave that group alone.

`UneditedReturns`, `EditsReturn` and `PagesReturn` are the three parts. The proofs
found that `rootname` has to drop the extension after the last directory only,
that `PlainPages` must not have a root that is the separator itself, and that
`Original` is incomplete without the types of embedded objects; TLC's instance
was too plain to show any of these.

`RepositoryCommandsProofs`. `TreeIsClosed` alone is not inductive, since a create
decides which ancestors to put long before it puts the path. `Covered` says of
every path a process is going to put that each ancestor is there (or has left a
tombstone), will be put before it, or is still to be checked; no request of
another process can undo the first, because a path that was removed leaves a
tombstone and PUT is refused below one. `TreeAssumption` is what is needed
of containment: the ancestors of a path are listed nearest first, with their own
after them, and the tree is closed to begin with. `DeleteLogIsTrue` rests on two
more facts. `Seen`: what `walk` is about to read or delete was found, so a DELETE
that succeeds leaves a tombstone, and a path that has one is never put again.
`LogPaid`: every resource that the log names and that is still there was paid for
by a request that failed, so there are no more of them than faults.
`EditsAreWhole` is proved from what one step may do (`StepEffect`): a process
goes on with its arguments (`Onward`), and what reaches the server are requests
its command was called for, on the argument at hand, computed from what it read
(`Request`), whole where there is a transaction (`WholeEdit`). `Ready` is what
each process keeps for that; one lemma per action shows that its step is one of
these, and the invariants about titles, names, annotations and rows look at
nothing else. `TitlesKept`: until the first edit reaches the server all visitors
have read the one value there is (`Untouched`); afterwards the values are among
those asked for, and one that a single edit asks for is not there before that
edit (`Touched`). The proof attempt showed that without `AskedOnce` a title
can lose all its values, and TLC then found the interleaving on the instance
that has `set` commands with two arguments. `NamesKept` adds to `TitleIsName`
that whoever replaces the file has read the name of the one that is there;
`RowsKept` blames each row that is written and not whole on one process, which
is at the end of that row or has ended there, so that there are no more such rows
than processes.

`JobDirectoryProofs`. `DuplicatesNeedCause` counts, so its invariant is an
account. `CopiesPaid`: while no two commands overlap, the copies of an item
beyond the faults are those which the log, or the command at work, still knows
of. `KnowsLog` and `LogAsSeen` say that the keys in memory and the lines on disk
agree for the one command that is at work (`OneCommand`), and `PaidTogether`
bounds what overlapping commands can create, each at most once per item: a sum
over processes, with `FiniteSetTheorems`. This proof is what showed that the
bound has to count a lost header.

`VerdictIsTrue` and `JobCanResume` need to know what the one command at work can
rely on. `KnownLoaded`: what is in the log, among the keys a process has read, or
in its hand after `LoadItem`, is in the repository. `InOrder` follows the files
from the command that wrote them to the one that reads them: the source holds the
batch that was converted or the file that was given (`BatchOf`), the rows of the
process at work are those of the source (`Work`), and a process before its last
row has not counted more keys than the rows behind it. A complete verdict then
has as many keys as rows, and all keys among the rows, hence all of them: a fact
about cardinalities, with `FiniteSetTheorems`. `Usable`: as long as no command
has crashed, the configuration, the header of the log and the source are whole,
or are being written by the command at work. Two statements had to be corrected
on the way, and TLC confirms both: the clause about the batch holds for a
conversion that has been carried out, and not for one that was refused or has
not begun; and a file without rows leaves an empty source just as an empty file
does. The proof also rests on a fact that `RequestAssumption` now states: a
`create` command has a file (importcommand.py refuses one that has none before
it makes the job).

The assumptions are those stated on the constants in each module, and
`UniqueJobs` or `~CommitsItself` where a theorem names it. Each property that a
run checks and that is a conjunction is also proved as one
(`LogAndRepositoryAgree`, `VerdictHolds`, `HandlesAreSound`,
`LogAndUpdatesAgree`, `EndIsTrue`, `EditsWhole`, `VerdictsAreTrue`, `JobsCanResume`,
`EditsExact`, `ItemsWhole`, `ChainSound`, `FilesHaveArrived`, `RowsReturn`), so
that every invariant of a passing run has a theorem. Left to TLC are the liveness
properties (`AnsweredOrStuck`, `ThreadsEnd`, `RunEnds`, `RefusedMeansDone`,
`ReadEnds`), since liveness under fairness is out of the prover's reach, and with
them that a walk ends for every acyclic structure.

## Not modelled

- The load command beyond the commit in its `load_item`: its batch calls
  `create_members`, `create_annotations` and `build_sparql_update` of the client,
  which do not exist at this commit, so that it ends with an AttributeError.
- Content models, vocabularies, namespaces and environment: declarations without
  state. `MCDescriptions` and `MCExportJob` instantiate the mapping with the kinds
  of property they declare.
- OCR, METS, ALTO and spreadsheet parsing: functions from documents to values.
  What is done with their results is in `RepositoryCommands` (annotations) and
  `JobDirectory` (NDNP batches).
- The directories of runs and the drop logs as files: each run makes its own and
  nothing reads them back.
- The synchronous STOMP destination clients use, the listing of jobs, imgsize and
  the commands that only read or pass parameters on.
- The syntax of CSV, SPARQL, headers and URLs, and the transfer of bytes.
- Access control lists, and the type checks of resource subclasses.

## Plan

What this project could grow by, in order:

1. One composition of `StompDaemon` and `JobDirectory`: a command that is
   delivered twice while the first delivery is still at work.
2. One of `ImportJob`, `Transactions` and `Publication`: the handle minted in a
   transaction that is rolled back.
3. `ImportJob` as an implementation of an abstract loader, and
   `Descriptions` as one of a set of triples that is edited.
4. A variant for `ReadEnds`: from `OrderInv`, the pages still ahead of the reader.
