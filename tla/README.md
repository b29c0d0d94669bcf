# AuthenticationService: a TLA+ verification project

AuthenticationService is a C program that issues and validates JWT tokens over
HTTPS and lets an operator administer the users from the terminal.  It runs
three threads over one MongoDB connection.  This directory holds TLA+ models of
the program, TLC configurations that check them on small instances, and proofs
that TLAPS checks for instances of every size.

Run in this directory: `tlc -config MCLifecycle.cfg MCAuthService` (any `.cfg`
with the module named in the table of runs), `tlapm AuthServiceProofs.tla`.

## 1. Inventory

### Components

**Process life cycle** (`main.c`, `threadsdata.h`).  State: the mutex
`threadData.stopper`, the set of blocked signals, the mongoc handles, the two
thread identifiers.  `main` opens the database, blocks SIGINT, SIGQUIT, SIGTERM,
SIGUSR1 and SIGCHLD, takes the mutex, starts both workers, sleeps in `sigwait`,
unlocks the mutex, joins both workers, destroys the handles.  The locked mutex
means "go on"; `NeedQuit` is a `trylock` that succeeds once main has unlocked.
*Correct when*: the release reaches both workers however they interfere on the
mutex; no worker quits without main; every signal sent reaches `sigwait`; the
handles outlive every user of them; a stop ends the process.

**Administration thread** (`cli/cli.c`, `utils/utils.c`).  State: the line
buffer of the command in progress, the two collections.  Ten commands; those
that take data prompt for it in loops that poll `NeedQuit` and
`InputAvailable`.  *Correct when*: only what the operator typed is stored;
identifiers and service lists stay sets; a stop is seen at every prompt.

**Network thread** (`server/server.c`, `NetInterface`).  State: the listening
socket and its queue, the epoll descriptor, the one connection being served.
*Correct when*: each accepted connection is closed on every path; a failure to
set up reaches main; a stop is seen between connections.

**Token handlers** (`AskToken`, `ValidateToken`, `server/jwt.c`).  State: the
document a query yields, the answer under construction; between requests the
server remembers nothing, a token carries the whole document.  *Correct when*:
only a token of this service that still equals the stored document is accepted,
and every answer is the right one at some instant of its request.

**Database handles** (`database/database.c`): client, database, two
collections, shared by both workers without a lock.

**Request parser** (`server/request.c`) and **association lists**
(`header_list.c`, `query_list.c`, `handlers_list.c`).  State: pointers into
`recBuf`, which serves one connection after the other, and the
`RequestParam_s` under construction.  *Correct when*: a whole request is parsed
to what its sender meant, a cut one to no more than that, both reach the handler
registered for them, and nothing but a malformed text leads a pointer astray.

**Response construction** (`server/response.c`).  State: the string printed so
far, `sendBuf`.  *Correct when*: status line, headers, empty line and body come
in this order, a token that is too long loses only its own end, and SSL_write
sends all of what fits and nothing else.

**Base64** (`server/base64.c`).  State: loop counters and an output buffer whose
size the caller computed beforehand.  *Correct when*: decoding inverts encoding,
and neither leaves its buffer.

**SHA-256 and HMAC** (`sha/`, `hmac/`).  State: `struct Sha256_s`, a block that
fills over several calls, a bit count.  *Correct when*: what gets compressed is
the padded message, however it was cut into calls, and HMAC is the construction
of RFC 2104 for keys on both sides of the block size.

**Test client** (`client.c`).  State: a socket per try, one receive buffer, the
loop variable of the tries.  *Correct when*: it shows the answer to this try or
none, closes its sockets and gives up in the end.

### How they interact

```
 operator --lines, EOF--> Cli ----insert/delete/update/find----> usercol, servcol
     |                     |  ^                                        ^
     | Ctrl+C      SIGUSR1 |  | trylock (NeedQuit)                     | find
     v                     v  |                                        |
    main --- unlock stopper --+------ trylock ----------------> NetInterface
     ^                                                             |   ^
     +----------------------- SIGUSR1 -----------------------------+   | TLS
                                                                     peers
```

### What is hard

* The mutex is a broadcast flag which the readers themselves lock for a moment:
  a worker that polls can make the other one see "go on" after the release.
* Signals come from the operator and from both workers at any time, before
  `sigwait`, twice, or during the shutdown.
* A worker may end by itself (a failed set-up, `exit`, a failed `epoll_wait`),
  and each end takes a different path to main, or none.
* A prompt abandoned by a stop, or cut by the end of input, runs on into its
  driver call with whatever its buffer holds.
* Both workers use one `mongoc_client_t`: overlapping calls race.
* A token is a copy of a document that the administrator goes on changing, and
  names are not unique.
* `SSL_accept`, `SSL_read` and `fgets` wait without a limit.
* `SSL_read` is called once: it may bring the beginning of a request, into a
  buffer that an earlier and longer request has used.
* The parser searches a text that strangers write, for single characters and
  beyond the part it is looking for: what is missing in one part may be found in
  another, or not at all.
* `select` looks at the kernel, `fgets` takes from the buffer of stdio.
* Sizes are computed in one place and relied on in another: `decSign`, `sendBuf`,
  the base64 buffers, the block of SHA-256.
* The client learns of a lost connection at some later call, by one of several
  return values that C takes for true or false.

`PROJECT.json` lists each hazard at its line, with the properties aimed at it.

## 2. Modules

| Module | Stands for | Extends or instantiates |
|---|---|---|
| `Process` | mutex, signals, handles, life of the process | - |
| `UserStore` | the two collections through the driver calls `src/` makes | - |
| `Cli` | the administration thread and its operator | `Process`, `UserStore` |
| `NetInterface` | the network thread and its peers | `Process` |
| `AuthService` | `main()`, composed with both threads | `Cli`, `NetInterface`; `Lifecycle` as the abstract specification |
| `Lifecycle` | what main promises about workers and handles | - |
| `Tokens` | requests, tokens, verdicts | `UserStore` |
| `TokenAuthority` | what a client is promised: one decision, at one instant | `Tokens` |
| `TokenService` | the handlers step by step beside the administrator | `Tokens`; `TokenAuthority` as the abstract specification |
| `RequestText` | requests as meant, and the text written for them | - |
| `ParamList` | the association lists | - |
| `RequestParser` | `request.c` on what one SSL_read brought, and the look-up of a handler | `RequestText`, `ParamList` |
| `JwtSign` | `CheckJwtSign`, with `decSign` and what lies behind it | `RequestParser` |
| `Response` | the answers of the handlers, `response.c`, `sendBuf`, SSL_write | `JwtSign` |
| `RunMethod` | one connection from accept to SSL_write: the composition of the four | `Response` |
| `Base64` | `base64.c`, one step per round of its loops | - |
| `Sha256` | `sha.c`: init, process, final on one struct | - |
| `Hmac` | `hmac_sha2.c` | `Sha256` |
| `Client` | `client.c` | `NetInterface` |
| `Terminal` | standard input between the kernel, stdio and `userInput` | `LineQueue` as the abstract specification |
| `LineQueue` | what the operator is promised about his lines | - |
| `MCAuthService`, `MCTokenService`, `MCRunMethod`, `MCBytes`, `MCClient`, `MCTerminal` | values for the constants; `MCBytes` runs the three modules on bytes side by side | |
| `UserStoreProofs`, `AuthServiceProofs`, `TokenServiceProofs`, `BytesProofs`, `RequestParserProofs`, `RunMethodProofs`, `ClientProofs`, `TerminalProofs` | lemmas, theorems and proofs | `TLAPS` |

### State and actions against the code

*Process.*  `stopper` is the owner of the mutex.  `Raise` is `kill(mainPid, s)`:
the signal stays pending while blocked and ends the process otherwise.  Standard
signals do not queue, so `pending` is a set; SIGINT, SIGQUIT, SIGTERM and
SIGCHLD are treated alike by main and are one value.  `proc` tells how the
process ended: `main` returned, `exit(1)`, a signal's default action, SIGPIPE
(outside the blocked set), a crash.

*AuthService.*  `mainPc` names the call of `main()` in progress, one action per
call.  Returning from `main` ends the process with whatever thread still runs.

*Cli.*  `cliPc` is the loop, the prompt or the driver call; `cliAt` is the
position in the polling loop every prompt repeats:
`test` (NeedQuit's trylock), `quit` (between trylock and unlock), `poll`
(`InputAvailable` with its sleep), `fgets` (select has reported a part of a
line).  The code behind the loop runs whichever way the loop ended, with
`userInput` as it is: `LeavePrompt`.  `Cut` is
`userInput[strlen(userInput)-1] = '\0'` after an `fgets` that returned nothing.
Each driver call is one action, its completion.

*NetInterface.*  `netPc` is the call in progress.  `conn` follows what the peer
of the accepted connection has done; `backlog` counts waiting connections.  The
request is what it makes the thread do: `find` queries `usercol`, `nofind`
answers without a query, `malformed` makes the parser run off its input, which is
undefined and may crash the process or produce any answer.

*TokenService.*  `pc` moves through `AskToken` and `ValidateToken`, one action
per check or query.  `issued`, `removed` and `removedAtOpen` are history
variables.  `ask.arg` is the name asked for or the body sent: a token issued here,
one signed with the key over a payload that is no user document, one with any
part replaced, or none.

*RequestText.*  A text is a sequence of `Words` and of the `Marks` the parser
looks for.  Which words there are and what they stand for in a request are
constants.  So are the `Senders`: each has its methods, the marks it puts behind
the names of parameters and headers, its lengths, and bounds on the number of
parameters and headers (`RequestsOf`).  A sender may get a request wrong: a parameter may
lack its `=` or its value, a header its `:`, a length may be any text that `atoi`
takes.  `TextAssumption` says what no sender does: headers and bodies hold no ends
of lines of their own, values of headers do not begin with a blank.  `MethodOf` is
the comparison of `request.c:36` and `40`, which looks at how a word begins, so
that several words are one method.  `Behind` is what stands behind the first line,
where `GetRequestPath` and `GetQueries` look too; `StrayQuery`, `Equals` and
`Colons` name the requests for which that, or a missing mark, matters.

*RequestParser.*  Position `Len + 1` of a text holds its NUL.  `ptr` is the
pointer the loops over parameters and headers advance, one step per round.
`strtok`, `strchr`, `strcspn` and `strspn` are `Starts`, `NextOf` and `After`.  A
pointer that is read behind the NUL, or a NULL that is written through, ends the
behaviour with its `fate`, since anything may follow: `noValue` (a parameter
without `=`), `noColon`, `noEmptyLine`, `badLength` (a size no `malloc` serves).
`Reads` brings any beginning of any request and leaves what `text` holds behind
it: clearing the buffer is the business of `Accepts`, the memset.

*JwtSign.*  `Data` are the words for "header.payload" of the tokens there are; a
signature is a word of 40 characters and one of 4.  Several words decode to one
signature: `SignHead` and `SignEnd` give for each datum the sets of words that do,
no word for two data.  Of the last group only two bytes are the signature's; the
third is whatever the word leaves over, and nothing compares it.  `stack` is what
the decoder has written of `decSign` and behind it.

*Response.*  A text is the pieces it was printed from and its length in
characters; `++` prints one text behind another.  The buffer's limit is the
code's, 4096; `Cut` is what `strncpy` has room for, in which a token that is too
long is a piece `"cut"` and no longer the token.  The length of a token is that of
`ConstructJwt`.  Database
and cJSON answer as they like: `AskToken`, `ValidateToken` and
`ValidatesPayload` choose among the exits of the code.

*Base64.*  A byte is its number.  Shifts and masks are divisions and remainders;
a buffer is the sequence of what has been written to it.

*Sha256, Hmac.*  A byte is a term that tells where it came from, `hashed` is
everything given to `Sha256Compress` so far.

*Client.*  Each call of `AskServer` is an action.  `Mine` tells whether the
connection the network thread serves is the client's; a broken connection is
noticed by each side on its own.  The network thread may fail to start and may end
at a failed `epoll_wait`; main hears nothing of the latter, so that the listening
socket stays open, with nobody to accept, until the service is stopped.

*Terminal.*  `input` says whether standard input is a terminal or a pipe, and how
long its lines get.  A character is its line and its place in it, so that a
character in the wrong answer is seen.  `Waiting`, what `LineQueue` holds, are the
lines entered and not yet answered.  On a pipe, or with lines that do not fit the
buffer, the code keeps no such promise, and `Kept` shows `LineQueue` nothing.  `Refills` is stdio's `read()`, `Gets` moves one
character, `HandsOn` is the cut at `strlen - 1`, whatever stands there.

### Abstractions

* Texts are values.  Names, services, identifiers and options come from disjoint
  small sets; `"cut"` stands for any text that has lost its last character.
* In `Cli` at most one line waits on standard input, and the end of input comes
  while none does.  Lines typed ahead are the subject of `Terminal`.
* A driver call takes effect when it completes.  A call that reports an error
  may have taken effect or not; one that overlaps the other worker's call on the
  shared client, or comes after `DestroyDb`, may also crash the process.  A
  successful call's documents are visible at once.
* In `Tokens` a signature is a free constructor and encodings are left out: a
  token is its header, payload and signature.  In `RunMethod` it is text again,
  and what database and cJSON say of its parts is any.
* `Sha256Compress` is a free function of the blocks it was given.
* JSON text, the allocation of list nodes and the files of certificate and key
  are left out.
* A request is cut between words, not within them, and `malloc` serves every size
  up to the largest int.
* `Cut("")` changes nothing, where the code writes `userInput[-1]`.  SSL_accept
  that fails is a peer that left; that it or SSL_shutdown meets a reset
  connection, and SIGPIPE comes from there and not from SSL_write, is left out.
  `NeedQuit` has an `exit` for errors of `trylock` that a valid mutex never
  returns; it is left out.
* `msgLen` is an `int` in the code and a number in `Sha256`: what is hashed here is
  shorter than `recBuf` and far from its limit.
* `RunMethod` follows one connection; earlier ones appear as `Leftovers`, what
  they may have left in `recBuf`.  Its requests are shorter than `recBuf`.
* `mongoc_cursor_next` yields documents in natural order, which is insertion
  order for the collections used here.
* Failures of `malloc` are left out; the failures of the platform that the code
  tests are members of `Faults`.
* A second run of the process is modelled by `InitialUsers`, the documents it
  may find.

## 3. Runs

The bounds named below are constants of the modules.

| Run | Instance | Question | Result |
|---|---|---|---|
| `lifecycle` | 3.9 million states | Do the mutex, the signals, the joins and the handles keep their order under every interleaving, with faults in `InitDb`, the mutex, the first `pthread_create`, set-up, epoll set-up, `accept` and driver calls?  What can abandoned, cut, failing and racing commands leave in the collections? | holds, and implements `Lifecycle` |
| `shutdown` | 59 thousand states, liveness | Does a signal always end the process, and is each accepted connection closed? | holds with cooperative peers and operator |
| `tokens` | 207 thousand states | Which tokens may be accepted while users are added, deleted, re-created and updated between any two steps, and is each answer owed at some instant of its request? | holds, and implements `TokenAuthority` |
| `serve` | 2.3 million states | What becomes of requests, whole or cut anywhere, in a used buffer, with paths and parameters where they do not belong, methods that only begin like one, a `=`, a `:` or a value left out, absurd lengths, several texts of one signature and answers too long: parsing, running off, look-up, signature check, answer | holds |
| `bytes` | 1.1 million states | HMAC on keys and texts around the ends of blocks; SHA-256 on messages cut in any way; base64 on up to six bytes | holds |
| `client` | 49 thousand states, liveness | Does every call of `AskServer` return, with its own answer and its sockets closed, when the server has no other peer, is late, stopped, or has ended at `epoll_wait`, or the connection breaks? | holds; behind a failed `epoll_wait` it returns when the service is stopped |
| `terminal` | 416 thousand states, liveness | On a terminal, does every line that fits come out whole, in order and in the end, typed ahead or not?  What besides the newline does the cut at `strlen - 1` remove from longer lines, on a terminal and on a pipe? | holds, and implements `LineQueue` |
| `spawn_fails` | the second `pthread_create` fails | `HandlesOutliveWorkers` | violated |
| `epoll_fails` | `epoll_wait` fails | `NoWorkerQuitsAlone` | violated |
| `stop_writes` | Ctrl+C at a prompt | `StopWritesNothing` | violated |
| `silent_peer` | a peer need not speak or leave | `ShutdownCompletes` | violated |
| `test_case_3` | the validation `client.c` sends | `ValidTokenIsAnswered` | violated |

### Properties

* `SignalsReachMain`: no signal takes its default action once a worker exists.
* `NoWorkerQuitsAlone`: a worker in the quit branch of NeedQuit was released by
  main; a worker that has ended was released or has told main.  Here the other
  worker's momentary lock matters: it must never look like main's.
* `HandlesOutliveWorkers`: `DestroyDb` comes behind the last driver call.
* `UntypedOnlyAtStopOrEof`: unless a stop has begun or input has ended, every
  stored text was typed at the prompt that asks for it.  `StopWritesNothing` is
  the stronger promise the code does not keep.
* `StoreIsKeyed`: `_id`s are unique and `services` is a set, through failed calls
  and abandoned prompts; `DeleteOne` and `Pull` rest on it.
* `KeepsLifecycle`: refinement of `Lifecycle`.  A step behind a failed deletion's
  `exit(1)` is an abort there and nothing else is.
* `ShutdownCompletes`, `ConnectionIsClosed`: liveness.
* `AcceptedWasIssued`, `DeletedIsRefused`, `IssuedToExisting`: what an answer OK
  means, with respect to the user base at the time the request was opened.
* `AddingKeepsTokens`: a second user of the same name changes nothing for the
  first one's tokens.
* `FirstTokenNeverReturns`: a token issued before its user had any service
  does not come back to life once it has stopped being good: `$pull` leaves an
  empty array behind, never the document without the field, and a generated
  `_id` never recurs.
* `DecidesAtOneInstant`: refinement of `TokenAuthority`.
* `ParsesWhatWasSent`: a whole request is parsed to its meaning; lengths that
  announce too little, too much or nothing, values that hold the marks of other
  parts, and names given twice move nothing from one part to another.  What the
  code does move is named: a header or the body gives the path, or the
  parameters, of a first line that has none, and behind a header without `:` the
  headers and the length of the body are in doubt (the body still is the front of
  what follows the empty line).
* `OnlyTheBodyIsCut`: a request cut anywhere that gets past the parser has lost
  at most a part of its body, well-formed or not.
* `OnlyMalformedRunOff`: each way to run off, against what the sender wrote.  A
  well-formed request with a query of its own does so only when cut before its
  empty line.
* `ReachesItsHandler`: how the method begins and the whole path choose the
  handler; a path from behind the first line does only where that has none.
* `AcceptsOnlyTheSignature`: the verdict of `CheckJwtSign` against what the body
  says, wherever it was cut.  One signature has many texts and anything may
  follow it, but none counts for other data.
* `AnswersWhatWasAsked`, over the whole connection: a token goes only to a GET of
  its path that gives a name, OK without a token only to a POST of its path with
  a whole token in front of its body; nothing that an earlier connection left
  counts.
* `AnswerHasItsBody`: behind the first empty line of an answer stands the token,
  whole up to `LargestDocument` and cut beyond it, or nothing.
  `WholeAnswerIsWritten`: up to that document SSL_write sends the answer and
  nothing else.
* `ReturnsTheHmac`, `HashesThePaddedMessage`: the standards' definitions, for
  structs and buffers used again.  `WritesWithinTheBlock`,
  `StaysWithinItsBuffers`: no index leaves its array.
* `RoundTrip`, `EncodesAsRFC4648`: base64 against its definition bit by bit.
* `PrintsItsOwnAnswer`, `SocketsAreClosed`, `AskServerReturns`: the client.  A
  refused connect leaves its socket open, which `SocketsAreClosed` counts.
  `AskServerReturns` is about a server with no other peer: a silent one would
  keep this client waiting as it keeps the stop waiting (`silent_peer`).
* `KeepsLineQueue`: the prompts, against `LineQueue`, on a terminal and with lines
  that fit.
* `OnlyFullBuffersLoseText`: of a line that does not fit, each full buffer loses
  its last character and no other character is lost.

Each property of a passing run has a mutant in `PROJECT.json`: a definition of
the model changed the way a plausible bug would change the code, with which TLC
finds the property violated.  The mutated operators stand just before the
definition they replace and are marked `Variant`.

### Bounds

* `Oids` two, so a user can be deleted and another created under the same or
  another name, beside a document left over from an earlier run; `usedOids` never
  shrinks, hence inserts are bounded by it.
* `Names` one or two: two users of one name, and two of different names.
* `ServiceNames` one: `services` absent, empty, and with an element, the three
  cases `$addToSet` and `$pull` tell apart.
* `MaxBacklog` zero or one: a connection may wait while another is being served.
* `MaxIssued` two: a token and a later one of the same or another user.
* `Commands`, `Requests`, `Faults`: each run takes those its question turns on.
  `lifecycle` takes every command that writes, `showusers` and `exit`.  `help` and
  an unknown command are the same step as far as state goes (round the loop),
  and `showservices` the same as `showusers`.
* `Senders` are four.  `Careful`: POST, a method that only begins like GET and one
  that is neither, up to one parameter and one header, a Content-Length or none.
  `Curious`: GET or POST with up to two parameters, which tell a list from its head
  and allow a name twice.  `Careless` leaves out a `=`, a value or a `:`.
  `Boastful` announces no number, -1, -2 or the largest int.
* `Targets`: both registered paths and a word that is no path.  `HeaderValues` are
  a value with a path and the marks that end other parts, and one that is taken
  for a path with a parameter when the first line has neither.  Each text is cut
  at every position.
* `Bodies`: none, a token, the same with another text of its signature, and a
  token with another's signature and a `?` behind it.  `Leftovers`: validations
  longer than most requests; a buffer nothing has used yet differs from them only
  until the memset.
* `Documents`: a small one, `LargestDocument`, and the next.
* `Keys`, `Texts`, `Lengths`, `MaxLen`: zero, the ends of the first and second
  block, and 55/56, where padding needs another block.  `Inputs`: each
  remainder by three, twice, over bytes whose sextets reach both ends of every
  part of the alphabet.
* `MaxCalls` two and three tries each: an answer of an earlier call may be about
  when a later one fails.
* `terminal`: `BufSize` four, and three inputs: a terminal with lines of up to two
  characters, which just fit, a terminal and a pipe with lines of up to seven, more
  than two full buffers of three.  Four lines: several wait at a time.  A `read()`
  takes up to four characters, so that it ends anywhere in a line, too.

### Fairness

`ThreadFairness` is weak fairness of the steps of each of the three threads: the
operating system runs every runnable thread.  NeedQuit needs no strong fairness:
the critical section of the other worker's trylock is two steps and between two
attempts of a worker lies a wait with a timeout.  TLC confirms it in `shutdown`:
whichever worker is refused because the other is inside NeedQuit, the other
quits for good, as it has seen the mutex free.

Two more conditions are not the program's to guarantee and are stated apart.
`PeerGoesOn`: an accepted peer says its next word or hangs up.
`OperatorEndsLine`: an operator who has typed part of a line finishes it.
`shutdown` assumes both; `silent_peer` drops the first and finds the process
hanging in `pthread_join`.

`Client` asks for weak fairness of the client's and of the network thread's
steps: both are processes of an operating system, and neither the stop of the
server nor the break of a connection is fair.  That the network thread comes to
this client is no assumption but follows from its being the only peer.  `Terminal` asks for it of the
prompt, not of the operator, who need not type.

## 4. Where the code departs from its documentation

Each of these has a run that shows it:

1. `main.c:35`: when the second `pthread_create` fails, the handles are destroyed
   beside the first worker, which is not joined (`spawn_fails`).
2. `server.c:326`: when `epoll_wait` fails the network thread ends without the
   SIGUSR1 every other failure sends; the process goes on without its server
   (`epoll_fails`).
3. `cli.c:118`: stopping the program at the prompt of `adduser` inserts a user
   with an empty name; the other prompts behave alike (`stop_writes`).
4. `server.c:345`: accepted sockets are blocking, against "Non-blocking Client
   Operation" in `src/README.md:13`; a silent peer keeps the process from
   stopping (`silent_peer`).
5. `jwt.c:148`: `Base64Decode` is not told that `decSign` has 32 bytes; what
   `client.c:133` sends as "Test case 3" makes it write four more (`test_case_3`).

The models follow these too, without a run of their own:

* `cli.c:313`: `select` reports a byte, `fgets` waits for the line; an operator
  who stops in the middle of a line keeps the process from stopping, as the
  silent peer does.
* `request.c:74`: `GetRequestPath` returns a literal when there is no path, and
  `ReleaseReq` frees it (`fate = "freesLiteral"`).
* `request.c:36`: the methods parsed are GET and POST, against "parsing GET and
  PUT requests" in `src/README.md:7`; a PUT is answered BAD_REQUEST.
* `request.c:36`: `strncmp` looks at three or four characters, so `GETX /token` is
  served as a GET.
* `request.c:54` and `90`: the path is the first word with a `/` in front, the
  query that of the first word with a `?`, wherever in the request they stand,
  against the comment at `request.c:89`.  A header value `x?name=bob` gives
  `GET /token` a user name.
* `request.c:96`: a parameter without `=` makes `strchr` return NULL, which is
  written through; `request.c:119`: a header without `:` leads the loop to the end
  of the text or to a `:` of another line.
* `request.c:158`: a Content-Length below -1, or the largest int, makes a size
  `malloc` refuses, and `memset` writes through NULL.
* `jwt.c:153`: 44 characters decode to 33 bytes and 32 are compared: the last bits
  of the signature's 43rd character and all of the 44th count for nothing, nor
  does what stands behind.
* `response.c:50`: the "HTTP/1.0 " of `response.c:42` is lost when the status is
  printed into a new string.
* `utils.c:20`: on a pipe stdio reads several lines at once and `select` then
  sees none: the lines it holds wait for one more to come.  `Kept` leaves the pipe
  out of `KeepsLineQueue` for that reason; without it TLC finds this.
* `cli.c:41`: a line as long as the buffer or longer loses the last character of
  each full buffer, and its parts answer one prompt after another.
* `response.c:62`: a token of a document longer than `LargestDocument` is cut, and
  `sendBuf` is left without a terminator.

## 5. Proofs

The theorems hold for all values of the constants, from the named assumptions
the modules state about them (`FaultsAssumption`, `NetAssumption`,
`CliAssumption`, ...: ranges, and the disjointness of names and other texts).
TLC evaluates each of them in some run.

**`AuthServiceProofs`**: the stop protocol, for any sets of identifiers, names,
services, commands, requests and faults, any backlog and initial documents.

* `TypeCorrect`: `TypeOK`.  The collections are the hard part: every driver
  call keeps them sequences of documents.  `UserStoreProofs` proves it for each
  operator (`DeleteOneType`, `AddToSetOneType`, `PullOneType`, ...).
* `ControlInvariant`: `Control`, the inductive invariant.
  - `StopperOwned`: main owns the mutex exactly in the calls between its lock
    and its unlock, a worker exactly inside the quit branch of NeedQuit.  Without
    it "trylock succeeded" says nothing about main.
  - `SpawnOrder`: which workers exist follows from where main is, and the
    signals are blocked from the call of `sigprocmask` on.
  - `SignalsReachMain` itself.
* `SignalsAlwaysReachMain` follows from `Control`.
* `WorkersQuitTogether` (`NoWorkerQuitsAlone`): with `Control`, a worker that has
  got the mutex did so when main did not hold it; `GoneWithStop` carries over to
  its end, and `StopBegunStays` shows that no later step undoes a stop.  Assumes
  that `epoll_wait` does not fail; `epoll_fails` shows the assumption is needed.
* `HandlesAreSafe` (`HandlesOutliveWorkers`): `Joined` says that past each
  `pthread_join` the worker has ended or was never started.  Assumes that
  `pthread_create` of the network thread does not fail; `spawn_fails` shows that
  assumption is needed.

* `AlwaysKeepsLifecycle` (`KeepsLifecycle`): every initial state of `AuthService`
  is one of `Lifecycle` and every step one of its steps or a stutter, under both
  assumptions.  The invariant `Orderly` is `Control`, `Joined`, `GoneWithStop` and
  `HandlesFollow` (the handles are where main is).  One lemma per thread
  (`MainImplements`, `CliImplements`, `NetImplements`, `OutsideImplements`);
  `StaysPut` gathers all steps that move no worker and no handle: they ask for a
  stop, abort, or stutter.
* `StoreIsAlwaysKeyed` (`StoreIsKeyed`), if the documents an earlier run left are
  in order (`LeftoversOrdered`).  Inductive with `KeysFrom`: every identifier in
  a collection has been generated, so that a fresh one is in none, also when an
  insertion that reported an error took effect.
* `UntypedAlwaysAtStopOrEof` (`UntypedOnlyAtStopOrEof`): unless a stop has begun
  or the input has ended, collections and the buffer about to be written belong
  to the sets the operator types (`TypedStore`).  It needs the stop protocol: a
  prompt that sees the mutex free does so only behind a stop (`QuitMeansStop`).

**`TokenServiceProofs`**: tokens, for any users, services, foreign tokens and any
number of requests.  `TokenInvariant` is the invariant behind all of them: `_id`s
are unique and only grow in number, each token issued copies a document that
existed, and what a handler has found at each point of its code was found while
its request was open.  From it `TypeAlwaysOK`, `AcceptedWasAlwaysIssued`,
`DeletedIsAlwaysRefused`, `IssuedToExistingAlways`, and step by step
`AddingAlwaysKeepsTokens` and `FirstTokenNeverComesBack`, which rest on
`UserStoreProofs`: deletions and updates thin a collection (`Thins`), an addition
goes behind its namesakes (`AppendNamed`).  `AlwaysDecidesAtOneInstant` shows that
the handlers implement `TokenAuthority`.

**`RequestParserProofs`**: the lemmas the next module rests on, for requests with
any number of parameters and headers, of any words, and for every beginning of
their text that one SSL_read may bring.

* `LayoutOf` says where each part of a request stands in its text (`Layout`: the
  mark before parameter i at place 4 i, header i behind `o[i - 1]`), `WordsInPlace`
  which words stand nowhere else: no `?` when there are no parameters, no path
  behind a blank when the target is none, no end of a line but at the end of one.
  `EmptyLineFound`: two ends of lines stand together at no earlier place than the
  empty line.  `PathFound` and `QuestionFound` say what the searches of
  `GetRequestPath` and `GetQueries` come upon: in the first line what it has, and
  otherwise what stands behind it.
* `ParserInv` is the inductive invariant.  `Received`: what was read is a
  beginning of the request.  At a loop's head `ptr` stands at a parameter
  (`AtQuery`) or a header (`AtHeader`), and the list so far gives each name the
  last of the values already passed (`Listed`); the third case is a text that ends
  within the part in progress, and then the parser never gets to a handler.
  Behind the loops the lists are whole (`Parsed`, `Finished`).  All this is said
  where the marks are in place: of parameters from behind the first line
  (`StrayQuery`) and of headers without `:` it only keeps the pointer in the text.
  `RunOffInv` says of each `fate` which texts lead there: one without its empty
  line (`CutShort`), a missing mark, or a length.
* `BodyIs`: what `GetBody` cuts out is the announced part of what follows the
  empty line, as far as it was read.

**`RunMethodProofs`**: a connection from accept to SSL_write, for the same
requests, any words and tokens, any earlier contents of `recBuf` and documents of
any size.

* From `ParserInv` and `LaterInv` (nothing behind the look-up changes what was
  parsed): `AlwaysParsesWhatWasSent`, `OnlyTheBodyIsEverCut`,
  `OnlyMalformedEverRunOff`, `AlwaysReachesItsHandler`.  `PathAskedFor` says where
  a path of one word comes from; `BodyGiven` compares the body with the one meant,
  `BodyIsFront` finds it a front part of what was sent whatever the headers say.
* `AlwaysAcceptsOnlyTheSignature` and `AlwaysAnswersWhatWasAsked` from
  `SignInv`: the groups decoded so far are at their place in `decSign`
  (`DecodedSoFar`), the verdict is the agreement of all 32 bytes, and an answer OK
  rests on a name asked for or on an agreement (`Entitled`).  Only words for the
  signature of the very text before the dot agree with its HMAC, because bytes 0
  and 30 tell which data the two words belong to (`AgreesOnlyWith`); any such
  words do (`AgreesWithSignature`).
* `AnswerAlwaysHasItsBody` and `WholeAnswerIsAlwaysWritten` from `AnswerInv`: the
  answer is put together from what a handler may leave (`Answerable`), `sendBuf`
  holds as much of it as the buffer allows (`TokenCut` for a token that is too
  long), and it ends in a NUL up to `LargestDocument`.

**`BytesProofs`**: base64, SHA-256 and HMAC on byte strings of every length.

* `RoundTripAlways`, `BuffersAlways`, `EncodesAsRFC4648Always`.  `Base64Inv`: the
  groups written so far are those of RFC 4648 (`Coded`), the groups read so far
  are the source.  That the divisions and remainders of `base64.c` give a
  character exactly its six bits is arithmetic on one group (`SextetsInBits`).
* `WritesWithinTheBlockAlways`, for any sequence of calls, also on a struct used
  again without `Sha256Init`; `HashesThePaddedMessageAlways`, for messages of
  every length in any parts.  `ShaInv`: compressed blocks and the filled part of
  the block are together what was given so far.
* `ReturnsTheHmacAlways`, for keys of every length, longer than a block or not.
  `HInv` says at each call of `HmacSha256` what its buffers hold, and that what
  was given to the hash in progress and what is still to come are together one
  message of RFC 2104; `HashesThePaddedMessageAlways` does the rest.

**`ClientProofs`**: the client, for any number of calls, whatever happens to the
server and the connections.  `AlwaysPrintsItsOwnAnswer` rests on the memset before
the receiving loop: within it (`OwnAnswer`), what is in the buffer came on this
connection.  `SocketsAreAlwaysClosed` counts the failed connects by calls and
tries (`Counted`).

**`TerminalProofs`**: standard input, for any number of lines, sizes of buffers
and reads, from a terminal or a pipe.  `InOrder`: what is in stdio and in the
kernel goes on, character by character, to the end of the last line, and of the
line it begins in full buffers have been taken, with what the buffer holds now
(`Filled`).

* `OnlyFullBuffersEverLoseText` (`OnlyFullBuffersLoseText`), for lines of any
  length.
* `AnswersAreTheLines`: each step of `Terminal` is one of `LineQueue` or none
  (`Queue!Order`, the safety part of `KeepsLineQueue`).  What it says is about a
  terminal whose lines fit the buffer (`LinesFit`): each is then taken by one
  prompt (`LineByLine`).

Model-checked only: what must happen in the end (`ShutdownCompletes`,
`ConnectionIsClosed`, `AskServerReturns`, and the fairness of `LineQueue`), since
liveness under fairness is beyond the prover used here.  Every invariant and every
other action property of the passing runs is proved.  Where an argument goes from
one place of a sequence to the next, the proofs take the least place that fails
(`WFMin`), since the library's induction theorems cannot be instantiated here.

## 6. State of the plan

The composed process came first, since its concurrency is where tests reach
least; then the token service with its abstract specification, the proofs of
both, and then the sequential parts: parser, signature check and answer as one
chain, the code on bytes, the client, standard input.

What a further step could add: several connections in one behaviour of
`RunMethod`, with `recBuf` filled to its end; the queries of `RunMethod` bound to
the documents of `TokenService` instead of any answer; a restart of the process as
an action; the proof that `TokenService` and `RunMethod` agree on what a signature
is worth.

## 7. Not modelled

TLS and the MongoDB server (external; modelled through the calls made), the
rounds inside `Sha256Compress`, JSON text and its parser, the driver's set-up of
`InitDb` beyond success and failure, failures of `malloc` and memory that the
handlers' early returns do not release, configuration and build files, keys and
certificates, the unit tests.
