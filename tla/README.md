# A TLA+ model of colabedit

colabedit is a text editor for several guests: a Flask server that keeps everything in Redis
(`app/main.py`, `app/control/router.py`, `app/model/*.py`) and one page (`app/static/js/colab.js`,
`app/templates/index.html`) that talks to it by jQuery requests on timers. This directory models
the server's handlers command by command, the pages' timers and callbacks, and the document of
"partial persistent sequences" (position stamps) that every page keeps.

## The system

| Component | State | Operations | Correct when |
|---|---|---|---|
| Registry and change log, `user_order.py` (`constants.py`, `redis_db.py`) | Redis hashes `users` (name -> position), `user_changes` (name -> ids of own changes, one string), `changes` (id -> change), counter `id` | `add`, `remove`, `count`, `index`, `get_change_id` | positions are dense and below the count, ids are handed out once, the log is append-only, every change is on its author's list |
| Handlers, `router.py` | none but local variables between Redis commands | `/login`, `/heartbeat`, `/sendChanges`, `/deinitializeCall`, `/sendUserNames` | each request looks atomic; no handler raises; a guest gets all changes of the others and none of its own |
| Server start, `main.py`, `app.yaml` | | `flushall()` at import; number of workers | a restart may lose changes, never duplicates or echoes them |
| Server-side document, `pps.py` | a Redis list of tags, a set of keys | the constructor; the rest is behind a socket handler that no page calls and that raises at `pps.py:53` | the two sentinels get in once |
| Page session, `colab.js` | `acknowledged`, `lastReceivedGreatestSeqNum`, open requests, timers | login, heartbeat every 500 ms, sendChanges every 1000 ms with a 3000 ms timeout and 10 retries, logOut, getUserNames | every change is attached once, none is skipped, a guest can always send again; logging out and in again loses and repeats nothing |
| Document of a page, `colab.js` `PPS` | `ppsTags`, `pps`, `ppsAck`, the editor's text, `pendingChanges`, `userPosition`/`userCount` in localStorage | insert, delete, hide, add, attach, index, piece; typing, Backspace, Delete key, paste | the editor shows the document, quiet documents are equal, no change is lost |
| `index.html`; `lib/`, jquery, trix, big.js, socketio | | markup; third-party | not modelled, except for what the code above relies on |

The parts interact in one way: a page sends a request, a handler runs some ten Redis commands,
the page's callback handles the answer. There is no push. What is hard: the commands of two
handlers interleave (the `with hot_redis.transaction()` blocks do not isolate anything, see
*Findings*); `setInterval` does not wait for answers; a send that timed out is repeated while the
server may still work on it; a starting process empties the database under everyone; every page
computes tags from a count and a position that were true at its last heartbeat.
`PROJECT.json` lists the hazards, each at its line, with the property that guards it. Some of them
do happen in the program, and then the property says up to where it is right: it has a condition
that the hazard ends (`starts = 0`, `Overlapping`, an event in `odd`), and the hazard's note says so.

## Modules

| Module | Models |
|---|---|
| `UserOrder` | the Redis store: its hashes, lists and counter, and the string arithmetic of `user_changes` (`AppendId` glues ids together as `+=` on strings does) |
| `Router` | EXTENDS `UserOrder`; one action per Redis command of each handler, `Workers` of them at a time, and `Startup` |
| `Session` | EXTENDS `Router`; the pages: timers, callbacks, timeout and retry. A batch of changes is one payload, the document is how often each payload was attached |
| `SharedLog` | what the server promises: a registry and an append-only log with atomic operations |
| `SessionRefinement` | the refinement mapping from `Session` to `SharedLog` |
| `Pps` | the pure operators of `PPS`: where a tag is inserted, which tag is deleted, what attaching does to document and text |
| `Colab` | EXTENDS `Pps` and runs pages on an INSTANCE of `SharedLog`: guests type, paste and delete, changes travel, documents meet |
| `Relogin` | runs pages on an INSTANCE of `SharedLog` too: the login form, two logins on one page with the timers of both, a send that times out and is repeated, a server start. A document is the set of changes in it |
| `MCSession`, `MCColab`, `MCRelogin` | model values, symmetry and constant definitions for TLC |
| `SessionProofs` <- `SessionSafety` <- `SessionRegistry` <- `SessionDelivery` | theorems about `Session`: types; no error and the log; positions, names, authors; sending and receiving |
| `SessionRefinementProofs` | that `Session` implements `SharedLog` |
| `ReloginProofs` | theorems about `Relogin` |
| `PpsProofs` <- `ColabProofs` | lemmas about the operators of `Pps`; theorems about `Colab` |

Correspondence: in `Router` the variable `pc[c]` is the place in the handler of request `c`,
`loc[c]` its local variables, then its reply; `users`, `userChanges`, `changes`, `id`, `keys`,
`tags` are the Redis keys. In `Session`, `owner[c]` is the page whose callback waits, `joined`
the pages for which `performTasksForGuest` has run, `unacked` those with `acknowledged == false`.
`author`, `tries`, `applied` are history variables. In `Colab`, `doc[g]` holds `ppsTags`, `pps`
and `ppsAck` of a page, `text[g]` its editor, `clip[g]` what was pasted and waits for its timer,
`told` what localStorage says, per browser; `typed`, `erased`, `minted` and `odd` are history.
`pasteText` is one action per character, and nothing else runs on the page until it is through.
In `Relogin`, `names[p]` are the names that heartbeat timers of the page have been started with,
`field[p]` what its name field says, `acknowledged`, `pending`, `last` the globals they share;
`request[p]` is the `settings` object of the open send with its `tryCount`, `posted` holds the
attempts the server has not come to, among them those that the page has given up; `current` and
`heard` are history.
The definitions marked *Slip* are bugs of the kind this code could have;
each is used to show that some property would notice it, and no specification uses them.

A tag is a decimal fraction between 0 and 1 in the code and a number of units 1/`One` in `Pps`;
typing is possible only where the new tag is a whole number of units. `ppsTags.sort()` compares
strings, which agrees with the numeric order down to 1e-6; below, big.js writes an exponent and the
tag sorts behind '1'. `Rank` is that order, and `solo` has an instance with such tags
(`One = 2^21`). From 1e-7 on tags of several exponents would have to be compared; hence
`One <= 8388607`. The tag `null`, which `insertText` sends when `PPS.insert` found no place, is
`NullTag`, the one that sorts last.

## What the runs check

Server and sessions (`MCSession`). Two guests with a name of their own unless said otherwise, two
batches of changes, and two calls (three in `serial`): two requests at a time are what two workers
can handle, and what it takes for a repeated send to meet its first attempt, or for the requests of
two guests to interleave.

| Run | Instance | Shows |
|---|---|---|
| `threaded` | 2 workers, logins, heartbeats and sends, 1 heartbeat open per page, answers to a send may time out, one of the two sends is repeated once (`MaxRepeated`) | types, no handler raises, positions below the count, whatever way the handlers interleave; a list of own changes has all changes of its author and no other ids, unless two attempts under that name may overlap; a page has one send open |
| `serial` | 1 worker, 3 guests of which two type one name, 2 heartbeats open per page | one of the two gets the name; positions dense, a change attached at most once per open heartbeat and none skipped, log append-only, sentinels once; the server implements `SharedLog` |
| `faults` | 1 worker, all routes, 2 calls, 1 heartbeat open per page, answers may time out, 1 retry of each send, 1 more server process at any moment | every change attached exactly once when it was sent once, one more copy per retry at most, no echo to the author, also over a restart; none skipped before one, and until then the lists of own changes are right; a page that cannot send waits for its one open request, or its last retry timed out, or a restart has answered it 500 |
| `live` | 1 worker, fair | every change sent reaches the others; `acknowledged` comes back |

`AttachedOnce` has the bound in its statement: `MaxHeartbeats * (1 + tries[x])` copies, because
`attach` does not look whether a tag is there already. With one heartbeat open and no retry that
is one copy.

`AuthorshipRecorded` and `OwnIdsLogged` except the names of which `Overlapping` holds: there is
more than one worker, and a send under the name timed out and was repeated. Then two attempts
compare, read and write the name's list at the same time (`router.py:98-103`). Both may find it
empty and one glues its id to the other's, '1' and '2' to '12', or one overwrites what the other
has written. `threaded` gets there: with `Overlapping` put to `FALSE`, TLC finds both properties
violated in that run.

In `faults` the server processes have one worker between them. So a request of one process in the
middle of a request of the other is not covered: for instance a heartbeat that a new process
answers after the old one logged a change and before it noted the author (between `router.py:98`
and `:103`), from an empty database.

Documents (`MCColab`). `MaxTyped` bounds the characters typed or pasted (each with a code of its
own, so that they can be told apart), `MaxErase` the deletions, `MaxBatches` the log, `One` the
precision.

| Run | Instance | Shows |
|---|---|---|
| `solo` | 1 guest, 22 characters, of which the first 3 anywhere, by typing or pasting, and the rest at the front; 1 deletion at the end of the text | until a tag is below 1e-6: tags strictly increasing, and text = document unless the text changed between a paste and its timer |
| `duo` | 2 guests that wait for each other before they type, 4 characters | until a tag is below 1e-6: before a guest hears a change, its tags are strictly inside its share; text = document on every page and quiet documents equal, until a tag is made twice or out of place |
| `edits` | 2 guests, logins at any moment, typing, pasting, Backspace, Delete and all of them over a selection, 2 characters, 2 deletions of anything | quiet documents equal until a tag is made twice; every change is pending, sent or logged, newest last |
| `tabs` | the same in two tabs of one browser, loaded at any moment, 1 deletion | the same, and no text is longer than its document until a character finds no place in it |

Why some properties have a condition. `odd` records four events, and the properties say that
nothing goes wrong without them; TLC reaches each of them, and finds the properties violated when
one of their events is struck from the condition (*unplaced*, for `EditorShowsPiece`, in `tabs`
restricted to typing).

* *twice*: a tag is made that exists. A guest that typed alone (count 1, tag .5) and then hears of
  a second guest (count 2, index 0) computes the interval [.5, .5] for its next character, makes
  .5 again and so overwrites its last one. Two guests that know of each other get there with four
  characters, because a page's own tags are never marked acknowledged, and an interval can then
  reach from a tag far left to one just received.
* *astray*: a tag is made that is not between its neighbours, for the same reasons.
* *unplaced*: a character stays in the editor only, or goes out under the tag `null`: the position
  is beyond what the document shows, `Big('null')` throws, or localStorage has no position and
  count. The last is what loading the page in another tab of the browser does (`window.onload`
  calls `logOut`), until the next heartbeat.
* *shifted*: the text changes between a paste and its timer.

With a tag below 1e-6 (`TinyMinted`), which twenty characters typed at the front of a document
reach, a new first character is found behind the last one, and from there on everything may
happen, even to a guest alone. Until then `solo` never makes a tag twice or astray. And
`EditorShowsPiece` is not claimed with deletions other than at the end of the text: counts of
shown characters are used as indexes into a list that holds hidden tags too, the Delete key and
typing over a selection hide nothing, and a character deleted by two guests takes another one with
it. The documents converge all the same (`edits`).

A second login (`MCRelogin`). `relogin` has two pages, three things to have in the name field (one
of them nothing, which the server takes for a name), one logout, and up to three of these events
(`MaxEvents`): two changes, a change sent again, one more server process. So there are two
changes and a repeated send, or two changes and a restart, or one change and both. This is enough
for a page to use two names while the other page has the third, to send under the other's name, to
send again while attempts at an earlier send, repeated or given up, are on their way, and for a
repeated send to be taken by an old server process, a new one, or both.

| Property | Shows | Unless |
|---|---|---|
| `NothingLost` | each change is pending on its page, or sent: on its way or in the log, once, and at most once more for each time its send was repeated | a server start empties the log or takes the request with it |
| `OneFlag` | the timers of two logins have one request open at most, and the flag comes up again | the last attempt timed out (`colab.js:417`), or the request went out under a name the server does not know, by then logged as nobody's own (`router.py:98-100`), or a new server process took over |
| `NoGap` | two heartbeat timers with one greatest id skip nothing | it was sent under one of the page's own names (by anyone: the author of a send is what the name field says when the timer fires); a server start, after which ids begin anew |
| `Refilled` | the emptied editor gets back what the log has, the page's own earlier text included, a new process's log included | changes were on their way to the page when the login was answered (they move the greatest id past what the editor misses); a server was started after the login; it was sent under a name of which a heartbeat has brought changes since the login |
| `EchoExplained` | a page gets its own change back only after a second login, or when it was sent under a name that is not its own | after a server start: the change went with the log, or was sent more than once |

Each exception is needed: without it TLC finds the property violated in `relogin`. (But for *sent
more than once* in `EchoExplained`, which the proof needs and the instance does not reach.)
The last exception of `Refilled` is a loss that really happens. A page that wrote as n1 and logs in
again as n2 still has the heartbeat timer of n1. If that one is answered first, with changes of
others, the greatest id moves past the page's own, and n2's heartbeat, which would have brought
them, asks only for what is later: the page's own text is missing from its editor for good. A page
that logs in again under the *same* name gets none of its own text back while the server lives.

Fairness (`live`): a handler's commands return and callbacks run (weak fairness per call); the
listen queue is served in turn, so a waiting request is accepted (strong fairness, as other
requests can take the worker in between); `setInterval` keeps firing and finds a free call sooner
or later (strong fairness per guest). Nobody is assumed to log in or to type.
`CHECK_DEADLOCK FALSE` is set because the system does stop, when every batch is delivered or every
character typed and no heartbeat is possible in the instance.

## Findings

| Run | What |
|---|---|
| `transaction` | `with hot_redis.transaction()` isolates nothing: every object has `client=client` and never sees the pipeline. Two requests get one change id, or one position |
| `logout` | a guest told *deinitialized successfully* is still registered: `remove` raises `AttributeError` (`hot_redis.Dict` has no `pop`) into a bare `except` |
| `shared_name_threaded` | two pages logging in at once both get the name that the page says is already taken |

With one worker, which is what `app.run()` gives, the first and the third do not occur (`serial`).
`app.yaml` declares `threadsafe: yes`.

## What is proved

Every invariant and every action property that the passing runs check is a theorem, and so is
the refinement. The assumptions on the constants are those named in the modules (their types; `None` is no name and no payload; a finite set of
guests; `One <= 8388607`), and those in this table. One worker is what `app.run()` gives.
*Considerate* guests each have a name of their own and log in once (`MaxLogins = 1`); their sends
may time out and be repeated. `MaxStarts = 0`: no second server process, for it empties
the database.

| Theorem | Property | Assumes |
|---|---|---|
| `SessionProofs!TypeCorrect` | `TypeOK` | |
| `SessionSafety!NoServerErrors` | `NoServerError` | |
| `SessionSafety!SerialLogAppendOnly` | `LogAppendOnly` | one worker, `MaxStarts = 0` |
| `SessionRegistry!PositionsInRange`, `GuestNamesOnce` | `PositionInRange`, `GuestNameOnce` | one worker or considerate guests, `MaxStarts = 0` |
| `SessionRegistry!OwnListsLogged`, `ChangesHaveAuthors` | `OwnIdsLogged`, `AuthorshipRecorded` | one worker or considerate guests |
| `SessionRegistry!PositionsAreDense`, `SentinelsWrittenOnce` | `PositionsDense`, `SentinelsOnce` | one worker, `MaxStarts = 0` |
| `SessionDelivery!OneSend` | `OneSendOrStuck` | |
| `SessionDelivery!NothingSkipped` | `NoGap` | one worker |
| `SessionDelivery!AttachedAtMostOnce` | `AttachedOnce` | one worker, `MaxStarts = 0` |
| `SessionRefinementProofs!RequestsAreAtomic` | `ImplementsSharedLog` | one worker, `MaxStarts = 0` |
| `ReloginProofs!LoginsLoseNothing`, `OneFlagForAllTimers`, `SharedPositionSkipsNothing`, `LoginRefillsEditor`, `EchoesHaveReasons` | `NothingLost`, `OneFlag`, `NoGap`, `Refilled`, `EchoExplained` | |
| `ColabProofs!TypesCorrect`, `ChangesOnTheirWay`, `EditorsNotAhead` | `TypeOK`, `Accounted`, `EditorNotAhead` | |
| `ColabProofs!PagesConverge` | `Converged` | |
| `ColabProofs!SmoothTagsIncrease` | `TagsIncreasing`, as long as no tag is made twice and every character finds a place | |
| `ColabProofs!LoneTagsIncrease` | `TagsIncreasing` | one guest |
| `ColabProofs!SharesAreKept` | `SharesKept` | a browser per guest; they type when all are in, or there is one |
| `ColabProofs!EditorsShowPieces` | `EditorShowsPiece` | `Gentle`: only typing and pasting over no selection, or one guest who also erases at the end of the text |

### The server and the sessions

`Types` (`SessionProofs`) is inductive by itself; to `TypeOK` it adds that the hashes and the
fetched transactions are finite, without which a count is not a number. `HandlerTypes` and
`ReaderTypes` say once what every handler step leaves alone. The other invariants build on it:

* `Served`, until the first restart and with any number of workers: the user of every request past
  its login is registered in both hashes, and every id a heartbeat still has to fetch is logged.
  Steps of other requests keep it because the hashes only grow (`StoreGrows`).
* `Serial`, one worker: at most one request is in a handler, logged ids are at most the counter,
  and strictly below the id of a change about to be logged.
* `Registry` (every position, taken or about to be, is below the number of users; a login that
  found its name free finds it so until it takes it), `Dense`, `Sentinels` (which are written, by
  where the handler that writes them is), `Claims` (one login at most has taken a name). What
  they need of the scheduling is `Apart`: no two logins are handled under one name, and two sends
  only if attempts under it may overlap (`Overlapping`). One worker gives it, and so do considerate guests with any number of
  workers (`Alone`): a guest has one login open at most, and two sends under one name only after
  one of them timed out.
* `Authorship`: ids on a list of own changes are logged; a logged change is on its author's list
  or in a handler that is about to write it there, whose copy of the list is not stale; each with
  the exception of `Overlapping` names. So a retry under one name spoils no other name's list.
* `Sends`: the request a page waits for carries a payload of its own, there is one of them, and
  the flag `acknowledged` is down only while it is open or after the last retry.
* `Heard`: an answer leaves out nothing between the id it was asked with and the greatest id it
  carries, it was asked from where its page is or was, and everything up to the greatest id of a
  page has been attached. So answers may overtake each other.
* `Attached`: a change has been attached, and can still be by the heartbeats now open, at most
  `MaxHeartbeats` times for each of its copies in the log up to the page's greatest id; and the
  copies are at most the attempts to send it. The proof is for `MaxStarts = 0`; the run `faults`
  has a restart as well.

`RequestsAreAtomic` shows that every step of a handler is a stutter of `SharedLog` or its one
operation. A request takes effect in the step that writes (`Register`, `Publish`: the refinement
mapping hides what is half written) or that answers; for the latter `Steady` says that the local
variables of a handler in the middle of its reads still agree with the store. That is true with
one worker only: with two, `transaction` shows a heartbeat whose three reads are of different
moments.

### The second login

* `Kept`: each change is pending on its page, or on its way or logged, at most once per attempt,
  unless a server start took it. A timeout adds one attempt and one to `tries`, in the same step.
* `Flagged`: while the flag is up no send is on its way and none answered; what keeps it down is a
  send that is open, or one that ended: it failed, or its last attempt timed out. An attempt that
  was given up still reaches the server, but no callback is left for its answer, because the
  settings the page holds have counted on.
* `Filling`: everything logged up to a page's greatest id is in its document and in its editor, or
  behind the filter for own changes; everything up to an id in an answer on its way is there, or
  in that answer, or behind that filter. For the editor the filter is that of the names `heard`
  since the login; `Filled` states both at once.
* `Echoes`: a page's own change is on the list of one of its names unless there is a reason.

None needs an assumption: a timeout, a server start, a change of name and any number of logins are
steps of the model, and the properties name their exceptions.

### The documents

`PpsProofs` has what the operators do to a list of tags: sorting in a tag keeps the order, where
the tag ends up, that the count of shown characters moves by one, that a new tag is one the pages
can make. `Proper` documents are sorted by `Rank`, mapped by `pps` and `ppsAck`, begin with 0 and
hold one '1'. `ColabProofs` then has, for all constants:

* `Kept` (`Types`, `SentLast`, `Booking`, `Finite`) and `Joining` give `Accounted`: what a page
  has sent and not had acknowledged is the last change it logged, so the newest change of each tag
  is found first in `pending`, then in `sent`, then at the greatest own id.
* `Places` (told positions are below the counts told with them) and `Contents` (all documents are
  `Proper`, all characters anywhere on their way were typed) give `TypeOK`.
* `Fetched` (a heartbeat's answer holds changes the page has not heard) and `Tidy` give
  `EditorNotAhead`. `Tidy` says: as long as no tag is made twice and every character finds a
  place, each insertion is in one place on its way (pending on one page, or in one request, or
  logged once: `OneSource`), and no page that has still to hear of it lists its tag (`Unlisted`).
  So a list never holds a tag twice, and shown characters can be counted by their tags. This is
  what rules out that a change overwrites another one; neither half is inductive without the other.
* The same invariant gives `SmoothTagsIncrease`: tags listed once and sorted by value increase.
* `Knowing` (a page is told its own position, counts never go back, and answers under way are no
  older than what the page knows) and `Sole` give `SharesAreKept`: in a document of the page's own
  tags only, all but the sentinels are unacknowledged, so every interval that `PPS.insert` splits
  is cut out of the same [0, 1], and a new tag is between its neighbours and within the share
  (`SoloNew`). With `Hears` (a guest alone gets no change back) that holds for ever for one guest:
  `LoneTagsIncrease`, which needs no condition on how tags were made, pastes and deletions included.
* `PagesConverge`, whatever is typed, pasted or deleted, as long as no tag is made twice. A page
  has the character of a stamp if it was told of it, that is if its insertion is among what the
  page has pending, sent or heard; it shows it if it was told of no deletion (`Reflects`), and
  lists what it shows. An attached change must not undo one that is still to be sent, so one has to
  know where a stamp can be: what is inserted and not yet logged is on its own page only
  (`Private`), in the log the insertion comes before the deletions (`Foremost`) and is new to
  everybody who has not heard it (`Unseen`), nobody has a stamp that was not made (`Stamped`).
  This is `Common`. `Complete` says that an answer leaves out nothing between what the page has
  heard and the last change it brings. So pages that have nothing pending and nothing to hear
  were told the same, and show the same stamps; and for two `Proper` documents the piece depends
  on the shown tags before '1' and their characters only (`SamePiece`).

* `EditorsShowPieces`, as long as nothing is odd and no tag is below 1e-6 (`Settled`). Without
  deletions in the middle the shown tags are the first ones behind 0 (`Packed`), so the count of
  shown characters that `PPS.insert` and `PPS.attach` take for an index is one, and a tag made
  between its neighbours is sorted in where the editor has put the character (`Grown`, `Spliced`).
  `Displays` says this of a page: its text is what the document shows with the rest of a paste put
  in at its place (`Shows`), or it has strayed from the text of that paste. A text that strays
  must never come back to it, or the rest would be noted without being *shifted*: with insertions only
  it is longer for good; where a guest erases at the end, it lacks a character of the paste's
  text, and characters are never used twice, or a later character stands before one of that
  text, and erasing at the end takes the latter away first (`Strays`). `Additions` says that nothing but insertions is on its way where
  nobody erases; a guest alone hears of nothing (`Deaf`). `Gentle` is what the runs `duo` and
  `solo` instantiate. With any other deletion the property is false, as said above.

### What the proofs corrected

Two properties were false beyond the instances that TLC had checked.

* `Accounted` now leaves out the tag `null`. In one browser with two tabs and `One = 8`, after five
  characters, a page attaches two changes of the tag `null`, hides one of them, and then notes a
  character without a place, again as `null`: that change is of no character of the document.
* `SharesKept` now ends where a tag is below 1e-6. Such a tag is sorted behind '1', so the place
  after the last shown character can be that of '1', and Backspace hides the sentinel: it is no
  longer acknowledged, and the interval of the next tag has no right end.

### Only model-checked

* `Delivered` and `SendsAgain`: liveness under fairness.
* `AttachedOnce` across a restart (`faults`): see the plan. `TagsIncreasing` for several guests after a tag was made twice
  is not claimed.
* The three properties that are violated (*Findings*).

In the modules with theorems, recursion is by functions (`AttachAll`), and the community modules
are reached as `Ext == INSTANCE SequencesExt`.

## Not modelled

* The name field changed while a login request is on its way (the page then sends under a name it
  was not asked to log in with from the start; `Relogin` has that only after a logout).
* In `Relogin`, the time between the moment a login or a heartbeat is issued and the moment the
  server gets to it: they take effect as they are issued, and only their answers are late. Sends
  have both moments. Heartbeats that bring no change do nothing to these pages and are left out. `Session` has both for every request.
* What Trix does by itself: undo and redo (Ctrl+Z), cut, dragging. `colab.js` hears of none of
  them as a deletion or an insertion of its own, so the editor then shows what the document does
  not have: undoing a Backspace makes the text longer than the document, and `EditorNotAhead` is
  not claimed of it.
* Two server processes that handle requests at the same moment (see `faults`).
* Thirds and other fractions that no finite `One` represents, so no third guest types in `Colab`.
* Overlapping heartbeats, retries and restarts in `Colab`: `Session` and `Relogin` have them, with
  the document reduced to counts or sets.
* The socket handler of `main.py` and behind it `attach`, `add`, `hide`, `insert`, `delete` and
  `piece` of `pps.py`: no page opens the socket, `insertText` of `router.py` calls them only for a
  tag that is named 'insert' or 'delete', which no page sends, and `insert` raises at `pps.py:53`
  in every case. The constructor, which `/sendChanges` does run, is modelled.
* `clearText` (its route does not exist); cookies and the list of user names on the page, which
  nothing reads; the cursor.
* The vendored libraries, which are most of the repository by size.

## Plan

*Restarts.* `AttachedOnce` with `MaxStarts > 0`, which the run `faults` checks: the copies of a
change have to be counted over the logs of all server processes.
