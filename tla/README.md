# Verification of the edit-kit booking system

TLA+ models of the program in `src/` (a Next.js application over PostgreSQL that
books, hands over and takes back edit kits), model-checked with TLC and, for the
results listed in section 4, proved with TLAPS. Paths are relative to `src/src/`
unless they start otherwise.

## 1. The system and its parts

A *kit* is a case of equipment (*assets*). A *booking* promises one kit to one
editor for a window `[bookingStart, bookingEnd)`. The engineer hands the kit over
(HANDOVER inspection: equipment lines, checklist answers, photos, two signatures)
and takes it back (RETURN inspection: an outcome per line, raised issues,
signatures). State is in PostgreSQL, except image files and the sign-in limiter's
map. A server action checks a permission, parses the input and calls one service
function, which as a rule runs one interactive transaction. There are no background
jobs: time enters only as `new Date()` in a call or a page.

| Part | State | Operations | Talks to | What makes it correct |
|---|---|---|---|---|
| Booking rules (`lib/booking-rules.ts`) | none | transitions, edit scope, overlap, overdue / due soon / punctuality, schedule validation | everything below | half-open windows; the rules cover the database's constraints |
| Booking lifecycle (`bookings.service.ts`, `bookings.dal.ts`) | `Booking`, its checklist items | create, reserve, return to draft, ready, revert, cancel, update, prepare | readiness of kit and editor, exclusion constraint | no kit promised twice; what a ready booking rests on stays |
| Handover, return (`handover.service.ts`, `return.service.ts`) | inspections, lines, checks, signatures | start, save, sign, complete | booking, kit, assets, issues, files | what was signed is what is on record; what is out can come back |
| Kits, assets (`kits.service.ts`, `assets.service.ts`) | `Kit`, `KitAsset`, `Asset`, status log | create, update, remove, add / edit / remove a member | bookings, handover, return | an asset in one kit; status follows custody; a handed-over kit keeps its contents |
| Editor directory (`editors.service.ts`) | `EditorProfile` | create, edit, (de)activate, link, remove | bookings, accounts | no live booking for an inactive profile |
| Issues, numbering (`issues.service.ts`, `numbering.service.ts`) | `Issue`; counters | report, assign, resolve, close, reopen; next number | returns | a finished issue says why; numbers without gaps |
| Accounts, sign-in (`admin.service.ts`, `server/auth/`) | `User`, session versions, failed attempts, sliding window | role, status, unlock; local and LDAP sign-in | everything, through permissions | revoked is signed out; an administrator is left; only wrong passwords lock |
| Directory client (`server/auth/ldap/directory.ts`) | one connection a sign-in | connect, bind, search, bind | the corporate directory; sign-in | who is vouched for has proved the password; only a wrong password is called one |
| Templates (`admin.service.ts`) | checklist templates, default flag | activate, default, remove | kits, bookings | the default can be used |
| Photos, signature images (`photos.service.ts`, `server/storage/`) | files and rows | upload, remove | inspections, issues | file and row agree; settled evidence stays |
| Database constraints (`src/prisma/migrations/`) | - | exclusion of overlapping holds, checks, partial unique indexes, lock trigger | everything | the last word in every race |
| Read side (`server/dal`, `server/reports`, dashboard) | projections of rows | lists, tabs, figures, reports, trails | - | the same question gets the same answer everywhere |
| Pages and forms (`features/`, `lib/validation`, `server/actions`) | what the browser shows and posts | open, type, sign, submit | services | what is offered is accepted; what was put down is stored, and nothing else |

The isolation level matters: most services use READ COMMITTED and read without a
lock; `completeHandover` and `completeReturn` are SERIALIZABLE and lock the
booking's row first.

Hard here: long legal sequences in which any operation may be tried in any status;
windows that meet at an instant; calls that decide on rows that change before they
write; completions that wait for a lock; files and rows that are not one
transaction; a page, or a form, that is older than the record; one question (is it
late, is it out) asked in SQL, in local days and in the browser. `PROJECT.json`
lists every hazard with its line and the property that covers it, and every
component with what is left out of it.

## 2. Modules

| Module | What it models |
|---|---|
| `BookingRules` | `lib/booking-rules.ts` and the CHECK constraints, as operators |
| `BookingLifecycle` | bookings, custody, kit labels, fitness, profiles; one action per service function, each a committed transaction |
| `KitCustody` | abstract specification: which kit is out with which booking |
| `BookingSafety` | properties of the lifecycle, its refinement of `KitCustody`, and statements of the documentation that the code refutes |
| `Pages` | what the booking page and the kit page say and offer, over the lifecycle's state |
| `BookingTransactions` | the calls on one kit's bookings, statement by statement |
| `BookingClock`, `ZonedTime`, `Overviews` | one booking against the server clock; `lib/datetime.ts`; what dashboard, tabs, badges and report columns derive from the booking's times |
| `Desk` | handover and return from inside: answers, signatures, images, completion |
| `DeskForms` | the pages of the two documents, field by field |
| `Inventory` | assets, memberships and kits edited while bookings take kits, hand over what their documents list, and bring it back |
| `EditorDirectory`, `Issues`, `Numbering`, `ChecklistTemplates`, `PhotoEvidence`, `LoginLimiter` | the small protocols, with calls that cross |
| `Accounts` | accounts, sign-in, sessions, lockout; the directory's verdict is an input |
| `Directory` | the client of the corporate directory (LDAP): connection, binds, search, verdict |
| `Lists`, `Summaries` | paged lists, tabs, scopes and doors; dashboard figures, panels, reports |
| `Forms` | create and edit forms: what is shown, posted, parsed and written |
| `Histories` | the trails of a kit, a piece of equipment and an editor |
| `BookingProofs` | proofs about `BookingSafety` |
| `TransactionProofs` | proofs about `BookingTransactions`, `BookingClock` and `Overviews` |
| `DeskProofs` | proofs about `Desk` and `DeskForms` |
| `InventoryProofs` | proofs about `Inventory` |
| `OfficeProofs` | proofs about the small protocols and `Histories` |
| `FormProofs` | proofs about `Forms` |
| `AccountProofs` | proofs about `Accounts`, `Lists` and `Summaries` |
| `DirectoryProofs` | proofs about `Directory` |
| `MCBookings`, `MCKits`, `MCTransactions`, `MCDesk`, `MCInventory`, `MCAccess`, `MCOffice` | small instances for TLC |

### How state and actions correspond to the code

Actions carry the names of the service functions; their guards are the functions'
throws, one conjunct each; a refused call rolls back and is no step. Helpers called
on the way (`setKitAside`, `assertReservable`, `refreshInspectionStatus`, ...) are
operators inside the action. Variables marked `(history)` have no counterpart: they
remember what a property compares with.

- **`BookingLifecycle`**: `status`, `kitOf`, `window`, `editorOf` are the `Booking`
  row; `checklist` its items, as `checklistPreparation` sees them (none, open,
  complete): a step that copies the kit's template takes what is in it as an input, and
  a refusal takes the copy back. `handoverDoc`, `returnDoc` are the live inspections;
  `docKit` the kit whose equipment the handover lists, and `docRequires` whether one of
  its lines is required: completion is blocked when such a line is not in the booking's
  kit (`LinesStillInKit`). `kitStatus`, `removedKits` the `Kit` row; `contents` what
  `evaluateKitAvailability` sees of the equipment; `activeEditors` is
  `EditorProfile.isActive`. `setKitAside` silently does nothing when the kit is
  neither AVAILABLE nor RESERVED, and `reserveBooking` and `revertReadyForHandover`
  share a target status, so each accepts the other's starting status too: both as
  in the code. Which answers are given, which lines leave and what breaks is a
  nondeterministic choice.
- **`BookingTransactions`**: a call is a record: how far it is (`read`, `locking`,
  `booking`, `kit`, `done`, `failed`), what it saw and what has committed since.
  A READ COMMITTED call reads, decides, then updates by primary key whatever is
  there; a SERIALIZABLE one takes a snapshot, waits for the booking's row and fails
  when a row it touches was changed. Any call may roll back at any statement. Row
  locks, lock waiting, snapshots and the exclusion constraint are PostgreSQL's and
  marked external.
- **`Desk`**: `stage` is `Booking.status` from ready on, `doc` the two inspections
  with lines, the required check, live signatures and the frozen document, `files`
  and `rows` the images and the `Signature` rows. A save checks, writes its answers,
  works out the status, commits: four steps, because another desk may come between.
  A capture writes the file, then the row; the process may die in between or not
  hear of its commit.
- **`DeskForms`**: `page` is what one person's browser holds (fields as rendered,
  fields typed, pads, the tick), `world` the record, which others change
  through pages of their own. After an accepted post the fields show the record
  again and only component state is kept; after a refusal the page is opened again
  (what React leaves in the fields then is not modelled). Everybody who may open these
  pages may perform and complete, so permissions do not appear.
- **`Inventory`**: every edit reads, decides and writes in two steps; a booking's own
  steps are those of the lifecycle, one step each. `member` is the `KitAsset` row, a
  former member's included, because whether a line is required is read from it. `lines`
  are the lines `startHandover` lists, once; they stay through a revert, a return to
  draft and a change of kit, and completion writes them and not the members.
  `left` are the lines recorded INCLUDED. `strayed` (history) remembers equipment that
  some completed document listed although it was not in its booking's kit.
- **`EditorDirectory`, `Issues`, `ChecklistTemplates`, `Accounts`**: calls read a
  row, decide, and write over whatever was committed meanwhile; `missed` in a call
  says that something was. Making a template the default takes two statements,
  with the row locks of the first.
- **`Directory`**: `settings` is `DirectorySettings`, `person` the entries of the
  directory, `signIn` one call of `authenticate`: connecting, the bind of the service
  account, `findOne`, the bind of the person; or, without a service account, the bind
  of the principal and the search for its entry. Any of them may lose the connection,
  and an entry may change between two. What the directory does (whom it takes a
  principal for, that a bind with an empty password is anonymous and succeeds) is
  marked external; filters are modelled by whom they match.
- **`Numbering`**: the counter's increment belongs to the transaction that writes the
  numbered row, at READ COMMITTED or SERIALIZABLE, and the period is worked out once.
- **`PhotoEvidence`**: check, file, row, audit entry, one after the other; the
  clean-up; the process may die between any two.
- **`LoginLimiter`**: asking and recording are apart, because a password is verified
  in between; the sweep; a restart that forgets everything.
- **`Lists`**: a request resolves the account, counts, then reads a page, in three
  statements with no transaction, while others write; `Summaries` reads the same rows.
- **`Forms`**: `row` the record, `form` the fields as shown, `typed` what the
  person touched. Disabled controls, unticked boxes and absent controls post nothing;
  schemas parse, services write.
- **`Histories`**: an operation is only what it leaves in the tables a trail reads.

`BookingLifecycle` treats a call as one step. For the completions that is what
`CompletionsOverwriteNothing` supports; for READ COMMITTED calls it is an
idealisation, and `doc_cancelled_while_out` shows what the interleavings add.
Results about `BookingLifecycle` are results about calls that do not overlap in
time; the crossings are the business of `BookingTransactions`, `Desk` and
`Inventory`.

## 3. Runs

Passing runs. Components that share no state are put into one run: a variable
`scene` says which of them a behaviour belongs to, and the others rest in one
initial state, so a run has the sum of the state spaces and not their product.

| Run | What a behaviour is | What the run shows |
|---|---|---|
| `kits` | the lifecycle: two bookings and one kit over all pairs of windows, or two bookings that move between two kits | `NoOverlappingHolds`: no instant of a kit promised twice. `ImplementsCustody`: label and custody agree, one booking has a kit, only its return ends that (`CheckedOutExactlyWhileOut` and `LeavesCheckedOutByReturn`, which follow from it, are proved separately). `DocumentsMatchStatus`, `CommitmentsKept`, `ReturnNeverBlocked`: documents fit the status, what a ready booking rests on is not withdrawn, blockers never keep equipment out. `PagesKeepTheirWord`: what the booking page and the kit page offer is accepted (but for setting aside a booking without checklist items), what they say of the kit is so, no booking is left without a way on |
| `races` | two calls at a time on three bookings of one kit | `NoCollidingHolds`: the exclusion constraint decides every race. `CompletionsOverwriteNothing`: a completion acts on nothing stale. No deadlock |
| `calls_end` | two calls on two bookings; or one booking and the clock | `CallsEnd` (liveness): calls never wait for each other for ever. `TimesInOrder`, `OverdueIsNotForgotten`: the row's times stay in order, and lateness stays on record. `OverviewsAgree`: dashboard, tabs, badges and reports give one answer about a booking, also around a clock change |
| `desk` | two people's calls on one booking's documents; or one page of a document while others change it | `SettledAsSigned`, `LeavesWholeAndSigned`, `ReturnAccountsForAll`, `ImagesMatchSignatures`: what was signed is on record, nothing leaves incomplete, what left is accounted for, images and rows agree. `StoredAsPutDown`: a save writes what was set on the page and nothing else. `OffersHold`: page and service agree on what can be done |
| `inventory` | two clerks edit an asset, a kit and its contents across a booking's steps; or one clerk moves equipment between two kits that two bookings' documents list | `MembershipsAreSound`, `CheckedOutWithItsKit`, `AvailableAfterReturnIsFit`, `ContentsAreFrozen` |
| `access` | administrators and people signing in; or two readers walking lists | `RevokedIsSignedOut`, `SomeAdministrator`, `LockoutsAreEarned`, `BreakGlassStaysLocal`; `PagesCoverTheList`, `NumbersAgree` (tabs, figures, panels and reports count the same rows), `DoorsAgree` (a booking is behind all doors or none) |
| `office` | one of profiles, issues, numbers, templates, photos, the limiter, forms, trails, the directory | `ProfilesConsistent`, `FinishedIsExplained`, `NoGapsInNumbers`, `DefaultIsUsable`, `EvidenceHolds`, `LimiterHolds`, `SavesAreFaithful` (a save changes what was typed, to what was typed), `TrailsTellThePast` (nothing untrue, nothing twice, nothing recent left out), `IdentityIsProved` (the directory vouches for nobody whose password was not proved, over an encrypted connection), `FaultsAreNotBlamed` (no fault of the settings reads as a wrong password) |

Each property is stated in words above its definition, together with the cases the
code does not keep it in: most often that two calls *crossed*, one writing what
another had changed since it was read. What the code allows in those cases is listed
below and in `PROJECT.json` under `hazards`.

Runs that refute a statement of the repository (`expect: violation`; each finding in
`PROJECT.json` quotes the statement):

| Run | The statement | What happens |
|---|---|---|
| `doc_unchecked_reserve` | reserving checks editor, readiness, window | `revertReadyForHandover` on a draft checks nothing but the constraint |
| `doc_empty_checklist` | the page's status panel and the service's refusal agree by construction | a booking without items reads as complete; setting it aside copies the kit's template, refuses the missing answers, and rolls the copy back |
| `doc_removed_item_goes_out` | the contents are frozen because the document is signed against them, and the snapshot is taken at handover | a handover begun again after a revert keeps its lines: an optional item taken out of the kit meanwhile goes out, CHECKED_OUT in no kit or in another. A required one blocks the completion (`handover.service.ts:133`) |
| `doc_cancelled_while_out` | only the workflows leave CHECKED_OUT | a cancellation that waited for the completion's row lock does |
| `doc_last_administrator` | somebody can always grant the administrator role back | two administrators who demote each other at once have each counted the other |

Met while modelling, with no run of their own. Of the lifecycle and the desk:

- `setKitAside` does nothing when the kit is out with another booking, or when
  another ready booking of the kit gave it back: a READY booking's kit may be
  labelled AVAILABLE (`bookings.service.ts:70-71`), and the kit page says "ready".
- `reserveBooking` accepts a ready booking and leaves its kit RESERVED for nobody
  (`bookings.service.ts:494`).
- Answers can be taken back after a booking became ready (`bookings.service.ts:256`,
  against `src/ARCHITECTURE.md:937-939`, `946-947`); the completion asks again.
- A handover begun before a change of kit is kept as well: the document then lists
  another kit's equipment. It is completed only if all its lines are optional, or its
  required equipment has moved along (`LinesStillInKit`; against
  `handover.service.ts:32-33`).
- `returnVerdict` says a failed required check will raise an issue (`return.service.ts:170`,
  against `tests/unit/completion-rules.test.ts:587`); the completion raises issues for
  lines and accessories only.
- A booking none of whose lines was handed over can never be returned
  (`return.service.ts:148`).
- Past the expected return `completeHandover` fails on the CHECK
  `bookings_return_after_collection`, which no blocker announces
  (`handover.service.ts:606`).
- The lost update of `doc_cancelled_while_out` also reopens a CANCELLED booking
  (`lib/booking-rules.ts:42-43`); a late save writes a completed inspection's status
  back (`handover.service.ts:325`, `599`); `setKitAside` and a details edit write a
  stale label (`bookings.service.ts:356`, `kits.service.ts:96`).
- The second of two completions gets a serialization error, not "already handed over"
  (`handover.service.ts:537`).
- Every save of the desk nulls accessory notes; a remark beside an unanswered check is
  lost; an unanswered radio of a stale page deletes another's answer; after a second
  signature the pad stays open with its ink.
- An accessory left INCLUDED of a line that stayed behind counts as handed over but is
  not on the return form; one that did not go out but is marked missing raises an
  issue no warning named; "Raises N issues" leaves out failed checks.

Of reading:

- The kit page offers the return of a kit that is out only if no earlier uncollected
  booking of it exists (`kits.dal.ts:104-107`, `kits.service.ts:841-860`, against
  `src/ARCHITECTURE.md:2872`); `StatesAreTrue` holds, the offer is missing.
- A planned collection is told as one that took place (`kits.dal.ts:891`,
  `editors.dal.ts:627`; against `src/ARCHITECTURE.md:1995`, `2140-2142`), and counts as
  time on the road and times out (`reports/definitions.ts:308-309`, `269`, `327`).
- `audit.dal.ts:115` calls its order total, but `createdAt` is not unique; the lists of
  editors, issues, users and software and the reports have no unique last key either,
  so `PagesCoverTheList` speaks of bookings, kits, assets and categories only.
- `runReportCsv` exports one page (against `reports.service.ts:109`, "all rows"); an
  EDITOR lacks `report.read` although a comment has editors run "my bookings".
- In a zone that puts its clocks back to midnight (Atlantic/Azores, America/Havana)
  `startOfBusinessDay` gives the second midnight for an instant after the change, an
  hour after the day began (`lib/datetime.ts:86-87`, "handle a DST change between
  `date` and that midnight"); in one west of Greenwich that puts them forward from
  midnight (America/Havana) a filter from that day starts at 23:00 the day before
  (`lib/datetime.ts:208-209`). `OverviewsAgree` is about zones without such a change.
- An asset's trail loses an earlier stay in a kit when it is added again, and keeps the
  line of a cancelled booking's started handover as in progress; trails cut rows by
  their creation, so a recent milestone of an old booking may be missing.

Of the office:

- `SomeAdministrator` and `DefaultIsUsable` speak of calls that do not cross. The races
  themselves are lost by the code: two administrators can remove each other
  (`doc_last_administrator`), and two templates made the default at once both are
  (`admin.service.ts:290`, "Exactly one template is the default").
- While a kit or an asset has a status of a workflow, the status select of its form is
  disabled and posts nothing, which the schema refuses: no correction of its details is
  ever saved (`features/kits/components/kit-form.tsx:126`, against "Its details can still
  be corrected." of `app/(app)/kits/[id]/edit/page.tsx:31`).
- A photo whose audit entry fails loses its file and keeps its row.
- Issues may take photos while RESOLVED, though their page offers it only while they
  are editable.
- A blank requester, project name or category code keeps the old one; a sort order out
  of range silently becomes 0; switching an editor's type drops department or company;
  `updateKitAsset` has no lock on the contents.

### Bounds

- `kits`: bookings are never deleted, so `Bookings` bounds how many are ever made.
  Every property speaks of one booking, one kit, or two bookings of one kit; two
  bookings make every pair, two kits let an edit move one. The three windows are
  adjacent and overlapping, all the overlap predicate distinguishes beyond disjoint.
  Where bookings move between two kits nothing is broken, no kit is in maintenance and
  every checklist is complete; where there is one kit, a document is always of the
  booking's kit, so it need not be told whether one of its lines is required. `DAMAGED`,
  which no guard tells from `MAINTENANCE`, is left out of both.
  All its properties but the pages' are proved for any number of each.
- `races`, `calls_end`: two calls at once make any race of a pair; finished calls make
  room, so the third party of a race can be one that came and went. The instants lie on
  both sides of, and exactly at, the lead hour, the due-soon horizon (both one hour
  here) and the grace of 15 minutes. A day is one hour (`Day = 60`), so that the same
  instants fall on several days; the zones change their clocks away from local midnight
  by 3 ticks. The default `APP_TIMEZONE`, Asia/Dubai, never changes, and the zones of
  the European Union but the Azores change an hour or more from midnight.
- `desk`: a required camera and an optional tripod (with a charger attached on the
  page), one required check, two calls at once; the editor may sign the handover twice,
  because re-signing is where images and rows part. `InScene` keeps answers of every kind
  apart from captures that die and are taken again. On the pages two gestures, two
  posts and one step of somebody else suffice for: draw, save, sign again, save; a stale
  save; tick, then complete what changed.
- `inventory`: `MaxCrossings = 0`: a behaviour is followed up to and including the step
  in which the first two edits cross. Scene "edits": two clerks, one asset, one booking
  and two kits, one of which only ever gains or loses the asset. Scene "documents": one
  clerk, who moves memberships only and is not overtaken, two kits and two bookings; one
  asset goes between the kits, the other in and out of one, which lets a document list
  what has left, what is in the other kit and what another booking took; nothing is
  damaged or in maintenance there. In both a draft has no document. The statuses
  left out are written where `DAMAGED` is, or (`RESERVED` of an asset) nowhere. None of
  these bounds is in the theorems.
- `access`: one local and one directory administrator, two wrong passwords lock for one
  tick; `MaxVersion` bounds changes per account. Two records with equal and
  different sort keys, pages of one row; during a walk one of them may come or go (a walk
  may begin in any state of the rows); starts before and on today, ends on today and
  past due soon. The second record, if it is a booking, started before today and was due
  before now.
- `office`: two calls cross once on a profile or an issue; two scopes (yearly, global)
  around one turn of the year; four photos and a limit of two; two attempts, a window
  of two ticks and three failures a key, so that one may have expired; one field typed and two submissions per form, in five time zones; six
  instants, two bookings and trails of one to three entries, enough for every table to
  cut the other's events off. In the directory one sign-in, which is all that a
  property speaks of, two people in eight and five shapes (the other has the same name,
  the same principal, or it for an address; elsewhere in the tree, without an id, with
  another password), and one change of an entry.
- Symmetry is used over interchangeable bookings, kits, clerks, desks and calls, and in
  no run with a liveness property.

`CHECK_DEADLOCK FALSE` where the instance really stops: all booking ids used and all
kits removed, the clock at its last instant, a bound reached. `races` has no such end
and checks deadlock; in `calls_end` a call that waits for ever would violate `CallsEnd`.

### Fairness

None but in `BookingTransactions`: people drive every step and may stop at any time, and
the clock need not move on. There each session has strong fairness on `Proceed`: the
database executes the next statement of a call under way and queues lock waiters, so a
call whose lock becomes free again and again gets it. Nothing is assumed about calls
being made, nor about roll-backs: `CallsEnd` does not lean on a timeout to break a wait.

### Mutants

Definitions marked `(Fault)` are the forms the `mutants` of `PROJECT.json` put in place
of the definition next to them: plausible bugs (a dropped blocker, a lock that ignores a
newer row), each of which breaks the property it is listed with. No specification uses
them.

## 4. Proofs

For every value of the constants satisfying the named assumptions of the modules
(distinct null values, windows of positive length, finite sets where something is
counted). One assumption is about the deployment: `Administrators \ Newcomers # {}`,
the administrator the seed creates. The bounds in the guards (`Max...`) are constants
of the theorems too, so the results hold for every bound. Finite sets are assumed where
something is counted: the sign-ins under way at once, the records of a list. Liveness
under fairness and ENABLED are out of the prover's reach. The library's induction
theorems are too (they take an operator as a parameter); where an induction is needed
it is carried out in first order, from the least counterexample
(`NatLessThanWellFounded`).

`BookingProofs` - any number of bookings, kits, profiles and windows:

- `TypeCorrect`: `TypeOK` is inductive alone.
- `OneCustodian`, `LabelTellsCustody`: neither is inductive. Two bookings would be out
  with one kit if the second could be handed over, which asks for a kit that is RESERVED;
  so the argument needs that a kit that is out is CHECKED_OUT, and conversely that the
  label leaves CHECKED_OUT only when its one booking returns. `CustodyInv` is their
  conjunction. Steps other than the completions leave custody alone (`OtherSteps`).
- `RelabelledByReturn`, `LifecycleImplementsCustody`: step by step from `CustodyInv`.
- `KitsAreNotDoubleBooked`: every step that makes a booking hold, or moves a holding one,
  has checked the window (`HoldChecked`); a holding booking's own window is free already
  (`HeldIsFree`); overlap is symmetric.
- `DocumentsAgree`, `CommitmentsHold`, `EquipmentStays`: inductive with `TypeOK`.
  `OutCanComeBack`: from `CommitmentsKept` and `DocumentsMatchStatus`.
- `PagesAreTrue`, which leaves out setting aside a booking without checklist items as
  `PagesKeepTheirWord` does: from the above and `FewInv`, that there are finitely many bookings at any
  time. A page offers by status; that the service takes it rests on the documents agreeing
  with the status, on a holding booking's own window being free (`HeldIsFree`), and, for a
  kit, on there being a current booking whenever a live one is on it (`SomeoneIsFirst`: the
  one with the fewest before it). What the services ask for is a definition of its own
  (`MayCreate`, `MayRevert`, ...), a conjunct of the action, so that no ENABLED is needed.

`TransactionProofs` - any number of sessions and bookings: `CollidingHoldsAreExcluded`,
`CompletionsAreCurrent`. Both rest on `TransactionInv`: a call is well formed for how far
it has come; it holds the locks that its place implies and two calls never hold the same
(`Apart`); what a call has claimed but not committed collides with no committed hold
(`Claimed`); and what a completion read is still so unless it is marked as missed
(`Current`). Without `Claimed` two uncommitted writers could both pass the constraint;
without `Current` nothing links a snapshot to the rows at commit.

The times, in the same module - any instants, lead time, horizon and grace: `OverlapIsASharedInstant`
(`rangesOverlap` is right for half-open windows), `ValidationCoversTheConstraints`,
`ClockTypeCorrect`, `TimesAreOrdered`, `FlagsAreExclusive` (a booking is never overdue
and due soon), and `LatenessStaysOnRecord`: `Late` (overdue now, in return after being
due, or completed after it) is preserved by every step once it holds, because the only
edit scope of a booking that is out leaves the schedule alone.

`OverviewsGiveOneAnswer`, for any set of time zones that satisfies `OverviewsAssumption`:
clocks are changed by less than half a day, and not over a local midnight. The assumption
is one on the deployment's `APP_TIMEZONE`; what happens without it is told in section 3.
The argument: on such a zone both passes of every lookup end at one instant,
`DayStart(z, k)`, wherever the first guess was made (`Lookups`), and an instant lies past
it exactly when its wall clock reads day `k` or later (`InDays`). So a typed midnight, the
start of a day, and the end found 36 hours on (`DayRangeIs`) are the same instants, and
the rounded difference of two of them is the number of days between (`DaysBetweenIs`).
What is left is arithmetic on the booking's times, for which `OverviewsInv` adds to
`TimesInv` that OVERDUE is never written and that a return date means COMPLETED.

`OfficeProofs`:

- `NumbersHaveNoGaps`: `NumberingInv` adds that a transaction that has taken a number
  holds the counter's row and starts from the value committed there, and that no two
  hold the same counter.
- `FinishedIssuesAreExplained`: `IssuesInv` adds what each call under way was let in by
  (`TaskFormed`), and that an issue nobody wrote since is as it was read (`TaskCurrent`).
- `ProfilesStayConsistent`: `DirectoryInv` adds the same of the directory's calls, and
  that a removed profile has no account and no booking.
- `EvidenceIsKept`: `EvidenceInv` ties each stage of an upload to file and row
  (`Stages`), and keeps room for the one upload that was let in while none overlap.

- `DefaultsAreUsable`: `TemplatesInv` says of every call what it may rely on as long as
  none has crossed another (`ChangeSound`): a template about to become the default is
  still offered and the rows locked are all the defaults there are, one about to be
  switched off is no default, a check about to be removed has not been copied.
- `LimiterKeepsCount`: `LimiterInv`. For each key (`KeySound`) what is left of its list
  and still counts is what counts of all that ever happened, so pruning and sweeping
  forget nothing; and those that count, with those that were let in and are still under
  way, stay below the limit and the number of sign-ins that can be. That filtering by a
  later clock equals filtering twice is an induction over the list (`FilterSound`...).
- `TrailsAreTrue`: `HistoriesInv` ties the rows to what happened: every row of the log, of
  a status log, of an inspection or an issue stands for one event at its instant
  (`RowsAreTrue`), every event that is still on record has its row (`PastIsInRows`), and
  one thing happens at a time (`RowsComeOneByOne`, `StepByStep`), so instants tell entries
  apart. The rest is about the reads. The first `k` rows of a query are those with fewer
  than `k` before them, because ranking the rows is one to one (`TheFirstAreK`); an
  entry of a trail comes from such a row (`Sound`), and an event that has none was
  crowded out of its query by `k` later ones (`Crowded`), which the cut of the merged
  trail cannot show either (`TrailKeepsTheLatest`).

`AccountProofs` - any number of users and calls, any directory:
`RevokedStaysOut`, `AnAdministratorIsLeft`, `OnlyWrongPasswordsLock`,
`LocalAccountsStayLocal`, from one invariant, `AccountsInv`: cookies are never ahead of
their account's version; what a sign-in read is older than the row when a change was
missed; and as long as no two removals crossed, a call that may take the role away still
has another administrator besides its target (`AnotherIsThere`), which is what the check
it made at the start must still mean when it writes.

The read side, in the same module - any records, readers, page size and writers:

- `OneRuleBehindTheDoors`: from the types; every door asks the same predicate.
- `TheNumbersAgree`: `ListsInv` is the types; that the
  sum of the tabs is the count of the list is an induction over the smallest set of
  records for which it fails (`SumIsUnique`).
- `WalksShowEverything`: `WalkInv` (`OnTheWay`): while nobody writes, what the request has
  read is still so, the pages shown are the beginning of the list in its order, and they
  have not run past its end. It needs that there is one order only (`OneOrder`), which is
  what the unique last sort key gives: two orders differ at a first place, and that place
  would hold two records with equal keys.

`DirectoryProofs` - any number of people and sign-ins, whatever the directory says of
them: `WhoSignsInHasProved`, `OnlyWrongPasswordsAreBlamed`. Neither is inductive: a verdict
is the end of four steps. `DirectoryClientInv` adds what a sign-in has got so far and may
rely on unless an entry was changed (`Progress`): that nothing was refused at once, that
the channel is encrypted, whom the accepted bind was for, that the entry found is the
only one of that name.

`InventoryProofs` - any number of kits, assets and clerks, however many edits cross:
`MembershipsHold`, `CheckedOutMeansOut`, `ReturnsLeaveKitsFit`, `ContentsStay`, from one
invariant, `InventoryInv`. An edit decides in one step and writes in another, so what it
decided on is either still so (`Current`) or its `missed` is set, and then the write puts
its kit or asset among the `crossed`. On the others each row is sound: what is in a kit
is in the inventory (`KitSound`, `AssetSound`), the log ends with the status, what is
CHECKED_OUT left with a booking that is out, and what left is in that booking's kit and
CHECKED_OUT unless the document listed it although it was not in the kit. Documents
outlive reverts and changes of kit, so two of them may list one asset; `OneKit`, the
unique index, with each kit being out with one booking at a time, makes sure that only
one of them took it out, as long as it did not stray.

`DeskProofs` - any equipment, any number of desks, captures that die at any point:
`DocumentsStaySettled`, `HandoversAreWhole`, `ReturnsAccountForAll`,
`SignaturesKeepTheirImages`, from `DeskInv`. Its core is `CallSound`: a completion found the
answers complete and signed, and unless a row it writes was written since, the booking
is where it was and the answers are those it read (`DecisionSound`); a save that was let
in by a document that is locked by now has been overtaken (`LetInSound`); an image a
capture has stored is named by no row and no other capture (`HoldsImage`, `OwnImages`).
`StageSound` ties the booking's status to documents and equipment. Of the pages, any
document and any number of gestures, posts and other people's steps:
`PagesOfferWhatIsTaken`, `PagesStoreWhatIsPutDown`, from `DeskPagesInv`: whatever others do,
an untouched field shows what the page read, a pad counts as inked only with a drawing,
and no signature the page knows of is taken back.

`FormProofs` - every kind of form, any readings, any time zone that changes its clock
once, any number of fields typed and of submissions: `FormsSaveWhatIsTyped`. `FormsInv`
says what a stored record of each kind looks like (`GoodRow`: a required text is there, an
editor has a department or a company by its type, a schedule is consistent) and that a
field of an open form nobody has touched shows the column as the page read it
(`ShowsTheRecord`), whatever happens to the record meanwhile. Then a save is three facts
about one field: what shows a column is read back as it (`ReadBack`), what is typed is
written as it says (`ColumnSays`), and each service writes every field it is sent or
keeps the one it has (`WrittenIsRight`, kind by kind). For the instants the first is
`LookupReturns`: the two passes that turn a reading into an instant give back the instant
a form shows, in the hour the clock repeats too, if it is one such a lookup gave. It is
why `GoodRow` says that stored instants came from readings: of the two instants of a
repeated hour one does not come back, and no form can store it. The property needs that the one date which may be missing is told from every instant
(`FormsAssumption`).

Only model-checked: `CallsEnd`, which is liveness.

## 5. Not modelled, and why

- The wire protocol of the LDAP library, its time limits and certificates: `Directory`
  takes their failure as one step that may happen anywhere.
- The audit log: one append-only insert in each transaction, read by no decision; its
  viewer is one table, newest first.
- Layout and wording: documents and PDFs, QR labels, navigation, tables, badges, themes,
  messages, column texts and the CSV writer. What a form keeps in its fields after a
  refused submission is React's and is left out.
- Texts, names, severities, serial numbers and search terms: no property tells them
  apart; what is unique about them is the database's.
- Items of templates, a kit's software and the software catalogue: copied, never shared;
  their forms are in `Forms`. Removing an accessory: documents have copied it.
- Maintenance records: nothing in the program opens or closes one; `Inventory` lets them
  come and go.
- The activity lists of one booking and of one issue: a single table each.
- Seed, scripts, environment parsing, containers, CI, tests.
