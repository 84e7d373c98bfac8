# TenantSwap backend: TLA+ models and proofs

A verification project for the TenantSwap backend: what its matching,
request and chain handlers do when they interleave, run out of time or die
half-way. Paths are those of the repository; `matching.service.ts` is
`src/modules/matching/matching.service.ts`.

## 1. The system

A NestJS server, one Node process, over Postgres through Prisma. A request is
handled by one asynchronous method; each awaited database call is atomic, and
between two of them any other handler may run. There are no row versions and
no explicit locks, and one interactive transaction (`finalizeInterestConfirmation`,
READ COMMITTED). Most updates are by id, whatever the row has become since it
was read; some (`updateMany` with a status in the `where`) ask again.

| Component | State it keeps | Operations | Reached by |
|---|---|---|---|
| Listings | `SwapListing` status, `expiresAt`, matched request | create, renew | owner |
| Interest requests | `ListingInterest` status, `expiresAt`, `createdAt` | request (two caps), approve, decline, confirm by either side | requester, owner |
| Lifecycle sweeps | none of their own | close overdue listings, break overdue chains, expire overdue requests, in batches | every matching handler before its own work, and a 60 s tick |
| Swap chains | `SwapChain`, `SwapChainMember`, `ContactUnlock`, `ContactUnlockApproval` | propose, accept, lock, decline, break, unlock contacts, approve an unlock | members, administration, sweeps, confirmations |
| Match graph | `MatchCandidate` (written only) | score edges, find the direct pair or the shortest ring | matching runs, the user's and the reruns |
| Admin controls | none | expire overdue chains, break, expire, rerun a chain; penalty, unblock | administration |
| Reliability | `User` score, counts, cooldown, block; `ReliabilityEvent` | cancellation, no-show, manual penalty, clear; a guard | decline, administration, every guarded route |
| Billing | `User` subscription, `PaymentTransaction`, `PaymentWebhookEvent` | checkout, webhook; a guard | user, payment provider |
| Authentication | attempt maps in memory, verification token in `User` | register, login, verify, resend | anybody |
| Notifications | `UserNotification` | append | every handler above |
| HTTP shell, AI tips, users | none | envelopes, errors, throttling, tips | framework |

How they interact: every matching handler runs the three sweeps first; a
sweep that closes a listing expires its open requests and reruns the matching of
those who asked; a rerun may propose a chain; a confirmation marks two listings
MATCHED, releases rivals, reruns these, then breaks the chains in conflict, which
reruns their members. Chains and requests meet in the listings only: a chain is
proposed of ACTIVE listings, and a confirmation breaks the chains of the two it
matched. Declining a chain lowers the member's reliability, and the guards in
front of the routes read that and the subscription.

What makes each correct:

- listings: what can wait for someone has a deadline; a match has two sides and is not taken back;
- requests: no contact without the owner's consent, one renter, caps, rivals released, nothing overdue stays open, expiry undoes no answer;
- chains: proposed once, locked only by everybody's acceptance, broken by expiry only when out of time, contacts only after the lock;
- reliability: a penalty is counted once and lifted when it is lifted;
- billing: an event is applied once, and the latest one wins;
- authentication: attempts are limited, a token is used once.

The hard behaviours are races between two handlers that each read, then write;
the tick against handlers; reads that are old when they are acted on; and
handlers that die between two calls, whose earlier writes stay. `PROJECT.json`
lists them as hazards with the line where each bites.

## 2. Modules

| Module | What it is |
|---|---|
| `Sweeps` | the query shared by the three sweeps: rows past their deadline, oldest first, limited |
| `ListingInterests` | listings, requests, their sweeps, confirmation |
| `ExclusiveRenting` | abstract: confirmed requests, one per apartment and one per tenant's listing |
| `SwapChains` | runs, chains, their breaks, contact unlocks |
| `ChainConsent` | abstract: a chain is proposed once, agreed by all while open, over once broken but for acceptances that crossed the break |
| `Reliability` | the reliability columns of a user, their events, and the guard that reads them |
| `Billing` | payment webhooks, the transaction and subscription they write, and the guard that reads it |
| `Authentication` | attempts and locks in memory, accounts, verification tokens |
| `MatchGraph` | scores, edges, the search for pairs and rings, and which one a run picks |
| `MCListingInterests`, `MCSwapChains`, `MCReliability`, `MCBilling`, `MCAuthentication`, `MCMatchGraph` | the small instances |
| `ListingInterestsProofs` | theorems of every interleaving of `ListingInterests` |
| `ListingInterestsSerialProofs` | theorems of one handler at a time, ticks beside it |
| `SwapChainsProofs` | theorems of every interleaving of `SwapChains` |
| `SwapChainsConsentProofs` | theorems of every interleaving of `SwapChains`: consent, and what a confirmation leaves |
| `ReliabilityProofs`, `BillingProofs`, `AuthenticationProofs`, `MatchGraphProofs` | theorems of these four modules |

### ListingInterests

State: `clock`; `listing[l]` (status, deadline, request that matched it; NONE
stands for a row not created); `interest[i]`, a request being its unique key
`<<listingId, requesterListingId>>`; for each process `pc` and `mem`, what it does
next and what it has read. `agreed` and `late` are history variables: the requests whose
owner approved or confirmed, and the listings matched while a renewal had read
them. `fails` counts handlers that died.

A process is a `Worker` (one request in flight) or a `Timer` (a lifecycle tick).
Each awaited call is one action, which holds the code up to the next await:

| Code | Actions |
|---|---|
| `expireListings` | `ExpireListings`, then per listing `CloseExpired`, `FindStaleInterests`, `ReleaseStale`, reruns |
| `expirePendingChains` | `ExpirePendingChains`: which of `Chains` broke is any choice, their members are rerun |
| `expireListingInterests` | `ExpireListingInterests`, `ExpireInterest` per request, rerun, `InterestsSwept` |
| `runForListing` | `RunForListing`, `RerunRead`, `RerunClose` (the inline close of an overdue listing) |
| `rerunListingsForMembers` | `RerunListingsForMembers`, `RerunRead` per listing, `RerunDone` |
| `requestInterest` | `RequestInterest`, `CheckOpenCap`, `CheckDailyCap`, `FindRequesterListing`, `UpsertInterest` |
| `approveInterest`, `declineInterest` | `ReadForApproval`, `ApproveInterest`; `ReadForDecline`, `DeclineInterest` |
| `confirmRenter`, `confirmTakenByRequester` | `ConfirmRenter`, `ConfirmTakenByRequester` |
| `finalizeInterestConfirmation` | `TxTarget`, `TxRequester` (the two reads), `TxCommit` (all its writes; other handlers see them at the commit, and row locks order two commits), reruns |
| `ListingsService` | `CreateListing`, `ReadForRenewal`, `RenewListing` (no sweep) |
| a refusal, a read-only handler | `Return`, or the disjunct of a check that ends the handler |
| a rejected call, the end of the process | `Fail`: what was written stays |

Which operation a handler performs is chosen after its sweep, which does not
depend on it; that halves the states and loses no interleaving. Wishes are the
constant relation `Compatible`, since nothing changes a listing's fields.
Statuses no code path writes (DRAFT) are left out.

### SwapChains

State: `chain[c]`, a chain being its unique `cycleHash`, so the set of its
members, with status, deadline and the members that accepted; `unlock[u]`, a row
of `ContactUnlock` with its approvers; `active`, the listings a run may match;
processes as before. `late` is history, the chains on which two handlers crossed: broken
while an acceptance that had read them PENDING was under way (`lock`), locked
while an expiry that had read them was (`expiry`), missed by the breaks of a confirmation
because they were about to be proposed when it looked, or because its handler
died (`left`). `IsCycle` says when members can be ordered in a ring;
`BestCycles` is a direct pair before a ring and a short ring before a longer, with
any choice where the code uses scores, which are not kept.

| Code | Actions |
|---|---|
| `breakChainAndRecover` | `ReadForBreak`, `BreakChain`, reruns of the members, `BreaksDone` |
| `expirePendingChains` | `ExpirePendingChains`, then the breaks |
| the other two sweeps | `ExpireListings`, `ExpireListingInterests`: they rerun some listings of `Swept` |
| `runForListing`, `createChainFromCycle` | `RunForListing`, `FindExisting`, `FindLocked`, `CreateChain` |
| `acceptChain` | `ReadForAccept`, `AcceptChain`, `CountAccepted`, `LockChain` |
| `declineChain`, `breakChainByAdmin` | `DeclineChain`, then the break |
| `finalizeInterestConfirmation`, `breakChainsForListings` | `ConfirmInterest`, `BreakChainsForListings`, then the breaks |
| `requestContactUnlock` | `RequestContactUnlock`, `CreateUnlock`, `ApproveOwnUnlock` |
| `approveContactUnlock`, `getChainDetail` | `ApproveContactUnlock`; `ContactsShown` is what the latter shows |
| creation, renewal, expiry and matching of a listing | `ListingOpensOrCloses`: any listing of `Restless`, any time |

`runForUser` sweeps, and `runForListing` sweeps again; `RunForUser` goes from the first
sweep to the search, since a second one takes only steps that the first may take.
The reads of `runForListing` (its listing, the active ones, their scores) are one
step: what they found is asked again by `FindExisting`, `FindLocked` and the unique `cycleHash`.

`ListingInterests` and `SwapChains` describe the same processes at two of their sides: each keeps
the whole control of the sweeps and reruns and replaces the other's data by a
choice (`ExpirePendingChains` in the first, `active` and `Swept` in the second).

### Reliability

State: `user[u]` (score, counts, cooldown, block), `events[u]` (the rows of
`ReliabilityEvent` added up), and for each request in flight `pc` and `mem`, the
columns it has read. `charged[u]` is history: the penalties written, added up;
`crossed` is the users two of whose calls were in flight at once, to say what
holds of all users and what only of the others. The clock counts hours.

| Code | Actions |
|---|---|
| `ReliabilityGuard.canActivate`, `getRestrictionState` | `CanActivate`, `Refuse`; an ADMIN passes without being looked up, so `Users` are those of role USER |
| `declineChain`, `recordCancellation` | `ReadForCancellation` (of an admitted request), `RecordCancellation`, `AppendEvent` |
| `breakChainByAdmin` with an offender, `recordNoShow` | `ReadForNoShow`, `RecordNoShow`, `AppendEvent` |
| `applyUserPenalty`, `applyManualPenalty` | `ReadForPenalty`, `ApplyManualPenalty`, `AppendEvent` |
| `unblockUser`, `clearRestrictions` | `ClearRestrictions` (its read asks only whether the user exists), `AppendEvent` |
| any other guarded route | `CanActivate`, `Return` |

The update sets the columns it names from the row that was read and leaves the
others, so `WithCancellation(row, read)` takes both. `Date.now()` is read just
before the update is sent; here it is the clock of the update.

### Billing

State: `user[u]` (subscription status, reference, end), `tx[r]` (the
`PaymentTransaction` of a `providerReference`), `recorded` (`PaymentWebhookEvent`),
and each delivery in flight. `paid`, `written`, `last`, `crossed` and `died` are
history. An event is a (provider, eventId) with its type, reference, user and
end date as constants, since they are in its payload.

| Code | Actions |
|---|---|
| `createCheckout` | `CreateCheckout` |
| `handleWebhook` up to the duplicate check | `TurnAway`, `HandleWebhook` |
| `processWebhookEvent`: dates, `resolveUserFromWebhookData` | `ResolveUser` |
| `upsertPaymentTransaction`, `user.update` | `UpsertPaymentTransaction`, `UpdateSubscriber`, in the order of `FirstWrite` |
| `paymentWebhookEvent.create` | `RecordEvent`; the unique key makes a second row an error, which ends the delivery after all is done |
| `SubscriptionGuard`, `getMySubscription` | `HasAccess` |

What the code cannot see to is assumed of the provider: the events of a reference
name the user who pays under it, or nobody, and a reference of a checkout has no
events before the checkout.

### Authentication

State: `attempt[k]`, the two maps as one function of addresses and phones;
`account[p]` (email, verified, token, expiry), `tokens` (a token is its number, so
none is guessed); `sessions` and `links`, history. A restart empties the maps and
ends the requests in flight.

| Code | Actions |
|---|---|
| `register` | `Register`, then `CreateUser` or `IssueToken` |
| `resendEmailVerification` | `resendEmailVerification`, `IssueToken` |
| `verifyEmail` | `FindToken`, `verifyEmail` (by id) |
| `login` | `LoginLocked`; or `Login`, `FindUser`, and `FailLogin` or `PassLogin` |
| `assertNotLocked`, `recordFailure`, `combineAttemptFeedback` | `Kept` and `Locked`, `recordFailure`, `combineAttemptFeedback`, between two awaits, hence within one action |

### MatchGraph

State: `home[l]` of the ACTIVE listings, the `score` of their owners (each listing
has an owner of its own) and what the last run `found`. Scores are computed as in
the code, cities as sequences of tokens and dates as days; `Math.round` is exact
(the code's quotients are floating point, which could differ at a half). Ties, which the
code settles by the order of an array, are a choice. The depth-first search of
`findCyclesFrom` is written out level by level: `Longer` is one level, a path
grown by each edge to a listing not yet on it, and `Paths` has the three levels
that the limit of four listings leaves. What it finds is compared with `Swaps`,
which says what a ring is without a search.

A definition marked `slip` is a plausible mistake in the definition after it; it
is used by nothing but the mutants of `PROJECT.json`, each of which shows that a
property depends on the code being as it is.

## 3. Runs

| Run | Instance | Shows |
|---|---|---|
| `listings_ticks` | two listings wanting each other's, a worker and a fair tick, clock to 2 | `MatchSettled`, `BothSidesMatched`, `ExpiryEndsOnlyOpen`, `SweepClosesOnlyOverdue`, `OverdueRequestsEnd` |
| `listings_handlers` | three listings, four requests, two workers, one failure | `BothSidesMatched`, `ContactNeedsOwner` |
| `listings_serial` | the same requests, the third listing created on the way, one worker, a chain that may break, clock to 2 (two days), an open cap of 2 (so that a tenant has rival requests of its own), a daily cap of 1 | `RivalsReleased`, `DailyWithinCap`, `MatchedStays`, `ExclusiveRentings` |
| `chains_ticks` | two pairs sharing a listing, a worker and a fair tick, clock to 2 | `PendingHasDeadline`, `ExpiryBreaksOnlyOverdue`, `OverdueChainsEnd` |
| `chains_crossing` | one pair, two workers and a tick, one failure, clock to 2 | `LockedByAll`, `ProposedOnce`, `ChainsConsented`, `MatchedLeavesChains` |
| `chains_serial` | a ring of three and a pair inside it, one worker, one failure, one unlock, a listing that opens and closes, clock to 2 | `ContactsNeedAll`, `ChainsConsented`, `MatchedLeavesChains` |
| `penalties` | one user, two workers, three calls, one failure, hours of 1 to 3, clock to 4 | `NeverOverPenalised`, `RestrictionsEnd`, `SoleCallsAddUp`, `OnlyStaffShortens`, `NoCancellationWhileRestricted` |
| `webhooks` | one user, two references, six events (two name nobody), two workers, four deliveries, one failure | `RecordedWasApplied`, `AccessIsPaid`, `CanceledEndsAccess`, `SoleDeliveryAppliesOnce`, `TablesAgree` |
| `logins` | two phones, one email, one address, two workers, restarts, clock to 3 | `AttemptsBounded`, `SessionNeedsVerified`, `LinkWorksOnce`, `AnswerTellsLock` |
| `graph_runs` | five listings, each one of six homes or none, two reliability scores | `FindsBestSwap`, `PartnersDoAsWell`, `PenaltyOnlyLowers` |
| `two_renters` | two workers, two rival requests | `OneRenter` broken: both are confirmed |
| `two_locks` | one worker, two pairs sharing a listing | `OneLockPerListing` broken, without any race |

Bounds. `MaxClock` stops the clock, `MaxFails` the failures, `Unlocks` the unlock
rows, `Restless` the listings that open and close at will. TTLs of 1 and a
clock to 2 give every row time to be made, to be overdue (the comparison is
strict) and to be renewed after; `DayLength` 2 puts a day's end at the last
instant of `listings_serial`, which checks the daily cap; the tick run has no use for it.
Batches of 1 make every sweep leave something behind. Two workers
suffice for the races here, each a handler that reads and one that writes in
between; three listings for rivals on either side and for a ring that contains a
pair. In `listings_handlers` the clock stands still: expiry
between handlers is covered by `listings_ticks`, where the worker sweeps as well. `chains_crossing`
has two handlers, the tick and the running clock at once, on one pair; chains of three, and a
confirmation with two chains to break and reruns between the breaks, are in `chains_serial`;
two pairs that share a listing, so that one overdue chain waits for the other's batch, in `chains_ticks`.
The violation runs have the fewest processes that show what they show. In `penalties` the thresholds are 2 cancellations and 1
no-show, and 40, 30 and 50 points take the score below 0 in three calls; the clock
outlives the longest restriction. In `webhooks` two references let a subscription
end while another runs, and four deliveries are an event, its repetition, and two
others in any order. In `logins` two attempts are allowed and two requests are in
flight, so a lock is overrun by as much as it can be; a clock to 3 sees a window
of 1 end twice. In `graph_runs` five listings allow a ring of four beside another
candidate; the six homes make pairs, rings of three and four, and edges that miss
by the type, by the budget, or not at all. What is proved below
does not depend on these numbers. Clocks, workers and rows are small enough for
each run to be exhaustive.

Fairness. `FairSpec` has `WF_vars(Sweep(t))` for each tick and nothing else: Node
calls the `@Interval` callback again and again, the method awaits calls that
return, and its errors are caught. Handlers may stop anywhere, and in the
liveness runs they race the ticks. Since `MaxClock` ends the clock, the liveness
properties say what happens after the last instant too: the work that is overdue
gets done. No such run allows `Fail`: a tick that failed at every call would end
nothing. The other modules have no fairness: their handlers run when a request
comes, and nothing in them must happen.

Deadlock is checked in every run: a system whose clock and other bounds are
spent can still refuse a request, and where it could not, the step is modelled
(`Refuse`, `TurnAway`).

## 4. What the code does not keep

Two runs expect a violation; each quotes the sentence it contradicts in its
finding. `two_renters` needs two handlers. Met while modelling and not
made runs of:

Listings, requests and chains:

- the open and the daily cap are exceeded by two requests that both count before either
  writes, although docs/api/endpoints.md:224 promises a 429;
- a renewal that read a listing before it was matched makes it ACTIVE again, by id
  (listings.service.ts:68), although docs/api/frontend-integration.md:67 excepts MATCHED
  ones; `BothSidesMatched` shows that nothing else does;
- two handlers may answer and confirm one request at once, and the later write
  by id leaves a MATCHED listing with a request that is not CONFIRMED_RENTER;
- an acceptance that races a decline locks, by id, a chain broken since it was
  read, although matching.service.ts:2393 accepts PENDING chains only (`late.lock`);
- an unlock asked while the chain was locked and approved after it broke still
  shows the phones, although matching.service.ts:2588 asks for a LOCKED chain;
- a chain that expiry selected while PENDING and read before its last acceptance
  is broken after it is LOCKED, which `breakChainAndRecover` (572-586) means to avoid (`late.expiry`);
- a rerun that read a listing as overdue closes it although it was renewed since
  (matching.service.ts:1144), and a request asked again while the sweep holds it is expired;
- requests made while a confirmation commits stay open on a MATCHED listing, and
  approving a released request reopens it without a deadline;
- approved requests expire like unanswered ones;
- a run whose best direct pair is a BROKEN chain ends there and tries nothing else;
- a handler that dies after a confirmation and before the conflicting chains are
  broken leaves them, and a LOCKED one has no deadline; a chain that a run is about to
  propose when the conflicts are looked for is proposed after (`late.left`).

Reliability:

- two penalties of one user at once: one is lost, and with it a count that would
  have started a cooldown;
- `clearRestrictions` between the read and the update of a penalty: the restriction is
  written back;
- a restriction that comes after the guard does not stop the cancellation it let pass;
- declining a BROKEN chain again costs the member reliability again, until the
  cooldown;
- a manual penalty may shorten a restriction; docs/api/endpoints.md:406 shows
  `"blockHours": 0`, which the DTO refuses (`@Min(1)`).

Billing:

- two deliveries of one event at once are both applied, the second answered 500;
- a late event overwrites a newer one, and a cancellation of an old reference ends
  the newer subscription: nothing compares dates or references;
- an event without an end date that is redelivered after a death extends the end;
- `getMySubscription` tells an ADMIN without a subscription that it has no access,
  while the guard lets it pass.

Authentication:

- parallel attempts all pass the lock before any is counted (`AttemptsBounded` says
  by how many); a successful login of any account clears its address;
- an attempt is dropped at the end of its window, so a lock longer than the window
  ends earlier than the `lockUntil` that was answered; a lock shorter than the
  window admits one more attempt after each lock, and with one attempt allowed the
  first answer says none remains and locks nothing (`LockAssumption` leaves both out);
- a resend that races a verification leaves a live token on a verified account, and
  two uses of one token at once both log in (`LinkWorksOnce` is about the others).

## 5. Proofs

All theorems are for any listings, owners, wishes, users, workers, ticks, limits,
caps, penalties and hours. They assume the named assumptions of the modules: workers and ticks are
disjoint, the constants have their types, TTLs are positive, `Null` is none of
the values beside it.

`ListingInterestsProofs`. `TypeCorrect` needs, beside the rows, `ControlOK`: a
process at a step that uses a request or a listing holds one. `Writers` names the
ten actions that change rows at all; every later proof goes through it.
`DeadlinedAlways`, a lemma on rows that no run checks by itself, is inductive with the type. `BothSidesMatchedAlways`
needs three things: a match names a request of which the listing is a party
(`MatchNamed`); a listing once matched stays MATCHED except by a renewal
that had read it (`MatchKept`), because sweeps and reruns ask for ACTIVE in the update
itself; and such a renewal began before the commit, since it does not read a MATCHED
listing (`RenewalsStep`). `ContactNeedsOwnerAlways` is not
inductive as it stands: a handler between its read and its write will put CONTACT_APPROVED or
CONFIRMED_RENTER on a request, so the invariant adds that what such a handler
holds is `agreed`. The two expiry theorems are action properties from the same
lemmas; for `SweepClosesOnlyOverdueAlways` the invariant adds that the time at
which a sweep looked is not in the future.

`ListingInterestsSerialProofs` assumes one worker and any ticks.
`SerialInv` relates what that worker holds to the rows. Of the rows: confirmed
requests are no rivals, an open request has no confirmed rival, both sides of a
confirmed one are MATCHED. Of the worker: what it is about to answer is neither
confirmed nor a rival of a confirmed request, the rows it read as rivals are all
the open ones, what it is about to renew or to ask for is not MATCHED. A tick only
expires open requests and closes ACTIVE listings, which keeps all of it. From it follow `MatchSettled`, `RivalsReleased`,
`MatchedStays` and that every step is a confirmation or a stutter of `ExclusiveRenting`.
It is the formal counterpart of the first finding: with two workers exactly
the clause on what the worker holds fails. `SerialDailyWithinCap` counts rows: a
new request adds one to its tenant's count of the day (`DailyInv`: a worker past
the check has room for one), and a new day counts from 0. It needs finitely many listings.

`SwapChainsProofs`. `ConsentInv` is the inductive invariant: `LockedByAll`; a
worker that is about to lock holds a chain everybody accepted; a worker about to
create or approve an unlock holds such a chain too; and unlock rows are of such
chains. It holds because acceptances are never taken back and a chain row is
written as new only where none was (`ProposedOnce`), so a
broken chain that gets locked by a late write was at least accepted by all.
`ContactsNeedAllAlways` adds that the chain of an unlock is `Sealed`: accepted by all and
PENDING no more, which nothing takes back.
`ExpiryBreaksOnlyOverdueAlways` needs `ExpiryInv`: a process that breaks for the
system holds only chains that are out of time or no longer PENDING, which
stays true (`DueStays`) because a deadline is never moved and the clock only grows, and a
tick breaks for the system only. `SparedInv` is about LOCKED ones: what such a process
has in hand was not LOCKED when it was read, so if it is now the lock crossed it.

`SwapChainsConsentProofs` assumes nothing of how many handlers and ticks there are. For
`ChainsConsentedAlways`, `AcceptInv` says that who accepts, counts or locks a chain has
one that is PENDING, or LOCKED, or was broken while it had it at hand
(`AgreeableStep`: only a break takes it away, and then the history knows); a chain not yet
proposed is accepted by nobody (`Untouched`); with `LockedByAll` every
write of a chain is then a step or a stutter of `ChainConsent`. For `MatchedLeavesChainsAlways`,
`StandingInv` speaks of the chains that are proposed or in the hand of a run about to propose
them (`Claimed`): the listings are open, or a handler owes it a break (`Owed`), or it
crossed. A chain becomes claimed only by a run that found its listings open or by a
late lock (`ClaimedStep`); listings leave by a confirmation, which owes
their chains a break from that moment (`ActiveStep`); and what a handler owes it keeps, breaks, or
leaves (`OwedStep`). `OrderInv` ties what a process holds to the label it is at, so
that it owes nothing where it begins anew.

`ReliabilityProofs`. `SoundInv` says of the row of a user, and of every row that
a handler has read and is about to compute from, that its score is not below,
nor its counts above, the penalties written, and that its restrictions end within
the longest one. A row once sound stays so, because penalties and time are only
added (`SoundLater`), which is why a stale row does no harm; `NotOverPenalised` and
`BarringEnds` follow, for any number of crossing calls. `SoleInv` is about a user
whose calls never crossed: one handler at most works for them, the row it read
is the row, the row is what the penalties add up to, the events lack just what the
handler has yet to append, and a request that may still record a cancellation
found no restriction and none has come since. From it follow `SoleCallsTold` and,
through `RowChanges` (what may change such a row at all), the two action properties
`StaffAlone` and `RestrictedCancelNothing`.

`BillingProofs`. Beside the type, a delivery that has made the first of its two writes
has counted it, and one about to be recorded has made both (`AppliedInv`), so
`RecordedIsApplied` holds however deliveries of one event overlap or die.
`AccessAlwaysPaid` rests on the provider's part (`ProviderAssumption`): a
transaction, and a delivery that has found its user, is of the one who pays under its
reference (`PayerInv`), and an ACTIVE subscription repeats a charge on file (`PaidInv`).
The other three are about a user whose deliveries never overlapped. `SoleInv`
says of such a user that one delivery at most is in flight, that no CANCELED
transaction belongs to their ACTIVE subscription and, if none died either, that an event is
unwritten until it is delivered and on record once it is done, and what the
tables tell half-way between the two writes as well as between deliveries.

`AuthenticationProofs`. `VerifiedInv` adds that a login which read a verified account
holds a phone that is still verified: accounts are neither deleted nor unverified.
`LinkInv` is about an account whose token calls never overlapped: no link has
worked before it is verified, one at most has after, and then it has no token.
`AttemptsAreBounded` counts: `AttemptInv` says that a key's failures and the logins
past its lock check together are within the bound. A failed login moves from the second to
the first; a new login gets past the check only where the count is below the limit,
or where its lock is over before its window, which a lock no shorter than the window
leaves no time for but at one instant. This needs finitely many workers and
`LockAssumption` (section 4). `AnswersTellLocks` has no invariant but the type:
`FailLogin` counts and answers without an await between.

`MatchGraphProofs`. A rank is between 0 and 115 (`RankBounds`) and falls with the
reliability of the other owner (`PenaltyGrows`), hence `PenaltyAlwaysLowers`. For the search,
`Way(n, l)` is the set of the simple paths of n listings from l: one level of the search turns
`Way(n, l)` into `Way(n + 1, l)` (`LongerWays`), and the ways that close are the swaps
(`CyclesAreSwaps`). Averages are bounded, so a set of swaps has a best one
(`BestOf`, by well-foundedness: the listings need not be finite), and `PicksAreBest`
gives `RunsFindBestSwap`. `PartnersAlwaysDoAsWell` follows from it because a swap turned
to begin with another member is a swap of that member with the same average (`Turned`).
They assume that rents, budgets and days are integers, that features are
finite and that the penalty's weight is a natural number. No step of the proof is an
induction over the length of a path, since the limit of the code is a constant.

Only model-checked: the liveness properties `OverdueRequestsEnd` and
`OverdueChainsEnd`, which need `ENABLED`. `MatchSettled`, `RivalsReleased`,
`DailyWithinCap`, `MatchedStays` and `ExclusiveRentings` are proved for one worker with any
ticks; two workers break them.

## 6. Not modelled

The recommendations of a run (a sorted list to look at), `MatchCandidate` rows
(written and never read, nor deleted), notifications (no decision reads them),
AI tips, HTTP envelopes, throttling and configuration. Amounts, currencies and plans of
payments. Passwords: a login's comparison may go either way.
`getChainDetail` picks one unlock of several; `ContactsShown` allows any.
Two statements of a transaction are not interleaved with others beyond its reads:
its writes become visible together. Database deadlocks are failures (`Fail`).
`Reliability`, `Billing` and `Authentication` each take the steps of their own handlers only:
the awaits of the sweep in front of a decline are one gap between its guard and its
cancellation.

## 7. Plan

1. `ListingInterests`, `SwapChains`, `Reliability`, `Billing`, `Authentication`,
   `MatchGraph` with their runs; the proofs of section 5. Done.
2. `BillingProofs`, `AuthenticationProofs`, `MatchGraphProofs`, the caps and the rivals of
   `ListingInterests` with one worker. Done.
3. `ChainsConsented` and `MatchedLeavesChains` for every interleaving, the crossings named
   by a history (`SwapChainsConsentProofs`), and both sides of a match likewise. Done.
4. `RestrictionsEnd` and `AccessIsPaid` joined to the guards in front of the matching
   routes: a module that composes `Reliability` and `Billing` with a handler.
5. The choice among unlocks in `getChainDetail`.
