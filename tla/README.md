# NexCart in TLA+

NexCart is a Django REST backend of a shop: accounts, a catalogue, carts with
coupons, checkout, payments, reviews and a wishlist, on PostgreSQL, with Celery
for e-mail. Requests are served by several processes, every service method is a
`transaction.atomic` block, and the database runs at its default isolation,
READ COMMITTED. No statement of the code takes a lock on a read
(`select_for_update` is nowhere used), so what a request reads may be stale when
it writes. This directory models the parts where that, or a failure half-way,
decides whether the shop is right, checks the models with TLC and proves the
main invariants with TLAPS.

## The system

Paths are under `src/apps/`.

| Component | State | Operations | Talks to | What makes it correct |
|---|---|---|---|---|
| Price rules (`products/services.py`, `cart/services.py`) | none | effective price, subtotal, coupon discount, tax, total | read by carts and checkout | rounding to the nearest cent, nothing below zero, more is never cheaper |
| Products and stock (`products/`) | product rows: stock, price, `is_in_stock`, discount window, active flag | `decrease_stock`, staff create / PATCH / delete | decremented by checkout, inside its transaction | no unit is lost, none sold twice, the flag agrees with the stock |
| Cart API (`cart/`) | a cart per user or anonymous session, items, a coupon | find or create, add, update, remove, clear, apply / remove coupon, merge | reads products; cleared by checkout | one cart per owner, quantities add up, what is removed stays removed |
| Coupons (`cart/models.py`) | window, `max_uses`, `times_used` | validity, apply, counting at checkout | carts, orders | uses are counted; no more discounts than the limit |
| Checkout (`orders/services.py:44-113`) | orders and their items | one long transaction over cart, coupon, order, items, product rows | cart, products, coupons, Celery | all or nothing, amounts of its own lines, one confirmation per order |
| Order status (`orders/services.py:124-143`, `orders/admin.py`) | `Order.status` | `transition_status`, admin `mark_paid`, the admin's editable list | set to paid by payments | statuses follow the graph |
| Payments (`payments/`) | payment rows | charge, refund, admin `mark_refunded` | a gateway, which a rollback does not undo; orders | the table agrees with the gateway; charged once, refunded once |
| Accounts (`accounts/services.py`, `views.py`) | users, activation and reset tokens | register, verify, request / confirm reset, change password, update profile | Celery | one account per address, a token works once, a credential changes only on request |
| JWT sessions (`accounts/auth.py`) | outstanding and blacklisted refresh tokens | login, refresh, logout | accounts | a rotated token is spent |
| Notifications (`notifications/tasks.py`, Celery's settings) | the broker's queue, what each process of the worker holds | render and queue, send, three retries, late acknowledgement | fed by accounts and checkout | an e-mail that was asked for is sent or reported as failed, and a duplicate has a cause |
| Reviews (`reviews/`) | one review per user and product, `is_approved` | create, edit, approve, delete | products, users | one per user, public only when approved |
| Categories, brands (`categories/`, `brands/`) | a tree of categories; names and slugs | create, update, delete (cascading) | products | a forest, unique names |
| Wishlist (`wishlist/`) | a row per user, made by the first request, and a row per wished product | view, add, remove | products | one list per user, no wish lost or left for a product that is gone |
| `common/`, `core/`, admin forms, `config/` | none of their own | envelopes, permissions, pagination, settings | everything | |

The hard behaviour is in four places. *Interleaving*: whatever a request checked
may have changed when it writes; row locks are taken by UPDATE only, late, and
in the order of the cart's items. *Stale rows*: `save()` without `update_fields`
writes every column of an instance that was read earlier (stock decrement, staff
PATCH, profile update, review edit), and inserts it again if it was deleted. *Failure*: a checkout may fail after some decrements, a
charge may die after the gateway took the money, a rotation after the old token
was blacklisted. *Queues*: e-mails are queued
before the commit of what they are about. PROJECT.json lists each place by line.

## Modules

    Pricing ──┬── PricingProofs (of MCPricing)
              └── Storefront ──┬── AtomicCheckout
                               └── Checkout ── CheckoutProofs
                                      └─ refines AtomicCheckout
    OrderStatus ──┬── AtomicPayments
                  └── Payments ── SerialPayments ── PaymentsProofs
                                      └─ refines AtomicPayments
    Carts ── SerialCarts ── CartProofs         Accounts ── SerialAccounts ── AccountProofs
                 └─ refines AtomicCarts                        └─ refines AtomicAccounts
    Mailer ──┬── MailerProofs                  Wishlists ──┬── WishlistProofs
             └─ refines AtLeastOnce                        └─ refines AtomicWishlists
    Catalogue ── CatalogueProofs

Each `MC…` module gives the constants of an instance to the model it is named after, or to that
model's `Serial…` extension.

**The database**, in all modules: committed rows are the variables; what a
transaction has read or written and not committed is in its worker's variables
(`loaded`, `lines`, `job`, …). A SELECT is a step that reads committed rows. An
UPDATE locks its row until the commit, and a second UPDATE waits. A rollback
(`Rollback`, `Fail`, `Die`) drops the worker's variables. A worker serves one
request at a time, so an instance with one worker has serial requests, and one
with two has every interleaving. `SerialPayments`, `SerialCarts` and `SerialAccounts` have
both in one specification, `ServedSpec`: a variable `serial`, chosen at the start, lets a
request begin only when the one before it has ended, and a property named `Serial…` speaks of
these behaviours. They are served requests of any number of workers, and where `serial` is
false `ServedSpec` is the component's own specification.
These rules are PostgreSQL's, not the repository's, and are marked external in the map.

**Pricing** — the rules of `get_effective_price`, `coupon_discount`,
`tax_amount` and `totals` on integers: cents, and hundredths of a percent.
`Quantize` is `Decimal.quantize` with its half-even rounding.

**Storefront** — the rows a checkout touches (`product`, `items`, `applied`,
`times_used`, `orders`, and `open` for the validity windows) and the cart
requests, here one step each.

**Checkout** — `OrderService.checkout`, one action per statement that reads,
writes or raises:

| Step of `pc` | Action | Lines of `orders/services.py` |
|---|---|---|
| exists | `CartNotEmpty`, `EmptyCart` | 54 |
| totals | `QuoteCart` | 57-58 |
| create | `CreateOrder` | 60-83 |
| items, loop | `ReadItems`, `AddLine` | 85-95 |
| refresh | `RefreshStock`, `InsufficientStock` | 97, `products/services.py` 130-134 |
| save | `SaveStock` | 97, `products/services.py` 135-138 |
| loop | `LastLine` | 85 |
| finish | `FinishOrder` (coupon, cart and e-mail) | 99-112 |
| commit | `Commit` | 44 |

`ReadItems` also reads the products (`select_related`), `RefreshStock` only the
stock (`refresh_from_db(fields=["stock"])`), and `SaveStock` saves the whole row:
that mixture is what the stock invariants are about. `LoadProduct` and
`SaveProduct` are the staff's PATCH. `Fail` is any failing statement or dying
process and `DeadlockAbort` the database's deadlock detector. `sold` is a history
variable. `Commit` and `FinishOrder` are two steps because the e-mail is queued in
between (`outbox`).

**AtomicCheckout** — the promise: an order is placed in one step from the cart,
the prices and the stock of that moment, or nothing happens.

**OrderStatus, Payments** — the status graph; `charge` and `refund` in three
parts each (`Begin…` reads, `Gateway…` calls, `Commit…` writes and commits),
staff transitions in two, the admin's bulk actions in one. `EditStatus` is the admin's
list of orders, whose form posts a status for every row that was shown, so that it may
write any status over what has happened since. `Die` is a process
that dies between them: the transaction is rolled back, the gateway keeps what it
did. `vouched`, `waived`, `lost` and `edited` are history variables for what the code
cannot know: orders staff declared paid, payments the admin marked as refunded,
charges whose process died after the capture, orders whose status was set by hand.
**AtomicPayments** is the promise: an order is charged while it is pending, money is
given back once, and a status that nobody edits follows the graph.

**Carts** — `_resolve_cart` in a transaction of its own (`FindCart`, `MissCart`,
`CreateCart`, `TooManyCarts`), then the service: `ReadItem` and `SaveItem` or
`CreateItem` for add and update, `RemoveItem`, `Clear`; `Merge` for
`merge_carts`. The unique constraint on (cart, product) is `CreateItem`'s guard;
there is none on a cart's owner. **AtomicCarts** is the promise: a bag per owner.

**Accounts** — each request as its reads and its commit. Registration reads
twice (`ValidateEmail` in the serializer, `CheckEmail` in the service), inserts
against the unique index (`CreateUser`), queues the token's e-mail (`QueueEmail`)
and commits. `ReadProfile` / `SaveProfile` are the PATCH that saves a whole row.
Refresh tokens are rows of `token` too, with blacklisted as `used`: `Login`, or
`ReadRefresh` and `Blacklist` (or `BlacklistFails`, which the code swallows), lead
to `Mint`; a logout ends with its `Blacklist`. These requests run in autocommit, so
that each of their writes is committed by itself.
**AtomicAccounts** is the promise: an account per mailbox, tokens that are spent
once, and sessions that go on from an open token only.

**Catalogue** — categories, brands, products and reviews as one partial function
`rows` from ids to rows, since what makes them right is how they refer to each
other. A request first reads and checks (`CreateCategory`, `EditCategory`, …,
`EditReview`, `DeleteCategory`, …) and then writes and commits: `Save`, which is
Django's UPDATE-or-INSERT, or `Delete` of what `Collected` found. `Edit…` are PATCH and
PUT, which save the serializer and bypass the services; `UpdateCategory` and
`UpdateBrand` are the services' updates, which no view calls. `CanSave` and the
guard of `Delete` are what unique indexes and foreign keys let pass (`CategoryKeys`,
`BrandKeys`, `ProductKeys`, `ReviewKeys`). `Order` and
`SaveOrder` are the checkout's effect here: an order item that protects its
product, and a save of the product row the loop had read.

**Mailer** — the Celery worker. A message is a task with its number of retries;
`queue` counts messages in the broker, `child` is what each process of the worker
holds. `RenderAndQueue` is the first task, which renders and queues the second; `Send`,
`Retry` and `GiveUp` are the outcomes of the second, and the last two may come after the
SMTP server took the e-mail; `Drop` is a task that ends without any of them, because of
a template, the broker or a kill, before or after `send_mail`. `Acknowledge` follows the end of the task
(`task_acks_late`), so that `Die` in between leaves the message to `Redeliver`.
`tries`, `redelivered`, `doubted` and `lost` are history variables. **AtLeastOnce** is
the promise: asked, then delivered or reported, and never forgotten.

**Wishlists** — each request as the statements of `get_or_create` (`Get`, `Miss`,
`Insert`, `Conflict`), of the many-to-many `add` or `remove` (`AddItem`, `RemoveItem`)
and its `Commit`, where the foreign key is checked; `Refuse` is a commit that fails that
check. The waits of PostgreSQL are guards: an INSERT of a key that another transaction
has inserted waits for its end, and so does a write of an item another one is
changing. `DeleteProduct` is staff's. **AtomicWishlists** is the promise: a set per user,
changed by one product in one step.

## What is checked

| Run | Instance | Properties | Shows |
|---|---|---|---|
| `pricing` | prices to 40 cents, percentages at and around 0, 100 and halves, and of 125, which the validators let pass; coupons above 100% and above the subtotal, and one without a type | `EffectivePriceIsNearest`, `DiscountWithinSubtotal`, `MoreIsNeverCheaper` | rounding and the cap are right, and one more unit never lowers the bill |
| `checkout_concurrent` | two workers, two shoppers who change their carts, one product with one unit, a coupon good once that expires and comes back, one price edit | `StockCoversSales`, `IndInv`, `UsesCounted`, `OrdersAreConfirmed` | whatever races and fails, no unit disappears, coupon uses are counted, no order lacks its e-mail |
| `checkout_serial` | one worker, two products, quantities to 2, failures at every statement | `ExactStock`, `QuoteMatchesLines`, `DiscountsWithinLimit`, `AtomicSpec` | without interleaving the checkout implements its promise |
| `checkout_live` | two workers, two products in both carts | `EveryCheckoutEnds` | circular waits end |
| `checkout_oversell` | two workers, one unit | `NoOverselling`, violated | see below |
| `payments` | two workers that may die, serial or not, two orders, two payments, statuses edited by hand | `IndInv`, `LedgerAgrees`, `RefundsAreOfPayments`, `PaidOrdersArePaidFor`, `SettledStays`, `SerialAtomicSpec` | the table and the gateway differ only where a process died; without interleaving the checks in the code suffice |
| `carts` | two workers, serial or not, a user and a session, two products, quantities to 2 | `TypeOK`, `SerialOneCart`, `SerialAtomicSpec`, `RemovedStaysRemoved` | a stale save does not bring a removed item back; served one at a time, the cart API, failures and the merge implement bags |
| `accounts` | two workers, serial or not, three spellings of two addresses, three tokens, two passwords | `OneAccountPerAddress`, `VerifiedByToken`, `EveryoneWasSentAToken`, `SerialAtomicSpec` | lower-casing and the unique index settle racing registrations; one at a time, tokens work once and profile updates change no credential |
| `accounts_single_use` | the same | `ResetTokensWorkOnce`, violated | see below |
| `catalogue` | two workers, two categories, a brand, two products with one SKU, two reviews of one customer | `TypeOK`, `SlugsIdentify`, `OneReviewEach`, `PublicWasApproved`, `ProductsGoAlone` | creations, moves, stale saves and cascading deletes leave no dangling reference, no duplicate, and no product lost to its category |
| `mailer` | one e-mail, the worker's two processes, two retries, two deaths | `NothingForgotten`, `DuplicatesHaveCause`, `TriesAreBounded`, `DeliverySpec`, `EveryMailSettles` | late acknowledgement loses nothing, duplicates and attempts are bounded, and e-mails settle if the worker is always started again |
| `wishlist` | two workers, two users, two products, two lists | `TypeOK`, `OneWishlistEach`, `AtomicSpec`, `EveryRequestEnds` | here the unique indexes suffice: racing requests implement their promise without a serial restriction, and end |

**Bounds.** Two workers give every race of two requests, and the invariants
compare one request's stale copy with one other commit; that two suffice is
what the proofs add: every invariant, action property and refinement of these runs is
proved for any number of workers (those of `checkout_serial` for one, as they are meant).
Order numbers, user, cart and item ids and tokens bound how much can be created: two orders are enough
for one to spoil the other, four cart items fill two carts with two products, and
three tokens allow an activation, a login and its rotation, or two resets. Two
categories make a parent with a child, and a circle; two product ids let a product
be deleted and written anew while a stale copy of the first is held. Products with one
SKU never coexist, so that no edit of this instance moves a review to another product.
Quantities and prices are only compared and added, so one or two of each tell cases apart.
`MaxRefunds` lets the gateway refund a payment once too often. E-mails do not meet, so one
is enough; two retries are a first, a middle and a last attempt, and two deaths let a
redelivered message be redelivered. Two list ids let both users have one, or one user two
if the index were not there. Symmetry is used
for ids and workers, in instances where each of them starts the same, and in no run
about liveness. Deadlock is checked except in `pricing`, `checkout_live` and `mailer`, whose
instances may use up their inputs (a worker that is down for good is one of those),
and in the violation runs.

**Fairness.** In `checkout_live`: `Proceed` is weakly fair: a
process that serves a request keeps running. `SaveStock` and `FinishOrder` wait
for locks: they are strongly fair because PostgreSQL queues those who wait for a
row, and another transaction may take it in between. `DeadlockAbort` is weakly fair: the
detector runs after `deadlock_timeout`. In `wishlist`, `Proceed` is strongly fair for the
first of these reasons and the second; no detector is needed, because no two requests wait for each
other. In `mailer`, the processes of a worker that is up take messages and end their
tasks, which the time limits of `config/settings/base.py` see to, and the broker gives
back what a dead worker held after its visibility timeout. Nothing starts a dead worker again
(`docker-compose.yml` states no restart policy), so `Restart` is not fair and
`EveryMailSettles` takes it as a premise. Nothing is assumed of clients, of staff or of the
clock.

**Disagreements.** `checkout_oversell` reproduces one: README.md:194 promises
"Atomic checkout (prevents overselling)"; the check at `products/services.py:131`
is made on a read without a lock, and two checkouts of the last unit both commit.
`accounts_single_use` reproduces another: a reset token is "single-use"
(`accounts/models.py:133`), and two requests that read it before either commits
both set the password. Others are behaviours of the models that no run reports.

- README.md:196 promises "Stock decrement on successful payment". The code decrements the stock
  at checkout (`orders/services.py:97`, as lines 8-9 of that module's docstring say), in the
  transaction that creates the pending order, before any charge, and nothing in `payments/`
  changes a stock. The models have the code's timing: `AtomicCheckout!PlaceOrder` takes the units
  when the order is placed, and `ExactStock` counts those of every committed order as `sold`,
  paid or not, so that `checkout_serial` passes for what the code does and not for what that line
  promises. It matters: neither a declined or missing charge, nor a cancellation, nor
  a refund gives units back, and orders that nobody pays for can use up the stock.
- README.md:197 has orders "confirmed" after "pending", and cancelled after delivery; the
  statuses and the graph of the code, which the models have, are those of the docstring of
  `orders/models.py`.
- A profile update (`accounts/views.py:220`) saves every column of the user read at
  authentication, so that a password changed meanwhile is the old one again.
- A category's PATCH bypasses the check that it "cannot be its own parent"
  (`categories/services.py:53`), and keeps its slug when it is renamed.
- An edit that read a review before it was deleted inserts it again; an approved
  review stays public when its text is edited.
- Two rotations of one refresh token both succeed.
- What the serial properties say fails for requests that overlap: two charges of a
  pending order, two refunds of a payment, two transitions (`SerialAtomicSpec` of
  SerialPayments), two submissions of one cart (`QuoteMatchesLines`: the second order has
  amounts and no lines), a coupon's last use (`DiscountsWithinLimit`), a first visit
  twice (`SerialOneCart`: afterwards every request of this owner fails with
  MultipleObjectsReturned).
- The admin's list of orders writes back statuses that may be stale, off the graph; a
  refund leaves the order where it is, and it can still be shipped.
- An exhausted coupon that is still on a cart grants nothing and is counted once more,
  with serial requests too; `UsesCounted` bounds the counter by the orders and not by
  `max_uses`.
- A discount above 100% passes the validators and makes the price negative
  (so the lower bounds of the properties of `pricing` stop at 100%); a valid coupon then
  raises the cart's total.
- The endpoint that lists and creates discounts cannot create one: its serializer has
  no product (`products/serializers.py`), which the table requires.
- The README's merge on login is implemented and never called.

## What is proved

TLAPS proves every safety invariant and every action property that a passing run checks, and
every refinement, for any constants that satisfy the named assumptions. These say that ids
differ from `None` and from ids of other tables, that bounds are natural numbers and functions
have their types, that lower-casing twice is lower-casing once, and for Carts that there is a
product. What is proved of serial requests has hypotheses of its own, named below.

*PricingProofs*: `NearestPrice`, `DiscountStaysWithin` and `MoreCostsMore`, for all prices,
discounts, coupons and tax rates. What the arithmetic needs are five lemmas about `Quantize`:
it returns a nearest integer and the even one of two (`QuantizeNearest`), it is monotone, it
leaves whole cents alone, and n + k cents are rounded to at most k more than n. The coupon may
take more off a larger subtotal, never more than the subtotal grew, and the tax is monotone in
what remains; so the total is. `PriceInv` adds to the types that the quote is the
totals of what the cart is worth.

*CheckoutProofs*, of any number of workers: `TypeCorrect`, `Inductive` and `StockIsCovered`, that is
`Spec => []StockCoversSales` for any number of products, users and workers.
`StockCoversSales` (stock + sold ≥ initial stock) is not inductive: a commit
writes copies that were read long before. `IndInv` adds `CopiesCoverSales`, that
every copy about to be written covers the sales already committed — a decremented
copy together with its own line — and `RequestOK`, what a request holds at each statement.
The inequality is kept because a stale copy only ever has *more* stock than the
row; a commit of another request lowers the row's stock and raises `sold` by as
much, and a copy whose row another worker has locked cannot be saved.
One lemma per action shows types (`…Types`) and coverage (`…Stock`).

`CouponUsesAreCounted` and `EveryOrderIsConfirmed` need an invariant
`OrderInv` on top of `IndInv`. A checkout that has inserted its order knows (`OrderOK`)
that the number is its own, that its e-mail is queued when it comes to commit, and that the
counter it read is at most the number of orders with the coupon. Orders are only added, so
the commit, which writes that counter plus one, adds one order to at least as many: racing
increments may lose each other, and can only make the counter too low.

*CheckoutProofs*, of one worker (the hypothesis `OneWorker`, which makes requests serial):
`SerialStockIsExact`, `SerialDiscountsAreLimited`, `SerialQuotesMatch` and
`SerialCheckoutIsAtomic`, the refinement of AtomicCheckout. Three invariants say that what a
checkout has read is still so: `KeptInv` of the cart and the product rows (a copy is the row,
or the row without what is in the cart), `UsesInv` of the coupon's counter, which then is at
least the number of discounts, and `AmountsInv` of prices and coupon. The last one, and what
follows from it, needs `NoEdges` too: if a coupon's or discount's window opens or closes
between two statements, an order is quoted with it and its lines are priced without, whoever is
alone in the system. Every statement but the commit changes nothing that AtomicCheckout
sees; the commit writes all rows of `locked` at once, which by `KeptInv` are all products of the cart.

*PaymentsProofs*: `Inductive`, `TypeCorrect`, `LedgerIsRight`,
`RefundsAreRight`, `SettledPaymentsStay` (an action property) and
`PaidOrdersAreBacked`. `IndInv` adds what a request knows between its read and
its commit (`JobOK`: a charge's payment row is its own and still absent; its answer
agrees with the gateway; a refund's payment is succeeded or refunded) and that no two charges
share a row (`ChargesApart`). `PaidOrdersArePaidFor` needs a second invariant,
`PaidInv`: a transition that was allowed when the order was read writes a status
whose backing is never withdrawn (`MovesAreBacked`), so the stale write is off the
graph and still paid for.

`SerialPaymentsAreAtomic` is the refinement of AtomicPayments by the serial requests of
`ServedSpec`, whose processes do not die. `SerialInv` says that the request in
service is the only one, that what it has read of the rows is so (`Follows`), and that a payment was
given back at most once, and is on record as refunded unless the request in service is about to
record it (`Counts`). Then what the shop holds for an order is the number of its captured
payments that were not given back; that these are finitely many is part of
the invariant, not an assumption, since a step captures one at most.

*CartProofs*: `Inductive`, `TypeCorrect` and `NothingComesBack` (an action property), with
the requests' knowledge in `JobOK`. `QuantityOfItem` (a cart has one item of a product, so
its quantity is the item's) is what shows that `Merge` puts no second item of a product
into a cart and none above the bound. `SerialRequestsShareOneCart` and `SerialCartsAreBags`, the
refinement of AtomicCarts, are of the serial requests: `SerialInv` has one cart per
owner, and the cart, the item or the absence of one that the request in service has found
(`Follows`). The bag of an owner is the quantities of the one cart's items, so a step that writes one
item changes one quantity, and a merge adds the two bags and empties one.

*AccountProofs*: `Inductive`, `AddressesAreUnique`, `VerifiedByTheirToken` and
`TokensWereSent`. `IInv` adds what each request knows at each step, since the two checks
before the INSERT prove nothing by the time of it: stored addresses are in lower case
and are kept apart by the unique index, also from rows that are not yet committed; user rows are never deleted,
so the token of a registration stays its user's; and the verified flag in a copy that
`SaveProfile` will write back is backed by a token that was used, because a used token stays so.
`SerialAccountsAreAtomic` is the refinement of AtomicAccounts by serial requests; its
`SerialInv` says that the token the request in service uses is still its user's and of its
kind, and that the row a profile update will write back is the row. Racing registrations need no such help: that the
mailbox has no account when one commits is in `IInv`. Tokens may expire
at any time, which spends them unless the request in service has found them usable.

*MailerProofs*: `TypeCorrect`, `NoneForgotten` and `ImplementsDelivery`, that is the
refinement of AtLeastOnce, for any number of e-mails, processes, retries and deaths.
`NothingForgotten` is inductive with the types, because it does not count a message that
only waits for its acknowledgement: `NextCarries` shows that a step takes the last task of
an e-mail away only by sending it or by failing. The refinement also needs `OnlyAsked`,
that nothing is done for an e-mail before it is asked for; each action then makes one
step of AtLeastOnce on one `Fate`, or none.

`DuplicatesAreCaused` and `TriesStayBounded` count. A message that is queued or run stands for one
e-mail still to come, and for the attempts it has left: its own and those of its retries.
`LoadInv` says that what was sent and what is still to come of an e-mail have been
asked for, redelivered or doubted, and that what was tried and may still be tried is
within the bound; a step moves one message and so moves as much from one side to the other. The sum over all
messages is the cardinality of a set of pairs (`Area`, `Total`), since a recursive
sum cannot be reasoned about here, and that this set is finite is part of the invariant.

*WishlistProofs*: `Inductive`, `TypeCorrect`, `OneEach` and `ImplementsAtomic`, the
refinement of AtomicWishlists, for any number of users, products and workers. `IInv`
adds what a request believes of the list it found (`RequestOK`: it is the user's, or
its own and the user still has none) and that two lists not yet committed are different
and of different users (`CreatedApart`). With them a commit changes the set of its own
user by its own product (`CommitWishes`), and every other step of a request changes
no set.

*CatalogueProofs*: `Inductive`, `TypeCorrect`, `SlugsAreUnique`, `ReviewsAreUnique`,
`PublicIsApproved` and `ProductsAreNotCollected` (an action property). `IInv` adds that no
two rows share a key of a unique index (`KeysApart`), that an approval on a row is staff's
(`ApprovalsOK`), and of a request only (`Knows`) that the approval it will save is staff's
and that what it will delete is one product or none. Nothing else that a request has checked is in
the invariant: the services' reads are not needed, the database's checks at the commit are.

Model-checked only: liveness (`EveryCheckoutEnds`, `EveryMailSettles`, `EveryRequestEnds`),
since fairness and ENABLED are outside the prover; and the two violations, each of which is a
counterexample on an instance.

## Abstractions

- Ids, names, addresses and passwords are model values; formatting, slugs, images
  and search are left out. `price_snapshot`, names and dates are left out because
  no property reads them.
- Storefront: one cart per user (two are the subject of Carts), cart requests in
  one step, active products only; a coupon without `max_uses` is one with a large
  limit. Cart items are visited in any order, which includes the code's order.
- `FinishOrder` takes the locks on the coupon and the cart in one step; the
  transactions take them in the same order.
- Staff's PATCH sets the price; setting the stock itself is a restocking and would
  make `sold` and the initial stock incomparable. It is planned separately.
- Payments starts from committed pending orders; the order row is read once.
- Payments: the admin's `EditStatus` writes one order; a form that shows several is
  several of them.
- Mailer: the broker itself loses nothing, and delivers what a dead worker held before
  the worker is up again; the countdown between retries is left out, since a message in
  the queue may be taken at any time. The failure of the first queueing, in the web
  process, is in Checkout and Accounts.
- Wishlists: `is_active` is left out: an add that it refuses does nothing.
- Carts: the product's state (inactive, out of stock) is part of `Fail`, which
  every request may take. A GET resolves and changes nothing more. `merge_carts`
  is one step, between requests, as nothing calls it.
- Catalogue: texts, ratings, prices, images and `is_active` are left out; a request's
  reads are one step where the commit checks again what they found. Ids of
  deleted rows are given again only when no request holds them.
- Accounts: wrong passwords and tokens nobody was sent change nothing and are not
  steps. Deactivation and staff's user forms are left out.

## Not modelled

Response envelopes, permissions, pagination, serializer shapes, migrations
and settings keep no state that a property could be about; what the settings decide (isolation,
no `ATOMIC_REQUESTS`, rotation, Celery's options) is in the modules that depend on it.
Product images and average ratings are data that nothing decides on. The admin's
change forms (and the editable list of reviews, and the wishlist's product picker) are Django's and
may write any column; of the admin the bulk actions and the list of orders are modelled.
Staff's edits of coupons and of the stock itself are not: a restocking makes `sold` and the
initial stock incomparable, and `StockCoversSales` would have to count it.

## Plan

Done: Pricing, Storefront, AtomicCheckout, Checkout, OrderStatus, Payments,
AtomicPayments, Carts, Accounts with the sessions, Catalogue, Mailer, Wishlists. Left:
restocking in Storefront; a composition of Checkout and Payments in which orders flow
from one to the other (and in which units leave the stock long before they are paid for), and of
both with Mailer.

Theorems left: those of the compositions above, once they exist. The refinements of serial
requests could be widened to what overlaps harmlessly, such as two checkouts without a product,
a coupon or a cart in common.
