# Verification of mli-shop

TLA+ models of the shop's Telegram bot, web API and AI worker, the TLC runs that
check them on small instances, and proofs that TLAPS checks for instances of any
size. Source paths below are relative to the repository.

## 1. The system

Three processes of one compose project work on one PostgreSQL database (READ
COMMITTED), one Redis and one RabbitMQ:

- the bot, `shop.py` with `handlers/` (aiogram 3; updates are handled concurrently,
  each with an `AsyncSession` of its own, `middlewares/db.py`; handlers commit);
- the web API, `web_api.py` (FastAPI; one session per request);
- the worker, `worker.py`, which answers the questions the bot enqueues.

| Component | State | Operations | What is hard | What makes it correct |
|---|---|---|---|---|
| Stock and orders (`database/orders_repo.py`, `catalog_repo.py`, `stock_movement_repo.py`) | `product_stock`, `orders`, `order_items`, `stock_movements`; row locks; each session's identity map | `create_order`, `cancel_order`, `update_order_status`, `update_stock_quantity` | some reads lock and some do not; loaded rows are not refreshed; deadlocks; failures in the loop | nothing is sold twice; shelf, orders and movements agree; no update is lost; every run ends |
| AI queue and worker (`worker.py`, `utils/mq.py`) | queue, dead letter queue, unacknowledged messages, `retry_count` in the payload | publish, process, republish, dead-letter, ack, nack | redelivery, duplicates, crashes between two steps, failing failure handling | no question is lost; retries are bounded; every question settles |
| Cart and checkout dialogue (`handlers/client.py`, `handlers/ai.py`) | `cart_items`, FSM state and data, `users.ai_quota` | add by card, size and quantity; change, delete; name, phone, order | double submission; buttons pressed in any state; a death between commit and Redis; deletion by user after listing | what was put into the cart is ordered once; rows fit the stock; the bonus is paid once |
| Shop screens and a customer's orders (`handlers/client.py`) | messages in the chat; ids of the cards in FSM data | categories, brands, products, cards; completed and active orders; cancellation dialogue | pages and counts read in several statements; two renderings at once; a failed send | pages tell the truth; no card stays behind |
| AI dialogue (`handlers/ai.py`) | Redis: cooldown, sliding window, FSM data (history, pending post); `users.ai_quota` | start, question, checkout, broadcast, gift | check-then-act in Redis and SQL; FSM data written whole by bot and worker | limits hold; quota is charged; the history is in order; a button sends the post shown |
| Broadcast pools (`handlers/ai.py`, `promo_menu_support.py`) | `asyncio.Queue`, counter | send to all recipients | `join` against failing workers, cancellation, lost answers | each recipient at most once, the call returns, the count is right |
| Catalogue (`catalog_repo.py`, `owner_products.py`, `catalog_delete.py`, `product_card.py`) | categories, brands, products, photos, stock rows; one FSM record for all dialogues | create, edit, delete | one record for many dialogues; get-or-create; photo limit; albums | a product is created once and complete; an edit hits the product shown; the limit holds |
| Tenants, roles, blocking (`utils/tenants.py`, `middlewares/block_user.py`, `shop.py`) | tenants, users, memberships, `is_blocked` | register, promote, demote, block, resolve, bootstrap | role read, then written; several tenants; a check before the handler | a shop keeps an owner; the blocked stay out |
| Database reset (`shop.py`, `database/maintenance.py`) | code per owner with expiry, lock | request, confirm | expiry, second confirmation, TRUNCATE against open transactions | one reset per code, which ends |
| Warehouse, sales, purchases (`orders_stats.py`, `warehouse/`) | messages, FSM data | report of a day, active orders, browsing by period | as the shop's screens; one FSM record for all of them | as the shop's screens |
| Web API (`web_api.py`) | as above; a fixed-window counter; metrics | orders, catalogue, admin, tenants | as the components it shares | as the components it shares |
| Formatting, sending, deployment | none of their own | texts, calls to Telegram | | |

Interactions: the dialogues and the web API call `OrdersRepo.create_order`; the
bot's AI dialogue publishes to `ai_generation`, and the worker writes its answer to
the same chat and to the same FSM record in Redis; a checkout raises the AI quota
that the AI dialogue spends; cancellation reverses what `create_order` did; the
admin part of the web API changes the products an owner's dialogue is about;
deleting a product empties the carts, lists and cards that name it; TRUNCATE waits
for every handler that has a transaction.

`PROJECT.json` lists every component with what is modelled of it and, under
`hazards`, the places where the code can go wrong in a way a test would hardly
reach, with the properties that would show it.

## 2. Modules

| Module | What it is |
|---|---|
| `Inventory` | What the shelf promises: an order takes all its goods at once, and only goods that are there |
| `OrderStock` | Handler runs on the stock rows: locks, identity map, commits, rollbacks, deadlocks; its checkouts implement `Inventory` |
| `OrderStockProofs`, `MCOrderStock` | Theorems about it; finite instances |
| `WorkerQueue` | The AI queue, its dead letters and the workers |
| `WorkerQueueProofs`, `MCWorkerQueue` | Theorems about it; its finite instance |
| `Checkout`, `CheckoutProofs`, `MCCheckout` | One customer's cart and the two dialogues that fill and order it; theorems; its finite instance |
| `Catalogue`, `CatalogueProofs`, `MCCatalogue` | The owner's dialogues on the catalogue, and the web API's admin calls; theorems; its finite instance |
| `AiDialog`, `AiDialogProofs`, `MCAiDialog` | One user's chat with the consultant: limits, quota, the record shared with the worker; theorems; its finite instance |
| `Broadcast` | The pool that sends one message to many; a component without a next-state relation of its own |
| `Tenants`, `TenantsProofs`, `MCTenants` | Users, roles, blocking, tenants and the reset; EXTENDS `Broadcast`, whose callers it has; theorems about both; its finite instance |
| `Pages` | The paging arithmetic of every list |
| `OrderLists`, `OrderListsProofs` | Lists of orders in the chats of customer and staff; EXTENDS `Pages`; theorems about both |
| `Shelves` | Browsing of shop, warehouse and purchases; EXTENDS `Pages` |
| `MCScreens`, `ScreensProofs` | `OrderLists` and `Shelves` side by side, and their finite instance; theorems about `Shelves` and about the composition |

The dialogue modules share one shape. A person's *input* (a message, a button) picks
the handler by the FSM state at that moment and starts a run `run[r]`; the run's
further steps are its statements: a read, a commit, a write to Redis. Runs of one
person interleave, because aiogram gives each update a task of its own. What the
database commits is separate from what Redis remembers, so a death of the bot falls
between the two. Buttons stay on the screen and may be pressed in any state.

Several properties hold only for a person who waits for each answer, or uses the
newest message. Those hypotheses are history variables with a name (`overlapped`,
`overlaps`, `strayed`, `crossed`, `excuses`, `spoilt`), set by the step that breaks them; the
behaviours without them are in the model, and section 3 says what the code does then.

### OrderStock

`stock`, `net` and `order` are the committed rows: the quantity of each (product,
size) pair, the sum of its movements, and each order's status and items. `lockedBy`
is PostgreSQL's row locks. `tx[s]` is what the handler run `s` has in its session:
where it is (`pc`), its demand (`amount`, the code's `required_by_key`), the loop's
position (`cur`, `todo`), and the identity map (`loaded`, `read`). An order is named
after the run that created it.

| Action | Code |
|---|---|
| `BeginCheckout` | `process_order_phone`, `ai_checkout_phone` up to `create_order` |
| `BeginWebOrder`, `PreloadProduct`, `Precheck` | the loop of `create_web_order` |
| `LockRow` | `SELECT ... FOR UPDATE` and the check in `create_order` |
| `PlaceOrder`, `CloseRefused` | its commit; its refusal until the session closes |
| `BeginClientCancel`, `BeginOwnerCancel`, `ReadRow`, `WriteRow`, `FinishCancel` | `cancel_order` and its two callers |
| `BeginSetStock`, `ReadRow`, `WriteRow`, `FinishSetStock` | `update_stock_quantity`, for the four places that call it |
| `OwnerDone` | `order:done:` |
| `Fail` | an exception, or the death of the process or its connection |
| `DeadlockAbort` | PostgreSQL's deadlock detector |

Two rules carry the model. `Select` does not refresh a row the session already has
(SQLAlchemy without `populate_existing`). `Written` computes with that value, because
`stock.quantity += n` is sent as an absolute number; `WriteRow` locks the row when
the flush in `add_movement` sends the UPDATE.

What is abstracted: the quantities of one key are aggregated, with one movement per
key; rows are locked in any order (the code locks in cart order, which is any);
an item without a size is represented by the size the code resolves it to, with the
early 409 of that branch kept in `PreloadProduct`; a negative typed-in quantity
violates a constraint and is `Fail`. Goods of new products and of new sizes, and the
deletion of products, are in `Catalogue` and `Checkout`; prices are left out. Each run of a handler happens once (`Sessions` bounds
their number); `Terminated` is the end of the instance.

### WorkerQueue

`ready` counts the messages of `ai_generation` by task and `retry_count`: a bag,
because the broker may redeliver anywhere and the worker prefetches four. `work[w]`
is the position of `_process_message` with the message it has, and `owned`: whether
the broker still waits for its acknowledgement. `failures` and `faults` are history.

| Action | Code |
|---|---|
| `Publish` | `_process_ai_input_text` with `send_task_to_queue` |
| `Take` | delivery, parsing, `nack(requeue=False)` of a malformed payload |
| `Compute`, `SendAnswer`, `Remember` | the `try` block: answer and chat log; sending; cards, history, pending post |
| `Ack` | `message.ack()`, which may raise if the connection was lost meanwhile |
| `Raise` | any exception of the block |
| `Republish`, `Bury`, `PublishFails` | `_republish_with_retry`, `_publish_to_dlq`, and their failure, with the broker having the message or not |
| `Settle`, `Nack` | the acknowledgement after that, `nack(requeue=True)` |
| `Crash`, `LoseConnection` | death of the worker; a connection lost while the handler runs on |

The bot always fills in the fields a payload needs; malformed messages are in the
model because the worker handles them. The note to the user after a dead letter
changes no state and is left out. What `Remember` writes to Redis is in `AiDialog`.

### Checkout

`shelf` is the committed stock, `cart` the customer's rows, `fsm` and `data` the FSM
record (a set of fields for each of the two dialogues, `in`), `quota` the bonus paid.
`peak` (the most each key has had), `wish` (pieces put in and not taken out, less
those ordered) and `orders` are history.

| Action | Code |
|---|---|
| `PressAdd`, `TypeSize`, `TypeQuantity`, `TypeBack` | `cq_cart_add`, `process_size_input`, `process_quantity_input` |
| `AiPressAdd`, `AiTypeExit` and the `Ai` forms of the reads | the same dialogue in `handlers/ai.py` |
| `ReadSize`, `ReadQuantity`, `CommitLine` | reading stock and cart, the check, `add_to_cart` and its commit |
| `PressStep`, `PressDelete`, `ReadStep`, `CommitStep` | `change_cart_item_quantity` and the delete button |
| `PressCheckout`, `AiPressCheckout`, `TypeName`, `TypePhone` | `start_checkout` to `process_order_phone`, `ai_checkout_phone` |
| `ReadPhone`, `PlaceOrder`, `RefuseOrder`, `NamelessOrder` | the cart listed; order, bonus and `clear_cart` in one commit; too few goods; an order without a name, which violates NOT NULL |
| `WriteRedis` | `set_state`, `update_data`, `clear` after the commit |
| `OthersTrade`, `DeleteProduct`, `Crash` | other customers and owners; deletion with its cascade; death of the bot |

`create_order` is one step here: its locks are `OrderStock`'s subject. `update_data`
is one step too; `AiDialog`, `OrderLists` and `Shelves` split it where the split
matters. Prices, texts and the checks on a name or phone number are left out; an
input that such a check turns away changes nothing.

### Catalogue

`groups` are categories and brands by name, `products` the rows with the number of
photos, the stock per size and a count of edits; `fsm` is the owner's record with one
field per kind of answer, as in the code, where every dialogue uses the same names.
`screen` is the newest message with buttons on a product; `typed` and `credit` are
what the owner has typed and how many products he may expect. A handler's writes to
Redis wait in `todo`, each a set of fields with their values; what it does after
them follows from its kind (`Goes`). `overlaps` counts the inputs that arrived while
another was being handled. Uploads do not count against `MaxUpdates`, so albums, whose
photos overlap, are bounded by `MaxOverlaps`. The properties for an owner who waits are
those with `overlaps = 0`.

| Action | Code |
|---|---|
| `StartProduct`, `ChooseCategory`, `ChooseBrand`, `EnterName`, ..., `Upload`, `EnterSizes`, `EnterQuantity` | `owner_add_product_start` to `owner_enter_quantity_for_size`, one action per step of the dialogue |
| `ReadUpload`, `ReadQuantity`, `ReadCreate`, `CommitProduct` | what those handlers read; `create_product_in_db` |
| `TypeCategory`, `TypeBrand`, `CommitGroup`; `ConfirmCategory`, `ConfirmBrand`, `CommitDeleteGroup` | get-or-create of categories and brands; `catalog_delete.py` |
| `OpenCard`, `OpenWarehouseCard`, `RefreshCard`; `TypePrice`, `TypeDescription`, `TypeNewBrand`, `TypeStock`, `SendPhoto`, `PressPhotoDelete` with their reads and commits | the cards of `owner_products.py` and `warehouse/product_card.py`, and each field that can be edited |
| `DeleteChoose`, `Confirm`, `CommitDelete` | `owner_delete_confirm`, `owner_delete_execute` |
| `WriteRedis`, `ShowCard` | the writes to the record, and the message with the next buttons |
| `AdminCreate`, `AdminUpdate`, `AdminDelete` | the web API's admin calls |
| `Crash` | death of the bot |

`product_router` is included before `warehouse_router`, so its text handlers and its
`stock:new` are the ones that run; the shadowed ones are not in the model. `wh:prod`
changes `data["product_id"]` and leaves the state, so a confirmation that waits
deletes another product; the history variable `strayed` marks that. A list of sizes
with a duplicate makes the creation fail each time until the owner cancels.

### AiDialog

`stage` and `data` are the FSM record; `cooldown` and `window` are the keys in Redis,
with time as a number; `quota` and `bonusAt` the user's row; `task` where each
question is; `run` the bot's handlers, `work` the worker's deliveries.

| Action | Code |
|---|---|
| `AskText`, `AskVoice` and the steps of their run | cooldown (`SET NX EX`), window (count in one transaction, ZADD in another), user and quota, publish, history |
| `StartChat`, `PressProvider`, `BackToChat`, `Exit` | entering, changing and leaving the chat |
| `AskCheckout`, `LeaveCheckout`, `Buy` | the consultant's checkout and its bonus |
| `Grant` | `owner_gift_quota` |
| `PressBroadcast` | `process_ai_broadcast` up to the pool |
| `Deliver`, `Send`, `GetHistory`, `SetHistory`, `GetPost`, `SetPost`, `Ack`, `WorkerFails` | `_process_message`: answer sent, history and pending post read and written back, acknowledgement |
| `Tick`, `RedisFails`, `PublishFails` | passing time; an error of Redis, which lets a question pass; a publication that fails, after which the question stays charged |

`LoadUser` is a fresh read: SQLAlchemy's identity map holds objects weakly, and no one
keeps the user of the middleware. Two bounds save states without hiding an
interaction: limits, time and gifts are explored for users who are limited, and the
worker's answers for owners, whose posts they are.

### Broadcast and Tenants

`Broadcast` has the pool: `PoolStart` fills the queue, workers `Take`, `Send`, fall
back to `SendPlain`, `Count` and call `TaskDone`; `Join` waits for the queue, `Report`
cancels the workers and gives the count. A send may fail, or be delivered with its
answer lost.

`Tenants` has the rows in PostgreSQL (`tenants` with slug and token, `rows`, `home`,
`members`, `blocked`), the bot's reset `codes`, and the runs. `Arrive` is an update;
`Check` is the block middleware, `Authorize` the handler's own test, `Load...` and
`Commit...` its reads and its commit.

| Action | Code |
|---|---|
| `Check` | `BlockUserMiddleware`; `held` is the session it keeps open around an owner's handler |
| `CommitStart`, `CommitTouch` | `start_handler`; registration by a first button or message |
| `LoadStaff`, `LoadOwner`, ..., `CommitRole` and its uses | `/staff`, `/unstaff`, `/set_seller`, `/add_owner`, `/remove_owner` (`ReadPrimary`) |
| `Block`, `Unblock`, `ContactBlock`, `ContactUnblock` | the commands, and the buttons of the support chat |
| `RequestReset`, `CodeExpires`, `ConfirmReset`, `Truncate` | `/resetdb`, `confirm_reset_db_handler`, `reset_database_data` |
| `StartPromo`, `StartPost`, `Deliver`, `ReportBroadcast` | `/promo` and the AI post, through the pool |
| `WebRequest`, `RenameTenant`, `CreateTenant`, `Bootstrap` | resolution in the web API, its tenant calls, `bootstrap_telegram_shop.py` |

A role that the loaded value already is is not written, as SQLAlchemy does; an insert
of a row that is there by now fails the run. `WebRequest` is any request that names
no existing tenant: the default one is made and committed before the admin key is
compared. The bootstrap script's `--replace-owner` raises a NameError on an existing
tenant (`TenantMembership` is not imported), so it has no action.

### Pages, OrderLists and Shelves

`Pages` is `(total + size - 1) // size`, the clamped page, LIMIT and OFFSET.

`OrderLists` has four lists: the customer's completed and active orders, the staff's
active orders (`orders`, whose cards nobody tracks) and the report of a day. A list
is a header message with arrows and one message per order; `data` is the FSM record
with the cards' ids and `history_date`; `chat` the messages a button can still
concern. A rendering goes through the stages of the code:

| Action | Code |
|---|---|
| `OpenList`, `TurnPage`, `PickDay`, `ResetDay`, `OpenCalendar`, `CloseMessage` | the buttons of `client.py` and `orders_stats.py` |
| `TakeDay`, `StoreDay`, `ReadDate` | `history_date`, read and stored |
| `CountOrders`, `ReadOrders`, `ReadPage`, `ReadReport`, `ReadActive`, `StoreNone` | the count, the page and the sums, each a statement of its own |
| `ReadOld`, `DeleteOld`, `ForgetOld` | the cards rendered before are deleted by their ids |
| `SendHeader`, `SendCard`, `KeepIds`, `SendFails` | the messages, and the ids stored; a call to Telegram that raises |
| `Place`, `NextDay`, `Settle`, `CancelOwn`, `AskToCancel`, `KeepOrder` | orders placed and settled, midnight, the cancellation dialogue |
| `ClearData` | any dialogue that ends with `state.clear` |

`Shelves` has the screens of shop, warehouse and purchases; a handler is a plan of
stages (`Ask`, `ReadScope`, `ReadShelf`, `CountRows`, `ListRows`, `Find`, `ReadFsm`,
`WriteFsm`, `Show`), one per statement, call or update of the FSM data. The shop's
buttons carry all they need; the purchases' period, category and brand are in the one
FSM record of the chat.

Abstracted: photos, wording, prices; the reading of a product's sizes is in
`Checkout`. The report uses `now()` and its calendar `utcnow()`: both are one date
here. The handler that takes a typed date cannot be reached (`waiting_for_date` is
never set). Purchases are queried without the tenant; a second tenant's goods are not
in the model.

## 3. What the runs check

| Run | Instance | Result |
|---|---|---|
| `stock_all` | 3 sessions, any mix of the 6 handlers, 2 sizes of one product with 2 and 1 pieces, 3 carts | safety of dialogue checkouts against everything else |
| `stock_locked` | 3 sessions, checkouts and completions, with fairness | ledger, conservation, refinement of `Inventory`, termination |
| `web_oversell` | checkouts and web orders | `NoOversell` is violated (below) |
| `cancel_lost_update` | checkouts and cancellations | `CancelReturnsGoods` is violated (below) |
| `cancel_twice` | checkouts and cancellations | `CancelsActiveOnly` is violated (below) |
| `queue` | 2 workers, a good and a malformed task, 2 retries, 2 faults, with fairness | no loss, earned retries, handover, bounded repetition; every question settles |
| `checkout` | 2 runs, 5 inputs, 2 products of one size each, a cart of one piece, one trade of others or deletion, one death of the bot | rows fit the stock; goods sold once; bonus; size of the product |
| `catalogue` | 2 runs, 3 inputs (one of them an admin call), a death, dialogues begun anywhere, at most 2 photos | new products, edits of the product shown, photo limit |
| `ai_dialog` | 2 runs, 2 deliveries, 3 inputs, 2 questions, time up to 4, one failure | cooldown, window, quota, history, pending post |
| `tenants` | 3 users, 2 runs, 2 updates, 2 pool workers, seven shops, with fairness | owners, blocking, broadcasts that return |
| `reset_hangs` | the same, a shop with two owners | `ResetEnds` is violated (below) |
| `screens` | 2 runs of each module, 3 buttons, 1 commit, pages of 2 and of 1 | listings, pages, promises of buttons |

*Why these bounds.* Lost updates, refusals and deadlocks need two runs on two rows;
the third run is the one that changes a row between two steps of a run that waits
for another. Two sizes of one product are needed for the preload; the stocks 2 and 1
make carts of (1,0), (1,1) and (2,1) both succeed and fail. In the queue, one task
already has several copies at once (a redelivered original and its retries); two
workers work on them side by side, and two faults let a second fault hit the
recovery of the first.

In `checkout`, five inputs are an order from the first button (checkout, name, phone)
with two more in between: an addition, a second phone number. Two products, each in a
size of its own, show a size paired with the wrong product, and p1 has one piece more
than the cart, so an addition can be refused or pass twice. In `catalogue` the owner
starts with any dialogue begun (`MCInitFsm`: awaiting a price, an album, sizes, a
card, a confirmation ...), so that three inputs reach every end of every dialogue,
also with another one opened in between; two photos make the limit one upload away.
In `ai_dialog` the cooldown (2) is shorter than the window (3), and both shorter than
the time (4), so each expires while something is under way; one request a window and
one question of quota are one short of two questions. In `tenants` the shops are those
a long history leaves: new, with customers but no owner, with the configured owner
first or last among two, made by the script, about to be reset with the code sent, and
with a removal that has read the main owner but not the roles. In `screens` three orders on pages of two give two pages,
of which one is not full; in the shop, pages of one give two pages of categories and
brands; three presses open a list, turn a page and press a button of the page left.
`screens` lets no commit happen once a run is past its last reading, gives a visit
only the places its opening leaves open, and lets the first two visits overlap.

*Properties of `OrderStock`.* `LockedReadCurrent`: a checkout that holds a row
computes with the committed quantity. `RefusalJustified`: a customer is refused only
what is not there. `LockedSaleExact`: the commit of a dialogue's checkout loses no
concurrent update. `SaleRowExact`: the clamp at zero never acts, even in a web order
with stale quantities (which is why such an oversale leaves no trace).
`LockDiscipline`: locks held are those of the loop so far. `LedgerBalances` and
`Conservation` relate shelf, movements and orders. They need the locking handlers:
with a cancellation or a typed-in quantity the lost update below breaks them.

*Properties of `WorkerQueue`.* `NoTaskLost`: a question is in the queue, with a
worker, answered or dead-lettered. `RetriesEarned`: a retry count has its failures.
`HandedOver`: a worker acknowledges only what is answered or handed on.
`AnswersBounded`: repeated answers are bounded by the faults.

*Properties of `Checkout`.* `RowWithinStock`: no row asks for more than there ever
was, under any interleaving. `SoldOnce`: pieces put into the cart are still there or
in exactly one order. `BonusPerOrder`, `SizeOfProduct`: at most one bonus an order;
the dialogue never pairs one product with the size of another. Where the customer
does not wait (`overlapped`), the code does break `SoldOnce`: two phone numbers read
the same cart before either commits and both order it (the goods are then taken from
the shelf twice, the bonus paid twice or, by the absolute write, once), and a row
added while an order is being placed is deleted by `clear_cart` unsold.

*Properties of `Catalogue`.* `NewProducts`: a product is created with all its photos
and quantities, once for each dialogue, plus once for each death of the bot between
commit and `clear`. `HitsShownProduct`: edits and deletions hit the product on the
newest message. `PhotoLimit`: exceeded by no more than the uploads under way. An owner
who presses an older message (`strayed`) acts on the product the record names, which
is another one; a confirmation of a deletion can so delete what he did not see.

*Properties of `AiDialog`.* `CooldownHolds` under any interleaving. `WindowHolds`:
overlapping handlers exceed the limit by one each. `QuotaPays`: never negative, no
question unpaid; the balance is exact unless handlers overlap, when an absolute write
loses a charge or a gift. `HistoryOrdered`: no answer before its question, although
turns may be overwritten. `BroadcastsShownPost`: the newest button sends the answer it
stands under, or nothing. With deliveries side by side (`crossed`) the post of one
answer can be under the button of another, and after a failed attempt that sent its
answer already, the button under the second one may send an older post. A voice
question that is transcribed after the user has left recreates the record, and a late
answer of an old session lands in the new history.

*Properties of `Tenants`.* `OwnerRemains`: removals leave an owner, whoever sends them.
`ConfiguredOwner`: `settings.owner_id` becomes owner by `/start` after a reset.
`BlockedKeptOut`: who was blocked on arrival is handled only if he was unblocked, or
made an owner, in between.
`BroadcastReturns`: every broadcast ends, sends no second copy and counts what it
knows was delivered. `excuses` names what the code does otherwise: `/staff`,
`/unstaff` and `/set_seller` take the role of the main owner, which `/remove_owner`
refuses ("demoted"); an owner added while a removal is under way, by command, by the
script or by the configured owner's first `/start`, lets both go ("crossed"); a button pressed before `/start` registers the configured owner as a
client, and `/start` leaves it so ("touched"). Where the bot's token is with another
tenant than the default one, registration goes to the default one all the same. The configured owner's `/start`, and an owner made after the block was
read, are exceptions that need more updates than the run has: attempts to prove the
first forms of `OwnerRemains` and `BlockedKeptOut` failed on them, runs with three and
four updates showed them, and the properties name them now.

*Properties of `screens`.* `OneListing`: a list's cards are those of its newest
rendering, and the record knows them all. `PagesHonest`: a header's page exists, is
full, has the orders of its day, and the arrows lead to every order once.
`ScreensHonest`: a screen of goods holds what its button promised. An arrow promises
rows only if the page it stands on has some: an attempt to prove that it always does
failed, and a larger instance showed why. After two deletions a stale arrow leads past
the last page of brands, which `show_brands_page` shows empty (`client.py` does not
clamp it), and the arrow back leads to one more empty page. `spoilt` lists are
those whose cards nobody knows any more: two renderings at once for one person, a
send that fails half-way (a double tap on an arrow does: Telegram refuses to edit a
message into itself, and the customer's lists, unlike the staff's, do not expect it),
a list found empty while its cards are on the screen, a record another dialogue has
cleared. Products of one title may change places between two pages, since
`ORDER BY title` leaves their order open; the clause about arrows excludes products.
`history_date` stays stored, so that the next day's report still shows the day chosen.

*Fairness.* `HandlersFinish` assumes weak fairness of the steps of a run that has
started (the event loop schedules it, PostgreSQL grants a free lock and aborts one
of a cycle); nothing makes a run start. `EveryTaskSettles` assumes weak fairness of
each worker (`restart: always` in `docker-compose.yml`, the endless loop of
`_consume_queue`) and finitely many faults. The second is a real assumption: a
payload so close to `max_queue_payload_bytes` that the error text of a retry does not
fit fails to be republished each time, and is requeued with its old count.
`BroadcastReturns` assumes weak fairness of the pool and of each handler: a send ends,
at the latest by aiohttp's timeout. No update has to arrive.

`CHECK_DEADLOCK FALSE` stands where the bound on inputs lets an instance stop: the
dialogues, the screens and the tenants (in `reset_hangs` it also does for real).

*Where code and text disagree.*

- `web_oversell`: `create_web_order` loads the stock rows of a product
  (`web_api.py:806`) before `create_order` locks them. The locked SELECT does not
  refresh them, so the check under the lock repeats the old check. Two web orders, or
  a web order and a checkout, both get the last piece;
  `tests/integration/test_order_flow.py:113` expects 409.
- `cancel_lost_update`: `cancel_order` reads the stock row without a lock
  (`orders_repo.py:388`) and writes an absolute quantity. What another handler
  commits in between is overwritten, and the goods are not "returned to the stock" as
  its docstring says.
- `cancel_twice`: the customer's cancel button finds the order active
  (`client.py:1545`) and cancels by id without a lock or a second look. Two presses
  return the goods twice, although the handler answers "Заказ уже недоступен для
  отмены" (`client.py:1548`) to a press that comes later.
- `reset_hangs`: the block middleware keeps its session, and so a transaction that has
  read, open around the handler of an owner who is not the configured one
  (`block_user.py:41`). `confirm_reset_db_handler` awaits TRUNCATE, which waits for
  that transaction; neither ends, and every later query waits behind the TRUNCATE.
  The answer to a second confirmation promises an end (`shop.py:262`).

## 4. What is proved

The proofs hold for any sets of keys, sessions, tasks, users and workers, any initial
stock, carts and catalogue, and any limits and bounds, under the named assumptions of
the modules (`SessionsAssumption`, `OwnerAssumption`, ... : the constants have the
right types, runs are finitely many, a cart is not empty, `NoSession` is no session).
Each component has one inductive invariant. The properties alone are never inductive:
what is added says what a handler may rely on in what it has read, while others run.

*OrderStock.* The inductive invariant is `TypeOK` with `Good(s)` for every session.
`LockDiscipline` alone is not enough: that a checkout's reads stay current needs that
another session's commit writes only rows it has locked, so `Good` also ties what a
session has read to the rows it holds. A step of one session is split off from the
others by frame lemmas (a session that does not hold a row cannot change it). From
the invariant follow `TypeCorrect`, `LocksDisciplined`, `LockedReadsCurrent`,
`SaleRowsExact`, `RefusalsJustified` and the action property `LockedSalesExact`, all
for any mix of handlers. For the handlers that lock, a second invariant adds that
reads under a lock are all current; it gives `LedgerAlwaysBalances`, `GoodsConserved`
and `CheckoutsImplementInventory`: each step maps to a `Sell`, a `Complete` or a
stutter.

*WorkerQueue.* `RetriesAreEarned` rests on the count being carried by the copy that a
worker holds: a copy with count r, held or ready, has r failures behind it.
`TasksAreKept` is not inductive: a worker that acknowledges a retried message relies
on another copy being there. The invariant adds `HandedOver` with an order in it: the
copy left behind has a *higher* count. When it is handed on in turn, a still higher
one takes its place, so no cycle of copies can vouch for each other and vanish.
`AnswersAreBounded` is a potential argument: a message with count r may still lead to
MaxRetries + 1 - r answers, its own and its copy's. No step of a worker raises the
answers given plus those still allowed; only a fault and the question itself do.

*Checkout.* What a handler has read may be old, but never asks for more than the peak
(`CommitFits`), and peaks never fall: `RowsWithinStock`. Row ids are given out once,
so a row read is that row or gone. For a customer who waits, `Alone` adds that the
only handler's cart is the committed one but for deleted products (`Current`), from
which `EveryPieceSoldOnce` and `OneBonusPerOrder` follow across a death of the bot;
and `Asked`, that the writes still to come lead to a size the product is sold in.

*AiDialog.* `KeyLasts`: the cooldown key outlives a cooldown from every pass, which
gives `CooldownKept`. `WindowFits` counts the requests added and those counted and not
yet added; a handler joins the second kind only below the limit, so the excess is one
for each further handler (`WindowBounded`). `QuotaFits` pays for questions that are
about to be published. `Sound` says of every copy of a history, in Redis or in a
handler's hands, that it is in order and answers no question that is not published:
whichever copy is written back, `AnswersFollow`. `PostFits` finds the newest button's
post in the record or in the hands of its delivery.

*Broadcast and Tenants.* `PoolFits` counts recipients in the queue and in the workers'
hands (`unfinished`) and the copies counted, lost and about to be counted; it gives
`BroadcastsCount`, the state that `BroadcastReturns` promises. That the state is
reached stays with the run. In `Tenants` a transaction keeps the reset away (TRUNCATE
waits for it), so `Relies` can say of an open one that the shop has had an owner and
that the target of a removal is still not the main owner: `RemovalsSpareAnOwner`.
`ConfiguredFits` and the flag `barred` give `StartMakesTheOwner` and `BlockedStayOut`.

*Catalogue.* `Past` says that runs and the record name only products whose ids were
given out. `Photos` adds to a product's photos the uploads that have passed the count
(`Uploads`), which gives `PhotosLimited` under any interleaving. For an owner who
waits, `Dialogue` says of every list of writes still to come where it leads: into
the next question of an adding dialogue only with a product owed and with the photos
and quantities typed, and never past a forgotten dialogue's data; a death of the bot
may stop it anywhere, after which `AllButLast` still holds, and the quantity is asked
for again. That gives `NewProductsComplete`. `Pointers` says that the record, and what
is about to be written to it, names the product on the screen or one that is gone,
unless a run that opens another card is under way; hence `EditsHitTheShown`.

*Pages and OrderLists.* `EveryRowOnOnePage`: for any number of rows and any page size,
every row is on exactly one page between the first and the last of `TotalPages`. The
proof places row r on page ((r - 1) \div size) + 1, from what a quotient's floor is
(`Quotient`); two pages that share a row are the same because their offsets differ by
less than a page. On it rests the inductive invariant of the lists (`IInv`), for any
orders, page size, people's initial messages and renderings at once: message ids are
given out once and belong to one chat (`Ids`); where a rendering is determines what it
has read, sent and still has to send (`Control`, `Readings`); a header keeps what its
rendering had read (`Headers`); the pages walked so far hold the first rows of the
order the walk began with, none twice (`Walks`). `Cardlists` is what `OneListing`
needs: the cards of a list that is not spoilt are, at rest, the ids the record knows;
while a rendering replaces them, none from the deletion of the old ones to the header
and then those it has sent; and the FSM data it is about to write back knows the ids of
the other lists. That is inductive only because a second rendering for the same person
spoils the list (`Alone`). From it follow `OneListingAlways` and `PagesAreHonest`.

*Shelves and the composition.* `SInv` says of a handler at any stage of its plan what
it has so far. Whatever happens around it (`Proper`), that is rows without repetition
and a page that exists. As long as no other handler and no commit came between
(`Trusted`) it is also what the queries and the FSM data still say (`Faithful`): its
scope is the record's, its rows are a page of an order of what is found, its count is
the size of that. `Single` makes `Faithful` inductive: a handler that may be trusted
runs alone. For the next button, the screens must agree with the FSM data, which a
handler replaces several stages before it shows its own screen; `Breaks` names the
screens of which a handler that has written may have changed the data, and `Kept` says
the data of all others is untouched. Given these, the promise on a button is the sum or
count that the next handler finds (the sum of brands' pieces is a bijection of pairs),
and two pages of one reading share no row. Orders and goods share no
variable, so a behaviour of the composition is one of each (`Apart`), and
`ScreensTypeCorrect`, `ScreensAreHonest` and `ListsHonestBeside` hold of it.

Sums (goods in orders, pieces in a cart, allowed answers) are cardinalities of sets of
pairs in the model or the proof: what a recursive sum computes cannot be proved, and
the library's theorems on cardinalities of unions, products and intervals can be cited.

*Only model-checked.* The liveness properties `HandlersFinish`, `EveryTaskSettles` and
`BroadcastReturns`: liveness under fairness and ENABLED are out of the prover's reach.
Every invariant and every action property of a passing run is a theorem.

## 5. What is not modelled, and what could follow

Not modelled: sums of money, sales statistics by period, text reports and the ERP
sheet (queries and formatting without a state of their own); photos and wording of
cards; the filters of the warehouse's dashboard; relaying of support messages, which
is one send; tenant titles, presets and menus; the worker's prompts and its search for
products; the web API's public queries, its in-memory rate limit and metrics; schema
migrations and deployment, whose guarantees (restart, constraints, isolation level)
the models name where they use them.

Not composed: `Checkout` and `Catalogue` change the shelf in one step, so the row
locks of `OrderStock` never meet a deletion of the product or a new size's row. Two
people's FSM records never share a field, so each dialogue module has one person.

Next: the life cycle of an order, with its cancellation after completion, as a property
of `OrderStock`; deletion of products under its locks, with `Checkout`'s carts on top,
so that the one-step `create_order` there is shown to be implemented.

## 6. Running

    tlc -workers 2 -config stock_all.cfg MCOrderStock
    tlc -workers 2 -config stock_locked.cfg MCOrderStock
    tlc -workers 2 -config queue.cfg MCWorkerQueue
    tlc -workers 2 -config checkout.cfg MCCheckout
    tlc -workers 2 -config catalogue.cfg MCCatalogue
    tlc -workers 2 -config ai_dialog.cfg MCAiDialog
    tlc -workers 2 -config tenants.cfg MCTenants
    tlc -workers 2 -config screens.cfg MCScreens
    tlapm OrderStockProofs.tla
    tlapm WorkerQueueProofs.tla
    tlapm CheckoutProofs.tla
    tlapm AiDialogProofs.tla
    tlapm TenantsProofs.tla
    tlapm CatalogueProofs.tla
    tlapm OrderListsProofs.tla
    tlapm ScreensProofs.tla

`web_oversell`, `cancel_lost_update` and `cancel_twice` are configurations of
`MCOrderStock`, `reset_hangs` of `MCTenants`; they end with the counterexample.

Definitions marked "Mutant" are plausible bugs of the definition below them. Put in
its place, each violates the property `PROJECT.json` names; no run uses them.
