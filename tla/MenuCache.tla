------------------------------- MODULE MenuCache -------------------------------
(***************************************************************************)
(* The menu of one store and its cache: MenuService.getStoreMenu, which    *)
(* customers, the admin preview and createOrder read, MenuCacheService     *)
(* with the version key of cacheVersion.ts and withCache, and the services *)
(* that change what is on the menu.                                        *)
(*                                                                         *)
(* What the rows say is the number of changes made to them, so that a menu *)
(* is known by how many changes it has seen.  A change and the bump of the *)
(* version are two statements, reading the version, looking up the entry,  *)
(* building the menu and storing it are four.                              *)
(***************************************************************************)
EXTENDS Integers, FiniteSets

CONSTANTS
    Products,     \* keys for rows of Product, all of one category
    Admins,       \* requests of the back office, each with a call of its own
    Readers,      \* requests for the menu and pre-warming, likewise
    MaxChanges    \* bound: changes made to the rows, and bumps but one

MenuAssumption == MaxChanges \in Nat

NoMenu == -1
Idle == [op |-> "idle"]

VARIABLES
    product,      \* "none", "shown" or "hidden"
    category,     \* whether the category of the products is there and active
    changes,      \* how many changes the rows have seen
    version,      \* the version key in Redis, 0 when it was never written
    cache,        \* the menus in Redis, by version
    call, reading,
    announced,    \* the latest change whose request was answered after a bump
    orphaned,     \* a category was deleted while a product was added to it
    behind        \* a reader was given a menu without a change announced before

menuVars == <<product, category, changes, version, cache, call, reading,
              announced, orphaned, behind>>

Keys == 1 .. MaxChanges + 1

\* getCacheVersion: a missing key counts as version one.
CacheVersion == IF version = 0 THEN 1 ELSE version

Exists(p) == product[p] # "none"

\* The rows change, and the request goes on to invalidate the menu.
Changed(w, next) ==
    /\ changes < MaxChanges
    /\ changes' = changes + 1
    /\ call' = [call EXCEPT ![w] = next]

Invalidate(w) == Changed(w, [op |-> "bump", of |-> changes + 1])

\* The rows change, and that is all: MenuCacheService.invalidate gets the id of
\* the store for its argument, and bumps the version of a store without a name.
Quietly(w) == call[w] = Idle /\ Changed(w, Idle)

Rest == UNCHANGED <<version, cache, reading, announced, behind>>

Begin(w, c) ==
    /\ call[w] = Idle /\ call' = [call EXCEPT ![w] = c]
    /\ UNCHANGED <<product, category, changes, orphaned>> /\ Rest

Set(p, value) == product' = [product EXCEPT ![p] = value]

-----------------------------------------------------------------------------
(* ProductAdminService: changes that are announced.                        *)

createProduct(w, p) ==
    /\ call[w] = Idle /\ category /\ ~Exists(p)
    /\ Set(p, "shown") /\ Invalidate(w)
    /\ orphaned' = (orphaned \/ \E v \in Admins : call[v].op = "deleteCategory")
    /\ UNCHANGED category /\ Rest

\* updateProduct and deleteProduct look first, and fail when the row is gone.
updateProduct(w, p) == Exists(p) /\ Begin(w, [op |-> "update", of |-> p])
deleteProduct(w, p) == Exists(p) /\ Begin(w, [op |-> "delete", of |-> p])

WriteProduct(w) ==
    /\ call[w].op \in {"update", "delete"} /\ Exists(call[w].of)
    /\ IF call[w].op = "delete" THEN Set(call[w].of, "none")
       ELSE \E value \in {"shown", "hidden"} : Set(call[w].of, value)
    /\ Invalidate(w)
    /\ UNCHANGED <<category, orphaned>> /\ Rest

\* bulkUpdatePrices: one statement for each product, then one bump, whatever failed.
bulkUpdatePrices(w) == Begin(w, [op |-> "prices", todo |-> Products])

NextPrice(w) ==
    /\ call[w].op = "prices"
    /\ \E p \in call[w].todo :
           IF Exists(p)
           THEN Changed(w, IF call[w].todo = {p} THEN [op |-> "bump", of |-> changes + 1]
                           ELSE [call[w] EXCEPT !.todo = @ \ {p}])
           ELSE /\ call' = [call EXCEPT ![w] = IF @.todo = {p} THEN [op |-> "bump", of |-> 0]
                                               ELSE [call[w] EXCEPT !.todo = @ \ {p}]]
                /\ UNCHANGED changes
    /\ UNCHANGED <<product, category, orphaned>> /\ Rest

bulkUpdateAvailability(w, ps, value) ==
    /\ call[w] = Idle
    /\ product' = [p \in Products |-> IF p \in ps /\ Exists(p) THEN value ELSE product[p]]
    /\ Invalidate(w)
    /\ UNCHANGED <<category, orphaned>> /\ Rest

-----------------------------------------------------------------------------
(* CategoryAdminService and OptionGroupAdminService.                       *)

createCategory(w) ==
    /\ call[w] = Idle /\ ~category /\ category' = TRUE /\ Invalidate(w)
    /\ UNCHANGED <<product, orphaned>> /\ Rest

updateCategory(w) ==
    /\ call[w] = Idle /\ category /\ Invalidate(w)
    /\ UNCHANGED <<product, category, orphaned>> /\ Rest

deleteCategory(w) ==
    /\ category /\ \A p \in Products : ~Exists(p)
    /\ Begin(w, [op |-> "deleteCategory"])

\* A product that was added meanwhile loses its category.
DropCategory(w) ==
    /\ call[w].op = "deleteCategory" /\ category
    /\ category' = FALSE /\ Invalidate(w)
    /\ UNCHANGED <<product, orphaned>> /\ Rest

\* linkToProduct, unlinkFromProduct.
LinkOptions(w, p) ==
    /\ call[w] = Idle /\ Exists(p) /\ Invalidate(w)
    /\ UNCHANGED <<product, category, orphaned>> /\ Rest

-----------------------------------------------------------------------------
(* ProductService and CategoryService: changes nobody tells the menu of.   *)

create(w, p) ==
    /\ ~Exists(p) /\ category /\ Set(p, "shown") /\ Quietly(w)
    /\ orphaned' = (orphaned \/ \E v \in Admins : call[v].op = "deleteCategory")
    /\ UNCHANGED category /\ Rest

update(w, p) ==
    /\ Exists(p) /\ (\E value \in {"shown", "hidden"} : Set(p, value)) /\ Quietly(w)
    /\ UNCHANGED <<category, orphaned>> /\ Rest

\* The row of a deleted product stays, and keeps its category in place.
softDelete(w, p) ==
    /\ Exists(p) /\ Set(p, "hidden") /\ Quietly(w)
    /\ UNCHANGED <<category, orphaned>> /\ Rest

\* bulkUpdate, and the name or the place of a category.
Rearrange(w) ==
    /\ category /\ Quietly(w)
    /\ UNCHANGED <<product, category, orphaned>> /\ Rest

-----------------------------------------------------------------------------
(* MenuCacheService.invalidate.  The snapshot it starts looks its hash up   *)
(* as if it were a unique key, and fails; pre-warming is one more reader.   *)

NextVersion == version + 1

\* Bumping a missing key writes one, the version that readers took it for.
BumpVersion(w) ==
    /\ call[w].op = "bump" /\ version <= MaxChanges
    /\ version' = NextVersion
    /\ announced' = IF version > 0 /\ call[w].of > announced THEN call[w].of ELSE announced
    /\ call' = [call EXCEPT ![w] = Idle]
    /\ UNCHANGED <<product, category, changes, cache, reading, orphaned, behind>>

\* A request stops before its change, or between its change and the bump.
Fail(w) ==
    /\ call[w] # Idle
    /\ call' = [call EXCEPT ![w] = Idle]
    /\ UNCHANGED <<product, category, changes, orphaned>> /\ Rest

-----------------------------------------------------------------------------
(* getStoreMenu.                                                           *)

RowsKept == UNCHANGED <<product, category, changes, version, call, announced, orphaned>>

getStoreMenu(r) ==
    /\ reading[r] = Idle
    /\ reading' = [reading EXCEPT ![r] = [op |-> "lookup", key |-> CacheVersion, least |-> announced]]
    /\ RowsKept /\ UNCHANGED <<cache, behind>>

Give(r, menu) ==
    /\ behind' = (behind \/ menu < reading[r].least)
    /\ reading' = [reading EXCEPT ![r] = Idle]

Lookup(r) ==
    /\ reading[r].op = "lookup"
    /\ IF cache[reading[r].key] # NoMenu THEN Give(r, cache[reading[r].key])
       ELSE /\ reading' = [reading EXCEPT ![r].op = "build"]
            /\ UNCHANGED behind
    /\ RowsKept /\ UNCHANGED cache

buildMenu(r) ==
    /\ reading[r].op = "build"
    /\ reading' = [reading EXCEPT ![r] = [op |-> "store", key |-> @.key, least |-> @.least, menu |-> changes]]
    /\ RowsKept /\ UNCHANGED <<cache, behind>>

\* Faulty variant: the entry is stored under the version of the moment.
StoreCurrent(r) ==
    /\ reading[r].op = "store"
    /\ cache' = [cache EXCEPT ![CacheVersion] = reading[r].menu]
    /\ Give(r, reading[r].menu)
    /\ RowsKept

StoreMenu(r) ==
    /\ reading[r].op = "store"
    /\ cache' = [cache EXCEPT ![reading[r].key] = reading[r].menu]
    /\ Give(r, reading[r].menu)
    /\ RowsKept

\* Five minutes pass.
Expire(k) ==
    /\ cache[k] # NoMenu
    /\ cache' = [cache EXCEPT ![k] = NoMenu]
    /\ RowsKept /\ UNCHANGED <<reading, behind>>

-----------------------------------------------------------------------------

Init ==
    /\ product \in {[p \in Products |-> s] : s \in {"none", "shown"}}
    /\ category = TRUE
    /\ changes = 0 /\ version = 0
    /\ cache = [k \in Keys |-> NoMenu]
    /\ call = [w \in Admins |-> Idle] /\ reading = [r \in Readers |-> Idle]
    /\ announced = 0 /\ orphaned = FALSE
    /\ behind = FALSE

Next ==
    \/ \E w \in Admins :
           \/ \E p \in Products :
                  \/ createProduct(w, p) \/ updateProduct(w, p) \/ deleteProduct(w, p)
                  \/ LinkOptions(w, p) \/ create(w, p) \/ update(w, p) \/ softDelete(w, p)
           \/ WriteProduct(w) \/ bulkUpdatePrices(w) \/ NextPrice(w)
           \/ \E ps \in SUBSET Products, value \in {"shown", "hidden"} : bulkUpdateAvailability(w, ps, value)
           \/ createCategory(w) \/ updateCategory(w) \/ deleteCategory(w) \/ DropCategory(w)
           \/ Rearrange(w) \/ BumpVersion(w) \/ Fail(w)
    \/ \E r \in Readers : getStoreMenu(r) \/ Lookup(r) \/ buildMenu(r) \/ StoreMenu(r)
    \/ \E k \in Keys : Expire(k)

Spec == Init /\ [][Next]_menuVars

-----------------------------------------------------------------------------

\* Once a change has been answered, nobody is given a menu without it, however
\* slow the reader that stores its menu late; the first bump of all excepted.
MenuKeepsUp == ~behind

\* A product belongs to a category that is there, unless it was added while that
\* category was being deleted.
ProductsHaveCategory == orphaned \/ category \/ \A p \in Products : ~Exists(p)

MenuSound == MenuKeepsUp /\ ProductsHaveCategory
================================================================================
