-------------------------------- MODULE Catalogue --------------------------------
(***************************************************************************)
(* The categories of a store as CategoryService keeps them, what its       *)
(* products say about them, and the favourites of a customer.              *)
(*                                                                         *)
(* A request to create or rename a category looks for a slug that is free, *)
(* one query for each candidate, and writes afterwards; rows that were     *)
(* deleted keep their name, slug and place.  A slug is the name it was     *)
(* made from with a number, zero for none.                                 *)
(***************************************************************************)
EXTENDS Integers, FiniteSets, FiniteSetsExt

CONSTANTS
    Categories,    \* keys for rows of Category
    Names,         \* names of categories
    Products,
    Admins,        \* requests of the back office
    Customers,     \* requests to toggle a favourite
    Root,          \* the parent of a category that has none
    MaxNumber,     \* bound: numbers a slug can get
    MaxToggles     \* bound: favourites that were toggled

VARIABLES
    category,      \* rows of Category, by key
    product,       \* per product its category, and whether it is active
    call,
    misplaced,     \* siblings were created at a time, or a request gave a place twice
    strayed,       \* categories a product was put in without a look at them
    favourite,     \* the row of the favourite: 0, or the number it was made with
    toggle, toggled

catalogueVars == <<category, product, call, misplaced, strayed>>
favouriteVars == <<favourite, toggle, toggled>>

CatalogueAssumption == IsFiniteSet(Categories)

Idle == [op |-> "idle"]
Rows == {k \in Categories : category[k].exists}
Siblings(parent) == {k \in Rows : category[k].parent = parent}
SlugTaken(slug) == \E k \in Rows : category[k].slug = slug
Places == 1 .. Cardinality(Categories)

\* No two siblings have the same place.
PlacesOwn(rows) ==
    \A j, k \in {l \in Categories : rows[l].exists} :
        j # k /\ rows[j].parent = rows[k].parent => rows[j].displayOrder # rows[k].displayOrder

Set(w, value) == call' = [call EXCEPT ![w] = value]

-----------------------------------------------------------------------------
(* CategoryService.create and update.                                      *)

\* The last place among the siblings; deleted ones count.
\* Faulty variant: the number of siblings that are left.
CountSiblings(parent) == Cardinality({k \in Siblings(parent) : category[k].isActive})
MaxOrder(parent) == Max({category[k].displayOrder : k \in Siblings(parent)} \union {0})

createCategory(w, name, parent) ==
    /\ call[w] = Idle
    /\ parent \in Rows \union {Root}
    /\ Set(w, [op |-> "create", name |-> name, parent |-> parent,
               order |-> MaxOrder(parent) + 1, slug |-> <<name, 0>>])
    /\ UNCHANGED <<category, product, misplaced, strayed>>

updateCategory(w, k, name) ==
    /\ call[w] = Idle /\ k \in Rows
    /\ Set(w, [op |-> "update", of |-> k, name |-> name, slug |-> <<name, 0>>])
    /\ UNCHANGED <<category, product, misplaced, strayed>>

\* generateUniqueSlug: one candidate, and the next when it is taken.  A category
\* that keeps its name finds itself.
NextSlug(w) ==
    /\ call[w].op \in {"create", "update"} /\ SlugTaken(call[w].slug)
    /\ call[w].slug[2] < MaxNumber
    /\ Set(w, [call[w] EXCEPT !.slug[2] = @ + 1])
    /\ UNCHANGED <<category, product, misplaced, strayed>>

SlugFound(w) ==
    /\ call[w].op \in {"create", "update"} /\ ~SlugTaken(call[w].slug)
    /\ Set(w, [call[w] EXCEPT !.op = IF @ = "create" THEN "insert" ELSE "write"])
    /\ UNCHANGED <<category, product, misplaced, strayed>>

\* Names and slugs are unique in the store.
Clash(k, c) == \E j \in Rows \ {k} : category[j].name = c.name \/ category[j].slug = c.slug

\* The level is one below that of the parent, as it was when it was created.
Level(parent) == IF parent = Root THEN 0 ELSE category[parent].level + 1

InsertCategory(w) ==
    /\ call[w].op = "insert"
    /\ \/ /\ Clash(Root, call[w])
          /\ UNCHANGED <<category, misplaced>>
       \/ /\ ~Clash(Root, call[w])
          /\ \E k \in Categories \ Rows :
                 category' = [category EXCEPT ![k] =
                     [exists |-> TRUE, name |-> call[w].name, slug |-> call[w].slug,
                      parent |-> call[w].parent, level |-> Level(call[w].parent),
                      displayOrder |-> call[w].order, isActive |-> TRUE]]
          /\ misplaced' = (misplaced \/
                 \E v \in Admins \ {w} : call[v].op \in {"create", "insert"} /\ call[v].parent = call[w].parent)
    /\ Set(w, Idle)
    /\ UNCHANGED <<product, strayed>>

WriteCategory(w) ==
    /\ call[w].op = "write"
    /\ category' = IF Clash(call[w].of, call[w]) THEN category
                   ELSE [category EXCEPT ![call[w].of].name = call[w].name,
                                         ![call[w].of].slug = call[w].slug]
    /\ Set(w, Idle)
    /\ UNCHANGED <<product, misplaced, strayed>>

-----------------------------------------------------------------------------
(* delete and reorder.                                                     *)

ActiveIn(k) == {p \in Products : product[p].isActive /\ product[p].category = k}

\* Products are counted, subcategories are not.
deleteCategory(w, k) ==
    /\ call[w] = Idle /\ k \in Rows /\ ActiveIn(k) = {}
    /\ Set(w, [op |-> "delete", of |-> k])
    /\ UNCHANGED <<category, product, misplaced, strayed>>

DeactivateCategory(w) ==
    /\ call[w].op = "delete"
    /\ category' = [category EXCEPT ![call[w].of].isActive = FALSE]
    /\ Set(w, Idle)
    /\ UNCHANGED <<product, misplaced, strayed>>

\* One transaction, with whatever places the request names.
reorder(w, places) ==
    /\ call[w] = Idle
    /\ category' = [k \in Categories |->
           IF k \in DOMAIN places THEN [category[k] EXCEPT !.displayOrder = places[k]] ELSE category[k]]
    /\ misplaced' = (misplaced \/ ~PlacesOwn(category') \/
           \E v \in Admins : call[v].op \in {"create", "insert"})
    /\ UNCHANGED <<product, call, strayed>>

-----------------------------------------------------------------------------
(* Products are put into a category without a look at it.                  *)

\* Whether the category was deleted, or counted by a request to delete it.
Closing(k) == ~category[k].isActive \/ \E w \in Admins : call[w].op = "delete" /\ call[w].of = k

PutIn(p, k) ==
    /\ k \in Rows
    /\ product' = [product EXCEPT ![p] = [category |-> k, isActive |-> TRUE]]
    /\ strayed' = IF Closing(k) THEN strayed \union {k} ELSE strayed
    /\ UNCHANGED <<category, call, misplaced>>

createProduct(p, k) == product[p].category = Root /\ PutIn(p, k)
bulkUpdate(p, k) == product[p].category # Root /\ PutIn(p, k)

softDelete(p) ==
    /\ product[p].isActive
    /\ product' = [product EXCEPT ![p].isActive = FALSE]
    /\ UNCHANGED <<category, call, misplaced, strayed>>

-----------------------------------------------------------------------------
(* FavoriteService.toggleFavorite of one customer and one product.         *)

toggleFavorite(c) ==
    /\ toggle[c] = Idle /\ toggled < MaxToggles
    /\ toggle' = [toggle EXCEPT ![c] = [op |-> "toggle", existing |-> favourite]]
    /\ UNCHANGED <<favourite, toggled>>

\* Faulty variant: the favourite is removed by its customer and product, and a request
\* that finds none has removed it too.
RemoveAny(c) ==
    /\ toggle[c].existing > 0
    /\ favourite' = 0
    /\ toggled' = toggled + 1

\* The row that was found is deleted; the request fails when it is gone.
RemoveFavourite(c) ==
    /\ toggle[c].existing > 0
    /\ IF favourite = toggle[c].existing THEN favourite' = 0 /\ toggled' = toggled + 1
       ELSE UNCHANGED <<favourite, toggled>>

\* Created once for a customer and a product; the request fails otherwise.
AddFavourite(c) ==
    /\ toggle[c].existing = 0
    /\ IF favourite = 0 THEN favourite' = toggled + 1 /\ toggled' = toggled + 1
       ELSE UNCHANGED <<favourite, toggled>>

AnswerToggle(c) ==
    /\ toggle[c].op = "toggle"
    /\ RemoveFavourite(c) \/ AddFavourite(c)
    /\ toggle' = [toggle EXCEPT ![c] = Idle]

-----------------------------------------------------------------------------
CatalogueInit ==
    /\ category = [k \in Categories |->
           [exists |-> FALSE, name |-> Root, slug |-> <<Root, 0>>, parent |-> Root,
            level |-> 0, displayOrder |-> 0, isActive |-> FALSE]]
    /\ product = [p \in Products |-> [category |-> Root, isActive |-> FALSE]]
    /\ call = [w \in Admins |-> Idle]
    /\ misplaced = FALSE
    /\ strayed = {}

FavouriteInit ==
    /\ favourite = 0
    /\ toggle = [c \in Customers |-> Idle]
    /\ toggled = 0

Init == CatalogueInit /\ FavouriteInit

CatalogueNext ==
    /\ \/ \E w \in Admins :
              \/ \E name \in Names, parent \in Categories \union {Root} : createCategory(w, name, parent)
              \/ \E k \in Categories, name \in Names : updateCategory(w, k, name)
              \/ NextSlug(w) \/ SlugFound(w) \/ InsertCategory(w) \/ WriteCategory(w)
              \/ \E k \in Categories : deleteCategory(w, k)
              \/ DeactivateCategory(w)
              \/ \E ks \in SUBSET Rows \ {{}} : \E places \in [ks -> Places] : reorder(w, places)
       \/ \E p \in Products :
              \/ \E k \in Categories : createProduct(p, k) \/ bulkUpdate(p, k)
              \/ softDelete(p)
    /\ UNCHANGED favouriteVars

FavouriteNext ==
    /\ \E c \in Customers : toggleFavorite(c) \/ AnswerToggle(c)
    /\ UNCHANGED catalogueVars

-----------------------------------------------------------------------------
\* The categories of a store fit together: siblings have places of their own
\* unless two were created at a time or a request gave a place twice; a slug
\* is made from the name its category has; a category that was deleted has no
\* active product but those put in after its products were counted.
\* Each is read in one query and relied on in a later one.
CatalogueSound ==
    /\ ~misplaced => PlacesOwn(category)
    /\ \A k \in Rows : category[k].slug[1] = category[k].name
    /\ \A k \in Rows : ~category[k].isActive /\ k \notin strayed => ActiveIn(k) = {}
    /\ \A k \in Rows : category[k].parent # Root
           => category[k].level = category[category[k].parent].level + 1

\* Every toggle that was answered has turned the favourite over, whatever ran
\* at the same time: it is there after an odd number of them.
\* toggleFavorite decides from a row it read before.
FavouriteTurned == (favourite > 0) <=> (toggled % 2 = 1)

=============================================================================
