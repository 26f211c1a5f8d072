----------------------------- MODULE Catalogue -----------------------------
(***************************************************************************)
(* What is sold, in which currency and at which rate of exchange: products   *)
(* (product.service.ts, product.model.ts), currencies (currency.service.ts)  *)
(* and the rates by which invoices are reported (fx.service.ts,              *)
(* runtime-fx-rate.service.ts). Every operation looks before it writes, and  *)
(* two administrators may cross.                                             *)
(*                                                                          *)
(* A name is its letters and its case: the look-up takes names that differ   *)
(* in case alone for the same, the unique index does not. Left out: texts,   *)
(* prices, visibility in the store, pages of lists.                         *)
(***************************************************************************)
EXTENDS Integers, FiniteSets

CONSTANTS
    Products,       \* _ids of products
    Letters, NoLetters, \* names, without their case
    Pids,           \* six-digit product numbers
    Editors,        \* requests of administrators under way
    Codes,          \* currency codes
    DefaultCode,    \* DEFAULT_CURRENCY
    QuoteDay,        \* bound: days with a rate of their own
    Rates,          \* rates of exchange
    Nodes           \* processes, each with a runtime rate

CatalogueNulls == NoLetters \notin Letters /\ DefaultCode \in Codes
CatalogueBounds == QuoteDay \in Nat /\ Rates \subseteq Nat \ {0}

VARIABLES
    product,        \* the product documents
    edit,           \* what each request about a product is going to write
    currency,       \* the currency documents
    naming,         \* the currency save under way: its code and flag
    rateOf,         \* ExchangeRate of each day, 0 without one
    rate,           \* BillingSettings.exchangeRateBdt, and each process's runtimeBdtToBaseRate
    quote           \* the fxSnapshot of an invoice dated Today, and the one being built

catalogueVars == <<product, edit, currency, naming, rateOf, rate, quote>>

Titles == [letters : Letters \cup {NoLetters}, upper : BOOLEAN]
Untitled == [letters |-> NoLetters, upper |-> FALSE]
ProductRecord == [name : Titles, pid : Pids \cup {0}, free : BOOLEAN, cycle : BOOLEAN]
NoProduct == [name |-> Untitled, pid |-> 0, free |-> FALSE, cycle |-> FALSE]
NoEdit == [at |-> "idle", doc |-> NoProduct]
Quote == [rate : Rates \cup {0, 1}, legacy : BOOLEAN]

Sold(p) == product[p].name # Untitled

CatalogueTypeOK ==
    /\ product \in [Products -> ProductRecord]
    /\ \A p, q \in Products : Sold(p) /\ Sold(q) /\ p # q => product[p].name # product[q].name /\ product[p].pid # product[q].pid
    /\ edit \in [Editors -> [at : {"idle", "looked", "copied", "numbered"}, doc : ProductRecord] \cup
                            [at : {"renaming"}, id : Products, name : Titles]]
    /\ currency \in [Codes -> [known : BOOLEAN, enabled : BOOLEAN, default : BOOLEAN]]
    /\ naming \in [Editors -> [code : Codes \cup {"none"}, default : BOOLEAN]]
    /\ rateOf \in [0..QuoteDay -> Rates \cup {0}]
    /\ rate \in [stored : Rates, runtime : [Nodes -> Rates]]
    /\ quote \in [held : Quote, built : [Nodes -> Quote]]

NoQuote == [rate |-> 0, legacy |-> FALSE]

CatalogueInit ==
    /\ product = [p \in Products |-> NoProduct] /\ edit = [e \in Editors |-> NoEdit]
    /\ currency = [c \in Codes |-> [known |-> FALSE, enabled |-> FALSE, default |-> FALSE]]
    /\ naming = [e \in Editors |-> [code |-> "none", default |-> FALSE]]
    /\ rateOf = [d \in 0..QuoteDay |-> 0] /\ quote = [held |-> NoQuote, built |-> [n \in Nodes |-> NoQuote]]
    /\ \E r \in Rates : rate = [stored |-> r, runtime |-> [n \in Nodes |-> r]]

-----------------------------------------------------------------------------
(* Products. *)

notProducts == <<currency, naming, rateOf, rate, quote>>

\* The look-up of a name, without regard to case.
NameKnown(name, others) == \E p \in others : Sold(p) /\ product[p].name.letters = name.letters

Write(e, step, doc) == edit' = [edit EXCEPT ![e] = [at |-> step, doc |-> doc]]

\* createProduct: the name is looked up.
ProposeProduct(e, doc) ==
    /\ edit[e].at = "idle" /\ ~NameKnown(doc.name, Products) /\ Write(e, "looked", doc)
    /\ UNCHANGED product /\ UNCHANGED notProducts

\* duplicateProduct: a free name for the copy, looked up before it is made.
CopyProduct(e, p, name) ==
    /\ edit[e].at = "idle" /\ Sold(p) /\ name # product[p].name /\ ~NameKnown(name, Products)
    /\ Write(e, "looked", [product[p] EXCEPT !.name = name, !.pid = 0])
    /\ UNCHANGED product /\ UNCHANGED notProducts

\* The validation hook: a product number that is free now (ten are tried).
NumberProduct(e) ==
    /\ edit[e].at = "looked"
    /\ \/ \E n \in Pids : /\ \A p \in Products : product[p].pid # n
                          /\ Write(e, "numbered", [edit[e].doc EXCEPT !.pid = n])
       \/ edit' = [edit EXCEPT ![e] = NoEdit]
    /\ UNCHANGED product /\ UNCHANGED notProducts

\* The save hook wants a billing cycle; the unique indexes a name and a number nobody took since.
Priced(doc) == doc.free \/ doc.cycle
\* Mistake: the indexes are not there.
ClashesNever(name, others) == FALSE
Clashes(name, others) == \E p \in others : product[p].name = name

InsertProduct(e) ==
    /\ edit[e].at = "numbered" /\ edit' = [edit EXCEPT ![e] = NoEdit]
    /\ IF Priced(edit[e].doc) /\ ~Clashes(edit[e].doc.name, Products) /\ \A p \in Products : product[p].pid # edit[e].doc.pid
       THEN \E p \in Products : ~Sold(p) /\ product' = [product EXCEPT ![p] = edit[e].doc]
       ELSE UNCHANGED product
    /\ UNCHANGED notProducts

\* updateProduct with a name: looked up among the others, written by its _id.
LookForRename(e, p, name) ==
    /\ edit[e].at = "idle" /\ Sold(p) /\ ~NameKnown(name, Products \ {p})
    /\ edit' = [edit EXCEPT ![e] = [at |-> "renaming", id |-> p, name |-> name]]
    /\ UNCHANGED product /\ UNCHANGED notProducts

RenameProduct(e) ==
    /\ edit[e].at = "renaming" /\ edit' = [edit EXCEPT ![e] = NoEdit]
    /\ IF Sold(edit[e].id) /\ ~Clashes(edit[e].name, Products \ {edit[e].id})
       THEN product' = [product EXCEPT ![edit[e].id].name = edit[e].name]
       ELSE UNCHANGED product
    /\ UNCHANGED notProducts

\* updateProduct is findByIdAndUpdate: the save hook does not see what it does to the prices.
ChangeProduct(p) ==
    /\ Sold(p)
    /\ \E cycle \in BOOLEAN : product' = [product EXCEPT ![p].cycle = cycle]
    /\ UNCHANGED edit /\ UNCHANGED notProducts

DeleteProduct(p) == Sold(p) /\ product' = [product EXCEPT ![p] = NoProduct] /\ UNCHANGED edit /\ UNCHANGED notProducts

ProductNext == \/ \E e \in Editors, doc \in [name : Titles \ {Untitled}, pid : {0}, free : BOOLEAN, cycle : BOOLEAN] :
                                             doc.name.letters # NoLetters /\ ProposeProduct(e, doc)
               \/ \E e \in Editors, p \in Products, name \in Titles : /\ name.letters # NoLetters
                                                                      /\ CopyProduct(e, p, name) \/ LookForRename(e, p, name)
               \/ \E e \in Editors : NumberProduct(e) \/ InsertProduct(e) \/ RenameProduct(e)
               \/ \E p \in Products : ChangeProduct(p) \/ DeleteProduct(p)

-----------------------------------------------------------------------------
(* Currencies. *)

notCurrencies == <<product, edit, rateOf, rate, quote>>

\* ensureDefaults: an empty collection gets the known currencies.
EnsureDefaults ==
    /\ \A c \in Codes : ~currency[c].known
    /\ currency' = [c \in Codes |-> [known |-> TRUE, enabled |-> TRUE, default |-> c = DefaultCode]]
    /\ UNCHANGED naming /\ UNCHANGED notCurrencies

\* upsert: a new default takes the flag from all others first ...
ClearDefaults(e, c) ==
    /\ naming[e].code = "none" /\ naming' = [naming EXCEPT ![e] = [code |-> c, default |-> TRUE]]
    /\ currency' = [d \in Codes |-> IF d = c THEN currency[d] ELSE [currency[d] EXCEPT !.default = FALSE]]
    /\ UNCHANGED notCurrencies

Upserted(c, enabled, default) == [currency EXCEPT ![c] = [known |-> TRUE, enabled |-> enabled, default |-> default]]

\* ... then the currency is written.
UpsertDefault(e, enabled) ==
    /\ naming[e].code # "none" /\ currency' = Upserted(naming[e].code, enabled, TRUE)
    /\ naming' = [naming EXCEPT ![e] = [code |-> "none", default |-> FALSE]]
    /\ UNCHANGED notCurrencies

\* A save that leaves the flag out makes DEFAULT_CURRENCY a default again, and clears nobody else's.
UpsertCurrency(c, enabled, given) ==
    /\ currency' = Upserted(c, enabled, ~given /\ c = DefaultCode)
    /\ UNCHANGED naming /\ UNCHANGED notCurrencies

CurrencyNext == \/ EnsureDefaults
                \/ \E e \in Editors, c \in Codes : ClearDefaults(e, c)
                \/ \E e \in Editors, enabled \in BOOLEAN : UpsertDefault(e, enabled)
                \/ \E c \in Codes, enabled, given \in BOOLEAN : UpsertCurrency(c, enabled, given)

-----------------------------------------------------------------------------
(* Rates of exchange. The invoice whose snapshot is built is dated QuoteDay. *)

notRates == <<product, edit, currency, naming>>

\* getRateForDate: the last rate stored for the day or before it, else the process's own.
RateAt(n, day) ==
    LET days == {d \in 0..day : rateOf[d] # 0} IN
    IF days = {} THEN [rate |-> rate.runtime[n], legacy |-> TRUE]
    ELSE [rate |-> rateOf[CHOOSE d \in days : \A e \in days : e <= d], legacy |-> FALSE]

\* setInvoiceFxSnapshot builds from the rates it reads and saves the invoice.
BuildQuote(n) ==
    /\ quote' = [quote EXCEPT !.built[n] = RateAt(n, QuoteDay)]
    /\ UNCHANGED <<rateOf, rate>> /\ UNCHANGED notRates

SaveQuote(n) ==
    /\ quote.built[n] # NoQuote /\ quote' = [held |-> quote.built[n], built |-> [quote.built EXCEPT ![n] = NoQuote]]
    /\ UNCHANGED <<rateOf, rate>> /\ UNCHANGED notRates

SetRate(d, r) == rateOf' = [rateOf EXCEPT ![d] = r] /\ UNCHANGED <<rate, quote>> /\ UNCHANGED notRates

\* Settings saved in one process change its own rate, not the others'.
SaveSettingsRate(n, r) ==
    /\ rate' = [stored |-> r, runtime |-> [rate.runtime EXCEPT ![n] = r]]
    /\ UNCHANGED <<rateOf, quote>> /\ UNCHANGED notRates

\* startServer reads the stored rate.
NodeStarts(n) ==
    /\ rate' = [rate EXCEPT !.runtime[n] = rate.stored] /\ quote' = [quote EXCEPT !.built[n] = NoQuote]
    /\ UNCHANGED rateOf /\ UNCHANGED notRates

RateNext == \/ \E n \in Nodes : BuildQuote(n) \/ SaveQuote(n) \/ NodeStarts(n) \/ \E r \in Rates : SaveSettingsRate(n, r)
            \/ \E d \in 0..QuoteDay, r \in Rates : SetRate(d, r)

CatalogueNext == ProductNext \/ CurrencyNext \/ RateNext

CatalogueSpec == CatalogueInit /\ [][CatalogueNext]_catalogueVars
=============================================================================
