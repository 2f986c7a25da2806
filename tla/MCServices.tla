----------------------------- MODULE MCServices -----------------------------
(***************************************************************************)
(* Values for the constants of Services that a configuration cannot write. *)
(***************************************************************************)
EXTENDS Services

\* A yen has no smaller unit, and a euro is the base.
MCCurrencies == {"eur", "jpy"}
MCMinorUnits == [eur |-> 10, jpy |-> 1]
MCInputs ==
  {[op |-> "convert", amount |-> 15, source |-> "eur", target |-> "jpy"],
   [op |-> "convert", amount |-> 15, source |-> "eur", target |-> "eur"],
   [op |-> "convert", amount |-> 0, source |-> "eur", target |-> "jpy"],
   [op |-> "capture", amount |-> 0, source |-> "eur", target |-> "eur"]}
\* The second answer has no rate for the yen.
MCOffers == <<[eur |-> 10, jpy |-> 25], [eur |-> 10, jpy |-> 0]>>
-----------------------------------------------------------------------------
(* Inputs of the calculations.                                             *)

\* Amounts on both sides of a half, a missing rate, and the largest amount.
MCConversionInputs ==
  [amount : 1..99, source : MCCurrencies, target : MCCurrencies,
   rates : [MCCurrencies -> {3, 10, 25, 40}]]

Split(e, d, s) == [essentials |-> e, desires |-> d, savings |-> s]
Splits == {Split(50, 30, 20), Split(60, 40, 0), Split(0, 0, 100), Split(40, 35, 25)}

\* With and without savings, of an exact plan, and around every target.
MCScoreInputs ==
  [period : [budget : {4, 10, 100}, percent : Splits],
   spent : [H!Types -> {0, 1, 5, 20, 50}],
   window : {<< >>, <<0, 0, 0>>, <<1, 2, 2>>, <<0, 3, 0, 1>>}]

Expense(id, name, at, date, month, type, tag, amount, group, index, active) ==
  [id |-> id, name |-> name, at |-> at, date |-> date, year |-> month[1], month |-> month[2], type |-> type,
   tag |-> tag, amount |-> amount, group |-> group, index |-> index, active |-> active]

\* Two installments of a plan, one dated in the month before its period, a
\* corrected row, a tag that was deleted, and rows of one day.
Expenses ==
  {Expense(1, 1, 60, <<2024, 2, 29>>, <<2024, 2>>, "essentials", "food", 7, D!NoGroup, 0, TRUE),
   Expense(2, 1, 60, <<2024, 2, 29>>, <<2024, 2>>, "desires", "fun", 3, "plan", 1, TRUE),
   Expense(3, 1, 59, <<2024, 1, 31>>, <<2024, 2>>, "savings", "gone", 90, "plan", 2, TRUE),
   Expense(4, 2, 52, <<2024, 2, 1>>, <<2024, 2>>, "desires", "food", 5, D!NoGroup, 0, TRUE),
   Expense(5, 2, 30, <<2024, 2, 2>>, <<2024, 2>>, "desires", "food", 5, D!NoGroup, 0, FALSE),
   Expense(6, 3, 20, <<2023, 12, 31>>, <<2023, 12>>, "essentials", "food", 11, D!NoGroup, 0, TRUE)}

Period(month, budget, split, currency) ==
  [year |-> month[1], month |-> month[2], budget |-> budget, percent |-> split, currency |-> currency]

Histories ==
  {<<Period(<<2024, 2>>, budget, split, currency), Period(<<2024, 1>>, 0, split, "usd"),
     Period(<<2023, 12>>, budget, split, "usd"), Period(<<2023, 11>>, 100, split, "usd")>>
     : budget \in {0, 1, 100}, split \in {Split(50, 30, 20), Split(33, 33, 34), Split(0, 50, 50)},
       currency \in {"usd", "eur"}}

MCFigureInputs ==
  {[held |-> held, periods |-> periods, of |-> of, now |-> <<2024, 2, day>>,
    tags |-> {"food", "fun"}, months |-> IF of = 1 THEN 6 ELSE 14]
     : held \in SUBSET Expenses, periods \in Histories, of \in {1, 3}, day \in {1, 28, 29}}

MCListingInputs ==
  [held : SUBSET Expenses, year : {2024}, month : {2}, today : {60}, size : {0, 1, 2, 7}]

\* Every route with parameters filled in, names of other routes among them, and
\* paths that no route has.
Fill(path, segment) == [i \in DOMAIN path |-> IF path[i] \in G!Params THEN segment ELSE path[i]]
Paths ==
  {Fill(r.path, segment) : r \in G!Registry, segment \in {"x", "", "suggestions", "prorata", "history"}}
    \cup G!GatewayPaths
    \cup {<<"api">>, <<"api", "fx">>, <<"api", "datarights", "exports-admin">>,
          <<"api", "expenses", "prorata", "history">>, <<"api", "expenses", "suggestions", "x">>,
          <<"api", "expenses", ":id">>}

Identity(user, role) == [user |-> user, role |-> role, assumedBy |-> "none"]
MCRequestInputs ==
  [request : [method : {"GET", "POST", "PUT", "DELETE"}, path : Paths, cookie : BOOLEAN,
              claimed : {G!NoIdentity, Identity("eve", "admin")}],
   validated : {[ok |-> TRUE, identity |-> Identity("u", role), error |-> "none"] : role \in {"user", "admin"}}
               \cup {[ok |-> FALSE, identity |-> G!NoIdentity, error |-> e] : e \in {"refused", "timeout"}},
   up : {G!Services, G!Services \ {"expense"}}]
=============================================================================
