------------------------------- MODULE Models -------------------------------
(***************************************************************************)
(* The list models: ScriptModel, which turns one list of values into the   *)
(* next by inserting, removing, moving and changing rows, and ObjectModel, *)
(* which does so with objects (core/scriptmodel.cpp, core/model.hpp).      *)
(*                                                                         *)
(* A view knows a model by its row signals alone, and QML runs at each of  *)
(* them: an update is a sequence of steps, and each is to leave the view   *)
(* with the rows of the model.                                             *)
(***************************************************************************)
EXTENDS Naturals, Sequences

CONSTANTS
    Keys, Data,     (* of which values are made; objects have no other data  *)
    Values,         (* records of a key and data                             *)
    MaxLen          (* bound: the length of a list                           *)

ASSUME ConstantsAssumption == /\ Values \subseteq [key : Keys, data : Data]
                              /\ MaxLen \in Nat

VARIABLES
    kind,           (* of the model: script or object                        *)
    cmpKey,         (* whether values with the same key are the same         *)
    values,         (* mValues: what the model holds                         *)
    newValues,      (* what it is being made to hold                         *)
    iter, newIter,  (* where the update has come to in either                *)
    phase,          (* idle, update, or of objects: prune and place          *)
    view,           (* the rows of a view: the value each shows, and whether *)
                    (* it was there before the update                        *)
    before,         (* history: the values before the update                 *)
    moved           (* history: the rows that it has moved to their places   *)

vars == <<kind, cmpKey, values, newValues, iter, newIter, phase, view, before, moved>>

Lists == UNION {[1..n -> Values] : n \in 0..MaxLen}

\* variantCmp
Same(a, b) == IF cmpKey THEN a.key = b.key ELSE a = b

\* No two values of the list are the same.
Unique(list) == \A i, j \in DOMAIN list : Same(list[i], list[j]) => i = j

Contains(list, v) == \E i \in DOMAIN list : Same(list[i], v)
Rest(list, from) == SubSeq(list, from, Len(list))
Without(list, first, last) == SubSeq(list, 1, first - 1) \o Rest(list, last + 1)
With(list, at, added) == SubSeq(list, 1, at - 1) \o added \o Rest(list, at)

-----------------------------------------------------------------------------
(* What a view makes of the row signals: beginRemoveRows, beginInsertRows, *)
(* beginMoveRows and dataChanged, of which the last and the inserted rows  *)
(* are read from the model.                                                *)

RemoveRows(first, last) == view' = Without(view, first, last)

InsertRows(first, last) ==
    view' = With(view, first, [i \in 1..(last - first + 1) |->
                               [shows |-> values'[first + i - 1], old |-> FALSE]])

\* Rows are moved before the row at, that is not one of them.
MoveRows(first, last, at) ==
    view' = With(Without(view, first, last), at, SubSeq(view, first, last))

DataChanged(first, last) ==
    view' = [i \in DOMAIN view |-> IF i \in first..last
                                   THEN [view[i] EXCEPT !.shows = values'[i]] ELSE view[i]]

-----------------------------------------------------------------------------
(* ScriptModel::updateValuesUnique, a step for each turn of its loop.      *)

Updating == phase = "update"
AtEnd == iter > Len(values)
NewAtEnd == newIter > Len(newValues)
Between == Updating /\ ~AtEnd /\ ~NewAtEnd
Old == values[iter]
New == newValues[newIter]

SameUpdate == UNCHANGED <<kind, cmpKey, newValues, before>>
Unchanged == SameUpdate /\ UNCHANGED moved
Ends == phase' = "idle" /\ UNCHANGED <<iter, newIter>> /\ Unchanged
Goes(it, newIt) == iter' = it /\ newIter' = newIt /\ UNCHANGED phase /\ Unchanged

\* How far a run of positions goes on from i, which is one of it: the first
\* position behind it.
RunEnd(list, i, run) ==
    CHOOSE e \in (i + 1)..(Len(list) + 1) :
        /\ (i + 1)..(e - 1) \subseteq run
        /\ e = Len(list) + 1 \/ e \notin run

UpdateEnds == Updating /\ NewAtEnd /\ AtEnd /\ UNCHANGED <<values, view>> /\ Ends

\* What is left of the old list is removed, which has the length of the new.
Chop ==
    /\ Updating /\ NewAtEnd /\ ~AtEnd
    /\ values' = SubSeq(values, 1, iter - 1)
    /\ RemoveRows(Len(newValues) + 1, Len(values))
    /\ Ends

\* What is left of the new list is appended.
AppendRest ==
    /\ Updating /\ ~NewAtEnd /\ AtEnd
    /\ values' = values \o Rest(newValues, Len(values) + 1)
    /\ InsertRows(Len(values) + 1, Len(newValues))
    /\ Ends

\* Variant: whether the new list has the old one is not asked.
RemoveUntil ==
    /\ Between /\ ~Same(New, Old) /\ Contains(Rest(values, iter), New)
    /\ LET e == RunEnd(values, iter, {j \in DOMAIN values : ~Same(values[j], New)})
       IN  values' = Without(values, iter, e - 1) /\ RemoveRows(iter, e - 1)
    /\ Goes(iter, newIter)

\* Of two different values, the new one is further down: if the old one is not
\* in the new list, it is removed with those after it that are not either.
RemoveGone ==
    /\ Between /\ ~Same(New, Old) /\ Contains(Rest(values, iter), New)
    /\ ~Contains(Rest(newValues, newIter), Old)
    /\ LET e == RunEnd(values, iter, {j \in DOMAIN values : ~Contains(Rest(newValues, newIter), values[j])})
       IN  values' = Without(values, iter, e - 1) /\ RemoveRows(iter, e - 1)
    /\ Goes(iter, newIter)

\* Otherwise the new one is moved here, with those that follow it in both.
MoveRange ==
    /\ Between /\ ~Same(New, Old) /\ Contains(Rest(values, iter), New)
    /\ Contains(Rest(newValues, newIter), Old)
    /\ LET from == CHOOSE i \in iter..Len(values) :
                        Same(values[i], New) /\ \A j \in iter..(i - 1) : ~Same(values[j], New)
           e == RunEnd(values, from,
                      {j \in from..Len(values) : /\ newIter + (j - from) <= Len(newValues)
                                                 /\ Same(values[j], newValues[newIter + (j - from)])})
           len == e - from
       IN  /\ values' = With(Without(values, from, e - 1), iter, SubSeq(values, from, e - 1))
           /\ MoveRows(from, e - 1, iter)
           /\ moved' = moved \cup iter..(iter + len - 1)
           /\ iter' = iter + len /\ newIter' = newIter + len /\ UNCHANGED phase /\ SameUpdate

\* The new value is in neither place: it is inserted, with those after it that
\* the old list does not hold.
InsertNew ==
    /\ Between /\ ~Same(New, Old) /\ ~Contains(Rest(values, iter), New)
    /\ LET e == RunEnd(newValues, newIter,
                      {j \in DOMAIN newValues : ~Contains(Rest(values, iter), newValues[j])})
           len == e - newIter
       IN  /\ values' = With(values, iter, SubSeq(newValues, newIter, e - 1))
           /\ InsertRows(iter, iter + len - 1)
           /\ Goes(iter + len, e)

\* Variant: the views are not told of the last one.
ReplaceShort ==
    /\ Between /\ Same(New, Old) /\ New # Old
    /\ LET e == RunEnd(values, iter,
                      {j \in iter..Len(values) : /\ newIter + (j - iter) <= Len(newValues)
                                                 /\ values[j] # newValues[newIter + (j - iter)]})
       IN  /\ values' = [i \in DOMAIN values |-> IF i \in iter..(e - 1)
                                                 THEN newValues[newIter + (i - iter)] ELSE values[i]]
           /\ DataChanged(iter, e - 2)
           /\ Goes(e, newIter + (e - iter))

\* Variant: the data is not replaced.
KeepData ==
    /\ Between /\ Same(New, Old) /\ New # Old /\ UNCHANGED <<values, view>>
    /\ Goes(iter + 1, newIter + 1)

\* The value is the same but for data other than the key: it is replaced, with
\* those after it that differ in any way.
Replace ==
    /\ Between /\ Same(New, Old) /\ New # Old
    /\ LET e == RunEnd(values, iter,
                      {j \in iter..Len(values) : /\ newIter + (j - iter) <= Len(newValues)
                                                 /\ values[j] # newValues[newIter + (j - iter)]})
       IN  /\ values' = [i \in DOMAIN values |-> IF i \in iter..(e - 1)
                                                 THEN newValues[newIter + (i - iter)] ELSE values[i]]
           /\ DataChanged(iter, e - 1)
           /\ Goes(e, newIter + (e - iter))

Advance == Between /\ New = Old /\ UNCHANGED <<values, view>> /\ Goes(iter + 1, newIter + 1)

ScriptNext == \/ UpdateEnds \/ Chop \/ AppendRest \/ RemoveGone \/ MoveRange \/ InsertNew
              \/ Replace \/ Advance

-----------------------------------------------------------------------------
(* ObjectModel::diffUpdate, a step for each row that is removed or         *)
(* inserted, at which valuesChanged is emitted.                            *)

Pruning == phase = "prune"
Placing == phase = "place"

\* removeAt and insertObject
RemoveAt(i) == values' = Without(values, i, i) /\ RemoveRows(i, i)
InsertObject(object, i) == values' = With(values, i, <<object>>) /\ InsertRows(i, i)

Prune ==
    /\ Pruning /\ ~AtEnd
    /\ IF Contains(newValues, Old)
       THEN UNCHANGED <<values, view>> /\ Goes(iter + 1, newIter)
       ELSE RemoveAt(iter) /\ Goes(iter, newIter)

PruneEnds == Pruning /\ AtEnd /\ phase' = "place" /\ UNCHANGED <<values, view, iter, newIter>>
             /\ Unchanged

InPlace == newIter <= Len(values) /\ values[newIter] = New
Below == {i \in newIter..Len(values) : values[i] = New}

\* Variant: an object that is further down is not looked for.
PlaceTwice ==
    /\ Placing /\ ~NewAtEnd
    /\ IF InPlace THEN UNCHANGED <<values, view>> ELSE InsertObject(New, newIter)
    /\ Goes(iter, newIter + 1)

\* The object's row further down is removed before it is inserted here.
Place ==
    /\ Placing /\ ~NewAtEnd
    /\ IF InPlace THEN UNCHANGED <<values, view>> /\ Goes(iter, newIter + 1)
       ELSE IF Below # {}
       THEN /\ RemoveAt(CHOOSE i \in Below : \A j \in Below : i <= j)
            /\ Goes(iter, newIter)
       ELSE InsertObject(New, newIter) /\ Goes(iter, newIter + 1)

PlaceEnds == Placing /\ NewAtEnd /\ UNCHANGED <<values, view>> /\ Ends

ObjectNext == Prune \/ PruneEnds \/ Place \/ PlaceEnds

-----------------------------------------------------------------------------
Begin(list, ph) ==
    /\ newValues' = list /\ phase' = ph /\ iter' = 1 /\ newIter' = 1
    /\ view' = [i \in DOMAIN view |-> [view[i] EXCEPT !.old = TRUE]]
    /\ before' = values /\ moved' = {}
    /\ UNCHANGED <<kind, values>>

Idle == phase = "idle"

\* setValues
SetValues(list) ==
    /\ Idle /\ kind = "script" /\ list # values
    /\ Begin(list, "update") /\ UNCHANGED cmpKey

\* setObjectProp updates to the values that the model has.
SetObjectProp == Idle /\ kind = "script" /\ Begin(values, "update") /\ cmpKey' = ~cmpKey

\* diffUpdate, which assumes that no object is in the list twice.
DiffUpdate(list) ==
    /\ Idle /\ kind = "object" /\ Unique(list)
    /\ Begin(list, "prune") /\ UNCHANGED cmpKey

Init == /\ kind \in {"script", "object"} /\ cmpKey = FALSE
        /\ values = <<>> /\ newValues = <<>> /\ iter = 1 /\ newIter = 1
        /\ phase = "idle" /\ view = <<>> /\ before = <<>>
        /\ moved = {}

Next == \/ ScriptNext \/ ObjectNext \/ SetObjectProp
        \/ \E list \in Lists : SetValues(list) \/ DiffUpdate(list)

\* An update runs to its end.
Spec == Init /\ [][Next]_vars /\ WF_vars(ScriptNext \/ ObjectNext)

-----------------------------------------------------------------------------
TypeOK ==
    /\ kind \in {"script", "object"} /\ cmpKey \in BOOLEAN
    /\ phase \in {"idle"} \cup (IF kind = "script" THEN {"update"} ELSE {"prune", "place"})
    /\ values \in Seq(Values) /\ newValues \in Seq(Values) /\ before \in Seq(Values)
    /\ view \in Seq([shows : Values, old : BOOLEAN])
    /\ iter \in 1..(MaxLen + 1) /\ newIter \in 1..(MaxLen + 1) /\ moved \subseteq 1..MaxLen

\* At each signal the views have the rows of the model, whatever the lists are,
\* duplicates included: the rows that are said to be removed, inserted, moved
\* or changed are those that are (scriptmodel.cpp:49, :59, :102, :126, :148).
ViewFollows == /\ Len(view) = Len(values)
               /\ \A i \in DOMAIN view : view[i].shows = values[i]

\* Row i holds the value that the new list has there; one that was moved to its
\* place holds one that is the same.
Reflects(i) == IF i \in moved THEN Same(values[i], newValues[i]) ELSE values[i] = newValues[i]

\* An update goes down both lists at once, and what lies behind it holds the
\* new list, with its data (scriptmodel.cpp:137): the rows left over are counted
\* from there (scriptmodel.cpp:49, :59).  So in the end the model holds the new
\* list, but for the data of rows that were moved.
DoneIsNew ==
    /\ Updating => /\ iter = newIter /\ iter <= Len(values) + 1
                   /\ \A i \in 1..(iter - 1) : Reflects(i)
    /\ Idle => Len(values) = Len(newValues) /\ \A i \in DOMAIN values : Reflects(i)

\* No object is in the list twice, at no signal of an update (model.hpp:142:
\* "drop the old row first so the same pointer is not inserted twice").
NeverTwice == kind = "object" => Unique(values)

\* A row of a list of unique values is new only if its value was not in the
\* list before, were there twice or not (scriptmodel.hpp:19, "only new items
\* will be created"), when values are compared as a whole.
OnlyNewCreated ==
    Idle /\ kind = "script" /\ ~cmpKey /\ Unique(values)
    => \A i \in DOMAIN view : Contains(before, values[i]) => view[i].old

=============================================================================
