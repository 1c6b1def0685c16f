----------------------------- MODULE Preprocessor -----------------------------
(***************************************************************************)
(* The preprocessor, picopr.c: it collects the items of the text, looks for *)
(* the cheapest way through the productions of its context that reads the   *)
(* tokens at hand (a depth-first search it can leave, for a token that has  *)
(* not come or after so many steps), and puts what that production makes of *)
(* them, or the token as it is; out of what is made come words and          *)
(* punctuation.  A voice without networks, for which items pass unchanged,  *)
(* is left out.                                                             *)
(*                                                                          *)
(* search is what the code keeps of a search: rgState, ractpath (its        *)
(* elements: the token, the number of the item it matches or 0, rcompare,   *)
(* rdepth, rprodprefcost, rlState), rbestpath with rcost, prodList; and, as *)
(* history, whether alternatives were left untried (cut).  put is what is   *)
(* to be put (routItemList) with what the items before leave behind:        *)
(* rignore, insidePhoneme, spellMode, actCtx, actCtxChanged, saveFile; and, *)
(* as history, the commands not passed on (gone), and whether the process   *)
(* has ended in the middle of it (crashed).                                 *)
(***************************************************************************)
EXTENDS PreprocOutput
LOCAL INSTANCE SequencesExt
LOCAL INSTANCE FiniteSetsExt

CONSTANTS Cap,            \* items the output buffer takes
          MaxInItems,     \* items that fill 45 % of the memory (PR_DYN_MEM_SIZE)
          MaxIterations,  \* PR_MAX_NR_ITERATIONS
          MaxPathLen,     \* PR_MAX_PATH_LEN
          Prods,          \* the productions: [name, first, pref]
          Contexts,       \* the entries of the context table: [ctx, prod]
          Punct,          \* graph table: the punctuation item of a character
          Subs,           \* graph table: what replaces a character
          Files           \* files that exist

VARIABLES in, out, pc, inItems, search, put, forceOutput, nrIterations, inBuf, outBuf, status

-----------------------------------------------------------------------------
(* Contexts.                                                                *)

\* The list of productions of a context: an entry goes to the front.
ProdList(ctx) == Reverse([i \in DOMAIN SelectSeq(Contexts, LAMBDA c : c.ctx = ctx) |->
                             SelectSeq(Contexts, LAMBDA c : c.ctx = ctx)[i].prod])

SetContext(p, ctx) == IF \E i \in DOMAIN Contexts : Contexts[i].ctx = ctx
                      THEN [p EXCEPT !.ctx = ctx, !.ctxChanged = TRUE] ELSE p

NoSearch == [state |-> "START", path |-> <<>>, best |-> <<>>, cost |-> 0, prods |-> <<>>, cut |-> FALSE]
NothingPut == [items |-> <<>>, ignore |-> 0, insidePhoneme |-> FALSE, spellMode |-> 0,
               ctx |-> <<"DEFAULT">>, ctxChanged |-> FALSE, saveFile |-> <<>>, gone |-> {}, crashed |-> FALSE]

Blank == /\ pc = "LOOP" /\ inItems = <<>> /\ search = NoSearch /\ put = NothingPut
         /\ forceOutput = FALSE /\ nrIterations = 0 /\ inBuf = <<>> /\ outBuf = <<>> /\ status = "NONE"

Initialize == /\ pc' = "LOOP" /\ inItems' = <<>> /\ search' = NoSearch /\ put' = NothingPut
              /\ forceOutput' = FALSE /\ nrIterations' = 0 /\ inBuf' = <<>> /\ outBuf' = <<>> /\ status' = "NONE"

-----------------------------------------------------------------------------
(* The search: pr_processToken, one state of the last element at a time.    *)
Tokens == SelectSeq(inItems, IsToken)
Top(s) == s.path[Len(s.path)]
Element(tok, depth, pref) ==
    [tok |-> tok, item |-> 0, cmp |-> "NONE", depth |-> depth, pref |-> pref, ls |-> "Init"]
Push(s, tok, depth) == [s EXCEPT !.path = Append(@, Element(tok, depth, 0))]
To(s, ls) == [s EXCEPT !.path[Len(s.path)].ls = ls]
HasRoom(s) == Len(s.path) < MaxPathLen

\* pr_getTopLevelToken: the list ends at a production that has no token.
TopLevel(s, prods, else) ==
    IF prods # <<>> /\ Head(prods) \in DOMAIN Prods
    THEN [s EXCEPT !.state = "Continue", !.prods = prods,
                   !.path = Append(@, Element(Prods[Head(prods)].first, 1, Prods[Head(prods)].pref))]
    ELSE [s EXCEPT !.state = else, !.prods = prods]

FirstProduction(ctx) == TopLevel(NoSearch, ProdList(ctx), "NotFound")
NextProduction(s) == TopLevel(s, IF s.prods = <<>> THEN <<>> ELSE Tail(s.prods),
                              IF s.best = <<>> THEN "NotFound" ELSE "Found")

\* pr_calcPathCost: the preference of what the first element stands for, then
\* what each element costs; the initial 100000 is left out.
Cost(tok) == CASE Has(tok, "COST") -> Wp(tok).COST - 10
               [] ~ Has(tok, "COST") /\ HasToken(tok) -> -10
               [] OTHER -> 0
PathCost(path) == FoldLeft(LAMBDA sum, e : sum + Cost(e.tok), path[1].pref, path)

Accept(s) == LET cost == PathCost(s.path)
                 kept == IF s.best = <<>> \/ cost < s.cost THEN [s EXCEPT !.best = s.path, !.cost = cost] ELSE s
             IN  To(kept, "GetNextToken")

LSInit(s) == LET tok == Top(s).tok IN
    CASE "ACCEPT" \in Np(tok) /\ Top(s).depth = 1 -> Accept(s)
      [] "ACCEPT" \in Np(tok) /\ Top(s).depth # 1 -> To(s, "GetProdContToken")
      [] OTHER -> CASE Has(tok, "PROD") -> To(s, "GetProdToken")
                    [] ~ Has(tok, "PROD") /\ ~ Has(tok, "OUT") /\ HasToken(tok) -> To(s, "GetToken")
                    [] OTHER -> To(s, "GetNextToken")

\* The first production of that name begins with this token; 0 if there is none.
FindProduction(name) ==
    LET named == {p \in DOMAIN Prods : Prods[p].name = name}
    IN  IF named = {} THEN 0 ELSE Prods[Min(named)].first

\* pr_getProdToken: into the production the element stands for, or the one it
\* names, which is charged with the preference of the first all the same.
Entered(tok) == CASE Has(tok, "PRODEXT") -> FindProduction(Wp(tok).PRODEXT)
                  [] ~ Has(tok, "PRODEXT") /\ Wp(tok).PROD \in DOMAIN Prods -> Prods[Wp(tok).PROD].first
                  [] OTHER -> 0
Charged(tok) == IF Wp(tok).PROD \in DOMAIN Prods THEN Prods[Wp(tok).PROD].pref ELSE 0
GetProdToken(s) ==
    LET tok == Top(s).tok
        called == [To(s, "GetAltToken") EXCEPT !.path[Len(s.path)].pref = Charged(tok)]
    IN  IF HasRoom(s) /\ Entered(tok) # 0 THEN Push(called, Entered(tok), Top(s).depth + 1)
        ELSE To(s, "GetAltToken")

\* pr_getProdContToken: behind the element that led into this production.
GetProdContToken(s) ==
    LET callers == {i \in 1 .. Len(s.path) - 1 : s.path[i].depth = Top(s).depth - 1 /\ Has(s.path[i].tok, "PROD")}
        caller == s.path[IF callers = {} THEN 1 ELSE Max(callers)]
    IN  IF HasRoom(s) /\ Net[caller.tok].next # 0
        THEN Push(To(s, "GetAltToken"), Net[caller.tok].next, caller.depth)
        ELSE To(s, "GetAltToken")

\* pr_getToken: the item behind the last one that an element before matches.
ItemAt(s) == 1 + Max({0} \union {s.path[i].item : i \in 1 .. Len(s.path) - 1})
GetToken(s) ==
    LET got == [s EXCEPT !.path[Len(s.path)].item = IF ItemAt(s) =< Len(Tokens) THEN ItemAt(s) ELSE 0]
        have == ItemAt(s) =< Len(Tokens)
    IN  CASE have -> To(got, "Match")
          [] ~ have /\ Top(s).ls = "GetToken" ->
                IF forceOutput THEN To(got, "GetAltToken") ELSE [To(got, "GetToken2") EXCEPT !.state = "NeedToken"]
          [] OTHER -> [To(got, "GoBack") EXCEPT !.cut = TRUE]

Match(s) == LET item == Tokens[Top(s).item]
                compared == [s EXCEPT !.path[Len(s.path)].cmp = Comparison(Top(s).tok, item)]
            IN  To(compared, IF MatchTokens(Top(s).tok, item) THEN "GetNextToken" ELSE "GetAltToken")

GetNextToken(s) == IF HasRoom(s) /\ Net[Top(s).tok].next # 0
                   THEN Push(To(s, "GetAltToken"), Net[Top(s).tok].next, Top(s).depth)
                   ELSE To(s, "GetAltToken")

\* Mutant of GetAltToken: always to the right.
GetAltTokenRight(s) ==
    IF HasRoom(s) /\ Net[Top(s).tok].altR # 0
    THEN [s EXCEPT !.path[Len(s.path)] = Element(Net[Top(s).tok].altR, Top(s).depth, 0)] ELSE To(s, "GoBack")

GetAltToken(s) ==
    LET alt == IF Top(s).cmp = "SMALLER" THEN Net[Top(s).tok].altL ELSE Net[Top(s).tok].altR
    IN  IF HasRoom(s) /\ alt # 0 THEN [s EXCEPT !.path[Len(s.path)] = Element(alt, Top(s).depth, 0)]
        ELSE To(s, "GoBack")

SearchStep(s) ==
    CASE s.path = <<>> -> NextProduction(s)
      [] OTHER -> LET ls == Top(s).ls IN
            CASE ls = "Init" -> LSInit(s)
              [] ls = "GetProdToken" -> GetProdToken(s)
              [] ls = "GetProdContToken" -> GetProdContToken(s)
              [] ls = "GoBack" -> [s EXCEPT !.path = Front(@)]
              [] ls \in {"GetToken", "GetToken2"} -> GetToken(s)
              [] ls = "Match" -> Match(s)
              [] ls = "GetNextToken" -> GetNextToken(s)
              [] ls = "GetAltToken" -> GetAltToken(s)

-----------------------------------------------------------------------------
(* What is made of the items.                                               *)
IsCmd(x, kind, info) == x.type = "CMD" /\ x.kind = kind /\ x.info = info
IsKind(x, kind) == x.type = "CMD" /\ x.kind = kind
Add(p, x) == [p EXCEPT !.items = Append(@, x)]
Drop(p, x) == IF IsToken(x) THEN p ELSE [p EXCEPT !.gone = @ \union {x}]

\* Each letter of a token to be spelled becomes a token of its own, made by
\* pr_newItem without room for its copies in lower case (strci and strcis stay
\* NULL), and the first of them is copied there at once: the process ends.
ToBeSpelled(p, x) == p.spellMode # 0 /\ IsToken(x) /\ x.kind # "SPACE"
SpellFirstLetter(p) == [p EXCEPT !.crashed = TRUE]

\* pr_appendItemToOutItemList.
AppendToOut(p, x) ==
    CASE ToBeSpelled(p, x) -> IF x.str = <<>> THEN p ELSE SpellFirstLetter(p)
      [] IsCmd(x, "SPELL", "START") -> [p EXCEPT !.spellMode = x.val]
      [] IsCmd(x, "SPELL", "END") -> [p EXCEPT !.spellMode = 0]
      [] OTHER -> Add(p, x)

InPhoneme(p, x) == [p EXCEPT !.insidePhoneme = IF IsKind(x, "PHONEME") THEN x.info = "START" ELSE @]
NotInPhoneme(p, x) == p.insidePhoneme /\ (IsKind(x, "PLAY") \/ IsKind(x, "IGNSIG"))

\* pr_processItems: a command that no token stands before goes on at once.
Leading(p, x) ==
    LET q == InPhoneme(p, x) IN
    CASE NotInPhoneme(q, x) -> Drop(q, x)
      [] IsKind(x, "CONTEXT") -> SetContext(q, x.str)
      [] OTHER -> IF q.ignore =< 0 THEN AppendToOut(q, x) ELSE Drop(q, x)

\* pr_getOutput: along the best path from its element s.i, in a production at
\* depth d that has set vars; s.in are the items left, s.out what is made, s.at
\* the place of the last token.  Commands stay before the token they stood
\* before, and are lost with what a production without a variable makes.
RECURSIVE GetOutput(_, _, _, _)
GetOutput(path, s, d, variables) ==
    IF s.i > Len(path) THEN s ELSE
    LET e == path[s.i]
        before == SelectInSeq(s.in, IsToken)
        u == IF e.item = 0 THEN s
             ELSE [s EXCEPT !.out = @ \o SubSeq(s.in, 1, before - 1), !.in = SubSeq(@, before + 1, Len(@)),
                            !.at = s.in[before].n]
        Set(value) == [id \in {Wp(e.tok).VAR} |-> value] @@ variables
        nested == GetOutput(path, [u EXCEPT !.i = @ + 1, !.out = <<>>], d + 1, <<>>)
        behind == [nested EXCEPT !.i = @ + 1, !.out = u.out]
        made == ProduceAll([items |-> <<>>, save |-> u.save], Wp(e.tok).OUT, variables)
        Placed(x) == IF x.n = 0 \/ IsToken(x) THEN [x EXCEPT !.n = u.at] ELSE x
        next == [u EXCEPT !.i = @ + 1]
    IN  CASE Has(e.tok, "PROD") /\ Has(e.tok, "VAR") -> GetOutput(path, behind, d, Set(nested.out))
          [] Has(e.tok, "PROD") /\ ~ Has(e.tok, "VAR") ->
                GetOutput(path, [behind EXCEPT !.lost = @ \o nested.out], d, variables)
          [] ~ Has(e.tok, "PROD") /\ Has(e.tok, "VAR") ->
                GetOutput(path, next, d, Set(IF e.item = 0 THEN <<>> ELSE <<s.in[before]>>))
          [] OTHER ->
                CASE Has(e.tok, "OUT") ->
                        GetOutput(path, [next EXCEPT !.out = @ \o [i \in DOMAIN made.items |-> Placed(made.items[i])],
                                                     !.save = made.save], d, variables)
                  [] ~ Has(e.tok, "OUT") /\ s.i < Len(path) /\ path[s.i + 1].depth # d -> u
                  [] OTHER -> GetOutput(path, next, d, variables)

\* pr_outputPath: a file that is not there is not played, and what it stands
\* for is not ignored.
PutMade(p, found, x) ==
    CASE IsKind(x, "IGNORE") ->
            CASE ~ found -> p
              [] found /\ x.info = "START" -> [p EXCEPT !.ignore = @ + 1]
              [] OTHER -> [p EXCEPT !.ignore = IF @ > 0 THEN @ - 1 ELSE @]
      [] (IsKind(x, "PLAY") \/ IsKind(x, "IGNSIG")) /\ ~ found -> Drop(p, x)
      [] IsKind(x, "CONTEXT") -> IF p.ignore =< 0 THEN SetContext(p, x.str) ELSE p
      [] IsKind(x, "VOICE") -> IF p.ignore =< 0 THEN Add(p, x) ELSE Drop(p, x)
      [] OTHER -> IF p.ignore =< 0 /\ ~ NotInPhoneme(p, x) THEN AppendToOut(p, x) ELSE Drop(p, x)

OutputPath(p, path, items) ==
    LET got == GetOutput(path, [i |-> 1, in |-> items, out |-> <<>>, save |-> p.saveFile, lost |-> <<>>, at |-> 0],
                         1, <<>>)
        Found(found, x) == IF IsKind(x, "PLAY") THEN x.str \in Files ELSE found
        One(s, x) == [found |-> Found(s.found, x), put |-> PutMade(InPhoneme(s.put, x), Found(s.found, x), x)]
        begun == [FoldLeft(Drop, p, got.lost) EXCEPT !.saveFile = got.save]
    IN  [put |-> FoldLeft(One, [found |-> TRUE, put |-> begun], got.out).put, rest |-> got.in]

-----------------------------------------------------------------------------
(* prStep.                                                                  *)
Crashed == put.crashed
Running == status = "RUNNING" /\ ~ Crashed
At(where) == Running /\ pc = where

Call == /\ status # "RUNNING"
        /\ status' = "RUNNING" /\ nrIterations' = MaxIterations
        /\ UNCHANGED <<in, out, pc, inItems, search, put, forceOutput, inBuf, outBuf>>

\* Mutant of Deliver: a full buffer is not noticed.
DeliverUnchecked ==
    /\ At("LOOP") /\ outBuf # <<>>
    /\ out' = (IF Len(out) < Cap THEN Append(out, Head(outBuf)) ELSE out) /\ outBuf' = Tail(outBuf)
    /\ UNCHANGED <<in, pc, inItems, search, put, forceOutput, nrIterations, inBuf, status>>

Deliver == /\ At("LOOP") /\ outBuf # <<>> /\ Len(out) < Cap
           /\ out' = Append(out, Head(outBuf)) /\ outBuf' = Tail(outBuf)
           /\ UNCHANGED <<in, pc, inItems, search, put, forceOutput, nrIterations, inBuf, status>>

OutFull == /\ At("LOOP") /\ outBuf # <<>> /\ Len(out) >= Cap
           /\ status' = "OUT_FULL"
           /\ UNCHANGED <<in, out, pc, inItems, search, put, forceOutput, nrIterations, inBuf, outBuf>>

\* What an item to be put becomes: nothing for space, punctuation for a single
\* character of it, else words, split where space is inside; with a character
\* of space first the first of them is empty.
Space == {" ", "EOL"}
Words(x) ==
    LET Letter(c) == IF c \in DOMAIN Subs THEN Subs[c] ELSE <<c>>
        Read(s, c) ==
            CASE c \in Space -> [s EXCEPT !.split = TRUE]
              [] c \notin Space /\ s.split -> [words |-> Append(s.words, Letter(c)), split |-> FALSE]
              [] OTHER -> [s EXCEPT !.words[Len(s.words)] = @ \o Letter(c)]
        words == FoldLeft(Read, [words |-> <<<<>>>>, split |-> FALSE], x.str).words
    IN  CASE ~ IsToken(x) -> <<x>>
          [] IsToken(x) /\ (x.kind = "SPACE" \/ x.str = <<>>) -> <<>>
          [] OTHER ->
                IF Len(x.str) = 1 /\ x.str[1] \in DOMAIN Punct
                THEN <<[x EXCEPT !.type = "PUNC", !.kind = Punct[x.str[1]], !.info = "", !.str = <<>>]>>
                ELSE [i \in DOMAIN words |-> [x EXCEPT !.type = "WORDGRAPH", !.kind = "", !.info = "", !.str = words[i]]]

Convert == /\ At("LOOP") /\ outBuf = <<>> /\ put.items # <<>>
           /\ outBuf' = Words(Head(put.items)) /\ put' = [put EXCEPT !.items = Tail(@)]
           /\ UNCHANGED <<in, out, pc, inItems, search, forceOutput, nrIterations, inBuf, status>>

NothingToPut == outBuf = <<>> /\ put.items = <<>>

\* pr_processItems of the list items, up to where the search goes on or ends.
ProcessItems(items, s, p) ==
    LET first == SelectInSeq(items, IsToken)
        lead == SubSeq(items, 1, IF first = 0 THEN Len(items) ELSE first - 1)
        rest == SubSeq(items, Len(lead) + 1, Len(items))
        now == IF lead = <<>> THEN s.state ELSE "START"
    IN  /\ put' = FoldLeft(Leading, p, lead)
        /\ inItems' = rest
        /\ search' = CASE rest = <<>> -> [s EXCEPT !.state = now]
                       [] rest # <<>> /\ now = "START" -> FirstProduction(put'.ctx)
                       [] OTHER -> [s EXCEPT !.state = "Continue"]
        /\ pc' = IF rest # <<>> /\ now = "Continue" THEN "SEARCH" ELSE "CONCLUDE"

Process == /\ At("LOOP") /\ NothingToPut
           /\ forceOutput \/ (search.state # "NeedToken" /\ inItems # <<>>)
           /\ ProcessItems(inItems, search, put)
           /\ UNCHANGED <<in, out, forceOutput, nrIterations, inBuf, outBuf, status>>

NothingToDo == NothingToPut /\ ~ forceOutput /\ (search.state = "NeedToken" \/ inItems = <<>>)

\* Of a token the characters, without their places.
Char(str) == [i \in DOMAIN str |-> str[i].c]
ItemOf(x) == IF IsToken(x) THEN [x EXCEPT !.str = Char(x.str),
                                          !.val = IF x.kind = "DIGIT" THEN DigitStrToInt(Char(x.str)) ELSE 0]
             ELSE x
\* Mutant of TreatItem: only another context ends it.
TreatItemUnforced ==
    /\ At("LOOP") /\ NothingToDo /\ inBuf # <<>> /\ Len(inItems) < MaxInItems
    /\ LET x == ItemOf(inBuf[1]) IN
          /\ forceOutput' = IsKind(x, "CONTEXT")
          /\ ProcessItems(Append(inItems, x), IF put.ctxChanged THEN NoSearch ELSE search,
                          [put EXCEPT !.ctxChanged = FALSE])
    /\ inBuf' = <<>>
    /\ UNCHANGED <<in, out, nrIterations, outBuf, status>>

\* pr_treatItem: a flush, or another context, ends what the search waits for.
TreatItem ==
    /\ At("LOOP") /\ NothingToDo /\ inBuf # <<>> /\ Len(inItems) < MaxInItems
    /\ LET x == ItemOf(inBuf[1]) IN
          /\ forceOutput' = (IsKind(x, "CONTEXT") \/ IsKind(x, "FLUSH"))
          /\ ProcessItems(Append(inItems, x), IF put.ctxChanged THEN NoSearch ELSE search,
                          [put EXCEPT !.ctxChanged = FALSE])
    /\ inBuf' = <<>>
    /\ UNCHANGED <<in, out, nrIterations, outBuf, status>>

\* Out of room for another item: the search has to do with those it has.
Force == /\ At("LOOP") /\ NothingToDo /\ inBuf # <<>> /\ Len(inItems) >= MaxInItems
         /\ forceOutput' = TRUE
         /\ UNCHANGED <<in, out, pc, inItems, search, put, nrIterations, inBuf, outBuf, status>>

GetItem == /\ At("LOOP") /\ NothingToDo /\ inBuf = <<>> /\ in # <<>>
           /\ inBuf' = <<Head(in)>> /\ in' = Tail(in)
           /\ UNCHANGED <<out, pc, inItems, search, put, forceOutput, nrIterations, outBuf, status>>

Idle == /\ At("LOOP") /\ NothingToDo /\ inBuf = <<>> /\ in = <<>>
        /\ status' = "IDLE"
        /\ UNCHANGED <<in, out, pc, inItems, search, put, forceOutput, nrIterations, inBuf, outBuf>>

Search == /\ At("SEARCH")
          /\ search' = SearchStep([search EXCEPT !.state = "Continue"])
          /\ nrIterations' = nrIterations - 1
          /\ pc' = IF search'.state = "Continue" /\ nrIterations' > 0 THEN "SEARCH" ELSE "CONCLUDE"
          /\ UNCHANGED <<in, out, inItems, put, forceOutput, inBuf, outBuf, status>>

\* Mutant of Conclude: the tokens of a path that is put out stay.
ConcludeKeeps ==
    /\ At("CONCLUDE")
    /\ put' = IF search.state = "Found" THEN OutputPath(put, search.best, inItems).put ELSE put
    /\ inItems' = IF search.state \in {"Found", "NotFound"} THEN Tail(inItems) ELSE inItems
    /\ search' = IF search.state \in {"Found", "NotFound"} THEN NoSearch ELSE search
    /\ forceOutput' = (forceOutput /\ inItems' # <<>>)
    /\ pc' = "LOOP"
    /\ status' = IF nrIterations =< 0 THEN "BUSY" ELSE "RUNNING"
    /\ UNCHANGED <<in, out, nrIterations, inBuf, outBuf>>

\* The rest of pr_processItems: a token that begins no production is put as it
\* is.  What is forced ends with the list.
Conclude ==
    /\ At("CONCLUDE")
    /\ LET first == Head(inItems)
           done == OutputPath(put, search.best, inItems) IN
       CASE search.state = "Found" -> put' = done.put /\ inItems' = done.rest /\ search' = NoSearch
         [] search.state = "NotFound" ->
               /\ put' = IF put.ignore =< 0 THEN AppendToOut(put, first) ELSE Drop(put, first)
               /\ inItems' = Tail(inItems) /\ search' = NoSearch
         [] OTHER -> UNCHANGED <<put, inItems, search>>
    /\ forceOutput' = (forceOutput /\ inItems' # <<>>)
    /\ pc' = "LOOP"
    /\ status' = IF nrIterations =< 0 THEN "BUSY" ELSE "RUNNING"
    /\ UNCHANGED <<in, out, nrIterations, inBuf, outBuf>>

Pass == \/ Deliver \/ OutFull \/ Convert
        \/ Process \/ TreatItem \/ Force \/ GetItem \/ Idle
        \/ Search \/ Conclude

-----------------------------------------------------------------------------
TypeOK ==
    /\ pc \in {"LOOP", "SEARCH", "CONCLUDE"} /\ Len(out) =< Cap /\ Len(inBuf) =< 1
    /\ Len(inItems) =< MaxInItems
    /\ Len(search.path) =< MaxPathLen /\ nrIterations \in 0 .. MaxIterations
    /\ pc = "SEARCH" => search.state \in {"Continue", "NeedToken"} /\ Tokens # <<>>
    /\ search.path # <<>> \/ search.state # "NeedToken"
    /\ \A i \in DOMAIN search.path : search.path[i].item =< Len(Tokens)
    /\ put.ignore \in Nat
    /\ status \in {"NONE", "RUNNING", "IDLE", "BUSY", "OUT_FULL"}

\* Items to be put count as what they become.
Ready == Len(outBuf) + FoldLeft(LAMBDA sum, x : sum + Len(Words(x)), 0, put.items)
Protocol == INSTANCE UnitProtocol WITH
                in <- Len(in), out <- Len(out), held <- Len(inItems) + Len(inBuf), ready <- Ready,
                MaxHeld <- MaxInItems + 1, MaxReady <- 300
=============================================================================
