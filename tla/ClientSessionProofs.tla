------------------------ MODULE ClientSessionProofs ------------------------
(***************************************************************************)
(* Proofs about the session, for any users, blends, number of operations   *)
(* and depth of their nesting.                                             *)
(***************************************************************************)
EXTENDS ClientSession, SequenceTheorems, TLAPS

Ops == {"login", "create", "select", "refresh"}
Ats == {"open", "auth", "load", "blend", "build", "close", "save", "enrich", "again", "fetch",
        "set", "read", "pool"}

LEMMA OperationIs ==
  Operation = [op : Ops, at : Ats, who : Users \cup {None}, id : BlendIds \cup {None},
               people : SUBSET Users, dialog : BOOLEAN, from : {"none", "live", "freed"}]
<1>1. DOMAIN Steps = Ops
  BY DEF Steps, Ops
<1>2. /\ Steps["login"] = {"open", "auth", "load", "blend", "build", "close"}
      /\ Steps["create"] = {"open", "load", "build", "save", "enrich", "again", "close"}
      /\ Steps["select"] = {"open", "fetch", "load", "build", "set", "close"}
      /\ Steps["refresh"] = {"open", "read", "pool", "build", "set", "close"}
  BY DEF Steps
<1>3. UNION {Steps[o] : o \in Ops} = Ats
  <2>1. UNION {Steps[o] : o \in Ops}
          = Steps["login"] \cup Steps["create"] \cup Steps["select"] \cup Steps["refresh"]
    BY DEF Ops
  <2>. QED  BY <1>2, <2>1 DEF Ats
<1>. QED  BY <1>1, <1>3 DEF Operation
-----------------------------------------------------------------------------
(* The stack.                                                              *)

\* Two operations, or two states of one, that differ at most in what became of
\* the blend they started from.
Same(f, g) ==
  /\ f.op = g.op /\ f.at = g.at /\ f.who = g.who /\ f.id = g.id
  /\ f.people = g.people /\ f.dialog = g.dialog

\* The operations of s up to the n-th are those of the stack.
Agree(s, n) == \A i \in 1 .. n : Same(s[i], stack[i])

Kept == Len(stack') = Len(stack) /\ Agree(stack', Len(stack))

Moved(at, id, people) ==
  /\ stack # <<>> /\ Len(stack') = Len(stack) /\ Agree(stack', Len(stack) - 1)
  /\ LET f == stack'[Len(stack)]
     IN  /\ f.op = Top.op /\ f.at = at /\ f.who = Top.who /\ f.id = id
         /\ f.people = people /\ f.dialog = Top.dialog

Pushed(f) ==
  /\ Len(stack') = Len(stack) + 1 /\ Agree(stack', Len(stack))
  /\ Same(stack'[Len(stack) + 1], f)

Popped == stack # <<>> /\ Len(stack') = Len(stack) - 1 /\ Agree(stack', Len(stack) - 1)

Ended == IF Top.op = "select" /\ ~Top.dialog THEN Popped ELSE Moved("close", Top.id, Top.people)

StackType == stack \in Seq(Operation) /\ reporter \in Nat

LEMMA Tops ==
  ASSUME StackType
  PROVE  /\ Len(stack) \in Nat /\ DOMAIN stack = 1 .. Len(stack)
         /\ stack # <<>> <=> Len(stack) > 0
         /\ stack # <<>> => Top \in Operation
         /\ \A i \in DOMAIN stack : stack[i] \in Operation
  BY DEF StackType, Top

LEMMA Stales ==
  ASSUME NEW s \in Seq(Operation)
  PROVE  /\ Stale(s) \in Seq(Operation) /\ Len(Stale(s)) = Len(s)
         /\ \A i \in 1 .. Len(s) : Same(Stale(s)[i], s[i])
<1>1. /\ DOMAIN s = 1 .. Len(s) /\ Len(s) \in Nat
      /\ \A i \in 1 .. Len(s) : s[i] \in Operation
  OBVIOUS
<1>2. ASSUME NEW f \in Operation
      PROVE  [f EXCEPT !.from = "freed"] \in Operation /\ Same([f EXCEPT !.from = "freed"], f)
  BY <1>2, OperationIs DEF Same
<1>3. \A i \in 1 .. Len(s) : Stale(s)[i] \in Operation /\ Same(Stale(s)[i], s[i])
  BY <1>1, <1>2 DEF Stale, Same
<1>4. Stale(s) = [i \in 1 .. Len(s) |-> Stale(s)[i]]
  BY <1>1 DEF Stale
<1>5. Stale(s) \in [1 .. Len(s) -> Operation]
  BY <1>3, <1>4
<1>. QED  BY <1>1, <1>3, <1>5

LEMMA Appended ==
  ASSUME StackType, NEW f \in Operation,
         stack' = Append(stack, f) \/ stack' = Append(Stale(stack), f)
  PROVE  stack' \in Seq(Operation) /\ Pushed(f)
<1>1. stack \in Seq(Operation)
  BY DEF StackType
<1>2. CASE stack' = Append(stack, f)
  BY <1>1, <1>2 DEF Pushed, Agree, Same
<1>3. CASE stack' = Append(Stale(stack), f)
  <2>1. /\ Stale(stack) \in Seq(Operation) /\ Len(Stale(stack)) = Len(stack)
        /\ Agree(Stale(stack), Len(stack))
    BY <1>1, Stales DEF Agree
  <2>. QED  BY <1>1, <1>3, <2>1 DEF Pushed, Agree, Same
<1>. QED  BY <1>2, <1>3

LEMMA Kepts ==
  ASSUME StackType, stack' = stack \/ stack' = Stale(stack)
  PROVE  stack' \in Seq(Operation) /\ Kept
<1>1. stack \in Seq(Operation)
  BY DEF StackType
<1>2. CASE stack' = stack
  BY <1>1, <1>2 DEF Kept, Agree, Same
<1>3. CASE stack' = Stale(stack)
  BY <1>1, <1>3, Stales DEF Kept, Agree
<1>. QED  BY <1>2, <1>3

\* A new state of the top, with or without the blend freed.
LEMMA Puts ==
  ASSUME StackType, stack # <<>>, NEW f \in Operation, f.op = Top.op, f.who = Top.who,
         f.dialog = Top.dialog,
         \/ stack' = [stack EXCEPT ![Len(stack)] = f]
         \/ stack' = Stale([stack EXCEPT ![Len(stack)] = f])
  PROVE  stack' \in Seq(Operation) /\ Moved(f.at, f.id, f.people)
<1>. DEFINE s == [stack EXCEPT ![Len(stack)] = f]
<1>1. /\ s \in Seq(Operation) /\ Len(s) = Len(stack) /\ Len(stack) \in Nat /\ Len(stack) > 0
      /\ s[Len(stack)] = f /\ \A i \in 1 .. Len(stack) - 1 : s[i] = stack[i]
  BY DEF StackType
<1>. HIDE DEF s
<1>2. CASE stack' = s
  BY <1>1, <1>2 DEF Moved, Agree, Same
<1>3. CASE stack' = Stale(s)
  <2>1. /\ stack' \in Seq(Operation) /\ Len(stack') = Len(s)
        /\ \A i \in 1 .. Len(s) : Same(stack'[i], s[i])
    BY <1>1, <1>3, Stales
  <2>. QED  BY <1>1, <2>1 DEF Moved, Agree, Same
<1>. QED  BY <1>2, <1>3 DEF s

LEMMA Pops ==
  ASSUME StackType, stack # <<>>, stack' = Without(stack) \/ stack' = Stale(Without(stack))
  PROVE  stack' \in Seq(Operation) /\ Popped
<1>1. /\ Without(stack) \in Seq(Operation) /\ Len(Without(stack)) = Len(stack) - 1
      /\ \A i \in 1 .. Len(stack) - 1 : Without(stack)[i] = stack[i]
  <2>1. stack \in Seq(Operation) /\ Len(stack) \in Nat /\ Len(stack) > 0
    BY DEF StackType
  <2>2. \A i \in 1 .. Len(stack) - 1 : stack[i] \in Operation
    BY <2>1
  <2>3. /\ SubSeq(stack, 1, Len(stack) - 1) \in Seq(Operation)
        /\ Len(SubSeq(stack, 1, Len(stack) - 1))
             = IF 1 <= Len(stack) - 1 THEN Len(stack) - 1 - 1 + 1 ELSE 0
        /\ \A i \in 1 .. Len(stack) - 1 - 1 + 1 :
             SubSeq(stack, 1, Len(stack) - 1)[i] = stack[1 + i - 1]
    BY <2>1, <2>2, SubSeqProperties
  <2>4. \A i \in 1 .. Len(stack) - 1 : 1 + i - 1 = i
    BY <2>1
  <2>5. Len(stack) - 1 - 1 + 1 = Len(stack) - 1
    BY <2>1
  <2>. QED  BY <2>1, <2>3, <2>4, <2>5 DEF Without
<1>2. CASE stack' = Without(stack)
  BY <1>1, <1>2 DEF Popped, Agree, Same
<1>3. CASE stack' = Stale(Without(stack))
  BY <1>1, <1>3, Stales DEF Popped, Agree, Same
<1>. QED  BY <1>2, <1>3

\* The handler of the top ends.
LEMMA Ends ==
  ASSUME StackType, stack # <<>>, stack' = Returned \/ stack' = Stale(Returned)
  PROVE  stack' \in Seq(Operation) /\ Ended
<1>1. Top \in Operation
  BY Tops
<1>2. CASE Top.op = "select" /\ ~Top.dialog
  BY <1>2, Pops DEF Returned, Ended
<1>3. CASE ~(Top.op = "select" /\ ~Top.dialog)
  <2>. DEFINE f == [Top EXCEPT !.at = "close"]
  <2>1. /\ f \in Operation /\ f.op = Top.op /\ f.who = Top.who /\ f.dialog = Top.dialog
        /\ f.at = "close" /\ f.id = Top.id /\ f.people = Top.people
    BY <1>1, OperationIs DEF Ats
  <2>2. Returned = [stack EXCEPT ![Len(stack)] = f]
    BY <1>3 DEF Returned, Top
  <2>. HIDE DEF f
  <2>. QED  BY <1>3, <2>1, <2>2, Puts DEF Ended
<1>. QED  BY <1>2, <1>3
-----------------------------------------------------------------------------
(* What each step does to the stack and the reporter.                      *)

Shown == [id : BlendIds, people : SUBSET Users, whose : Users \cup {None}, freed : BOOLEAN]

StateType ==
  /\ running \in BOOLEAN /\ connected \in BOOLEAN
  /\ listeners \in [{"logout", "selectBlend"} -> {"controller", "chatPanel"}]
  /\ user \in {None} \cup [id : Users, data : BOOLEAN]
  /\ pending \in {None} \cup Account
  /\ owned \in {None} \cup Blend
  /\ active \in {None} \cup Shown
  /\ DOMAIN rooms \subseteq BlendIds /\ \A b \in DOMAIN rooms : rooms[b] \subseteq Users
  /\ lacking \in BOOLEAN
  /\ page \in Pages /\ added \subseteq Users /\ refreshing \in BOOLEAN
  /\ accounts \subseteq Users /\ uploaded \subseteq Users
  /\ members \in [BlendIds -> SUBSET Users]
  /\ clicks \in Nat /\ made \subseteq BlendIds
  /\ overlapped \in BOOLEAN /\ abandoned \in BOOLEAN /\ misread \in BOOLEAN

\* A login is somebody's, and what generates a blend anew knows which.
Named(f) ==
  /\ f.op = "login" => f.who \in Users
  /\ f.op = "select" => f.id \in BlendIds
  /\ f.op = "login" /\ f.at = "build" => f.id \in BlendIds
  /\ f.op = "refresh" /\ f.at \in {"pool", "build"} => f.id \in BlendIds
AllNamed == \A i \in DOMAIN stack : Named(stack[i])

Types == StackType /\ AllNamed /\ StateType

Started(o, s, u, b, people, dialog) ==
  [op |-> o, at |-> s, who |-> u, id |-> b, people |-> people, dialog |-> dialog, from |-> "none"]

Pushes(o, s, u, b, people, dialog) ==
  Pushed(Started(o, s, u, b, people, dialog)) /\ reporter' = reporter
Goes(at, id, people) == Moved(at, id, people) /\ reporter' = reporter
Returns == Ended /\ reporter' = ReporterLeft
Stays == Kept /\ reporter' = reporter
Leaves == Popped /\ Top.op # "refresh" /\ Top.at = "close" /\ reporter' = reporter

LEMMA UserType ==
  ASSUME StateType
  PROVE  /\ user # None => user.id \in Users /\ user.data \in BOOLEAN
         /\ IdOf(user) \in Users \cup {None}
  BY DEF StateType, IdOf

LEMMA PushType ==
  ASSUME NEW o \in Ops, NEW s \in Ats, NEW u \in Users \cup {None}, NEW b \in BlendIds \cup {None},
         NEW people \in SUBSET Users, NEW dialog \in BOOLEAN
  PROVE  Started(o, s, u, b, people, dialog) \in Operation
  BY OperationIs DEF Started

LEMMA PushSteps ==
  ASSUME Types
  PROVE  /\ \A u \in Users : SignIn(u) =>
              StackType' /\ Pushes("login", "open", u, None, {}, TRUE)
         /\ \A u \in Users : RegisterKnown(u) =>
              StackType' /\ Pushes("login", "auth", u, None, {}, FALSE)
         /\ Create => StackType' /\ Pushes("create", "open", IdOf(user), None, added, TRUE)
         /\ \A b \in BlendIds : Select(b) =>
              StackType' /\ Pushes("select", "open", user.id, b, {}, TRUE)
         /\ Refresh => StackType' /\ Pushes("refresh", "open", IdOf(user), None, {}, TRUE)
         /\ \A b \in BlendIds : Leave(b) =>
              StackType' /\ \/ Stays
                            \/ \E c \in FetchUserBlends(members') :
                                 Pushes("select", "fetch", user.id, c, {}, FALSE)
<1> USE DEF Types
<1>0. /\ IdOf(user) \in Users \cup {None} /\ added \in SUBSET Users
      /\ {} \in SUBSET Users /\ {TRUE, FALSE} \subseteq BOOLEAN
  BY UserType DEF StateType
<1>1. \A b, c \in BlendIds : b \in RebuildList \/ c \in FetchUserBlends(members') => user.id \in Users
  BY UserType DEF RebuildList, FetchUserBlends
<1>2. ASSUME NEW o \in Ops, NEW s \in Ats, NEW u \in Users \cup {None}, NEW b \in BlendIds \cup {None},
             NEW people \in SUBSET Users, NEW dialog \in BOOLEAN,
             Push(o, s, u, b, people, dialog), UNCHANGED reporter
      PROVE  StackType' /\ Pushes(o, s, u, b, people, dialog)
  <2>1. stack' = Append(stack, Started(o, s, u, b, people, dialog))
    BY <1>2 DEF Push, Started
  <2>. QED  BY <1>2, <2>1, PushType, Appended DEF StackType, Pushes
<1>3. ASSUME NEW u \in Users, SignIn(u)
      PROVE  StackType' /\ Pushes("login", "open", u, None, {}, TRUE)
  BY <1>0, <1>2, <1>3 DEF SignIn, Ops, Ats
<1>4. ASSUME NEW u \in Users, RegisterKnown(u)
      PROVE  StackType' /\ Pushes("login", "auth", u, None, {}, FALSE)
  BY <1>0, <1>2, <1>4 DEF RegisterKnown, Ops, Ats
<1>5. ASSUME Create PROVE StackType' /\ Pushes("create", "open", IdOf(user), None, added, TRUE)
  BY <1>0, <1>2, <1>5 DEF Create, Ops, Ats
<1>6. ASSUME NEW b \in BlendIds, Select(b)
      PROVE  StackType' /\ Pushes("select", "open", user.id, b, {}, TRUE)
  BY <1>0, <1>1, <1>2, <1>6 DEF Select, Ops, Ats
<1>7. ASSUME Refresh PROVE StackType' /\ Pushes("refresh", "open", IdOf(user), None, {}, TRUE)
  BY <1>0, <1>2, <1>7 DEF Refresh, Ops, Ats
<1>8. ASSUME NEW b \in BlendIds, Leave(b)
      PROVE  StackType' /\ \/ Stays
                           \/ \E c \in FetchUserBlends(members') :
                                Pushes("select", "fetch", user.id, c, {}, FALSE)
  <2>1. reporter' = reporter /\ reporter \in Nat
    BY <1>8 DEF Leave, StackType
  <2>2. CASE stack' = stack \/ stack' = Stale(stack)
    BY <2>1, <2>2, Kepts DEF Stays, StackType
  <2>3. CASE \E c \in FetchUserBlends(members') :
               stack' = Append(Stale(stack), Started("select", "fetch", user.id, c, {}, FALSE))
    <3>1. PICK c \in FetchUserBlends(members') :
               stack' = Append(Stale(stack), Started("select", "fetch", user.id, c, {}, FALSE))
      BY <2>3
    <3>2. c \in BlendIds /\ user.id \in Users
      BY <1>1 DEF FetchUserBlends
    <3>3. Started("select", "fetch", user.id, c, {}, FALSE) \in Operation
      BY <1>0, <3>2, PushType DEF Ops, Ats
    <3>. QED  BY <2>1, <3>1, <3>3, Appended DEF Pushes, StackType
  <2>. QED  BY <1>8, <2>2, <2>3 DEF Leave, HandleLeaveBlend, Started
<1>. QED  BY <1>3, <1>4, <1>5, <1>6, <1>7, <1>8

LEMMA KeepSteps ==
  ASSUME Types
  PROVE  /\ Start => StackType' /\ Stays
         /\ \A u \in Users : RegisterNew(u) \/ AddUser(u) \/ RemoveUser(u) => StackType' /\ Stays
         /\ RegisterRefused \/ LogOut \/ DeleteAccount \/ DeleteUnanswered \/ UploadFails
              => StackType' /\ Stays
         /\ \A data \in BOOLEAN : Upload(data) => StackType' /\ Stays
         /\ Navigate \/ PollTimer => StackType' /\ Stays
<1>1. ASSUME stack' = stack \/ stack' = Stale(stack), reporter' = reporter
      PROVE  StackType' /\ Stays
  BY <1>1, Kepts DEF Types, StackType, Stays
<1>2. ASSUME NEW data \in BOOLEAN, Upload(data) PROVE StackType' /\ Stays
  BY <1>1, <1>2 DEF Upload
<1>. QED
  BY <1>1, <1>2 DEF Start, RegisterNew, AddUser, RemoveUser, RegisterRefused, LogOut,
     DeleteAccount, DeleteUnanswered, UploadFails, Navigate, PollTimer, ui

LEMMA ForgetSteps ==
  ASSUME Exit \/ UploadThenThrow \/ CreateUnanswered \/ Throws \/ NullBlend \/ Fault
  PROVE  Forget /\ stack' = <<>> /\ reporter' = 0 /\ StackType'
<1>1. Forget
  BY DEF Exit, UploadThenThrow, CreateUnanswered, Throws, NullBlend, Fault, Die
<1>2. stack' = <<>> /\ reporter' = 0
  BY <1>1 DEF Forget
<1>3. StackType'
  BY <1>2 DEF StackType
<1>. QED  BY <1>1, <1>2, <1>3

\* A step of the top.
LEMMA Puttings ==
  ASSUME Types, stack # <<>>, NEW at \in Ats, NEW id \in BlendIds \cup {None},
         NEW people \in SUBSET Users,
         LET f == [Top EXCEPT !.at = at, !.id = id, !.people = people]
         IN  stack' = [stack EXCEPT ![Len(stack)] = f]
             \/ stack' = Stale([stack EXCEPT ![Len(stack)] = f]),
         reporter' \in Nat
  PROVE  StackType' /\ Moved(at, id, people)
<1>. DEFINE f == [Top EXCEPT !.at = at, !.id = id, !.people = people]
<1>1. Top \in Operation
  BY Tops DEF Types
<1>2. /\ f \in Operation /\ f.op = Top.op /\ f.who = Top.who /\ f.dialog = Top.dialog
      /\ f.at = at /\ f.id = id /\ f.people = people
  BY <1>1, OperationIs
<1>. HIDE DEF f
<1>. QED  BY <1>2, Puts DEF Types, StackType, f

\* One that only moves on.
LEMMA Gotos ==
  ASSUME Types, stack # <<>>, NEW at \in Ats, Goto(at), reporter' \in Nat
  PROVE  StackType' /\ Moved(at, Top.id, Top.people)
<1>1. Top \in Operation
  BY Tops DEF Types
<1>2. /\ [Top EXCEPT !.at = at] = [Top EXCEPT !.at = at, !.id = Top.id, !.people = Top.people]
      /\ Top.id \in BlendIds \cup {None} /\ Top.people \in SUBSET Users
  BY <1>1, OperationIs
<1>. QED  BY <1>2, Puttings DEF Goto, Put

LEMMA Returnings ==
  ASSUME Types, stack # <<>>, stack' = Returned \/ stack' = Stale(Returned),
         reporter' = ReporterLeft
  PROVE  StackType' /\ Returns
  BY Ends DEF Types, StackType, Returns, ReporterLeft

LEMMA LoginSteps ==
  ASSUME Types
  PROVE  /\ LoginAuth => StackType' /\ (Goes("load", Top.id, Top.people) \/ Returns)
         /\ LoginLoad => StackType' /\ (Goes("blend", Top.id, Top.people) \/ Returns)
         /\ LoginBlend =>
              StackType' /\ \/ \E b \in ParseBlendID(Top.who, members), people \in SUBSET Users :
                                 Goes("build", b, people)
                            \/ Returns
         /\ LoginBuild => StackType' /\ Returns
         /\ LoginClose => StackType' /\ Leaves
<1>0. StackType /\ reporter \in Nat
  BY DEF Types, StackType
<1>1. ASSUME LoginAuth PROVE StackType' /\ (Goes("load", Top.id, Top.people) \/ Returns)
  BY <1>0, <1>1, Gotos, Returnings DEF LoginAuth, At, Return, Goes, Ats
<1>2. ASSUME LoginLoad PROVE StackType' /\ (Goes("blend", Top.id, Top.people) \/ Returns)
  BY <1>0, <1>2, Gotos, Returnings DEF LoginLoad, At, Return, Goes, Ats
<1>3. ASSUME LoginBlend
      PROVE  StackType' /\ \/ \E b \in ParseBlendID(Top.who, members), people \in SUBSET Users :
                                Goes("build", b, people)
                           \/ Returns
  <2>1. CASE Return
    BY <1>3, <2>1, Returnings DEF LoginBlend, At, Return
  <2>2. ASSUME NEW b \in ParseBlendID(Top.who, members), NEW people \in SUBSET Users,
               Put([Top EXCEPT !.at = "build", !.id = b, !.people = people]), reporter' = reporter
        PROVE  StackType' /\ Goes("build", b, people)
    <3>1. b \in BlendIds /\ "build" \in Ats /\ stack # <<>>
      BY <1>3 DEF ParseBlendID, Ats, LoginBlend, At
    <3>. QED  BY <1>0, <2>2, <3>1, Puttings DEF Put, Goes
  <2>3. \A b : ParseParticipantIDs(b) \cap uploaded \subseteq Users
    BY DEF Types, StateType
  <2>. QED  BY <1>3, <2>1, <2>2, <2>3 DEF LoginBlend
<1>4. ASSUME LoginBuild PROVE StackType' /\ Returns
  BY <1>0, <1>4, Returnings DEF LoginBuild, At
<1>5. ASSUME LoginClose PROVE StackType' /\ Leaves
  BY <1>0, <1>5, Pops DEF LoginClose, At, Leaves, StackType
<1>. QED  BY <1>1, <1>2, <1>3, <1>4, <1>5

LEMMA CreateSteps ==
  ASSUME Types
  PROVE  /\ CreateLoad => StackType' /\ (Goes("build", Top.id, Top.people) \/ Returns)
         /\ CreateBuild =>
              StackType' /\ \/ \E valid \in SUBSET Top.people : Goes("save", Top.id, valid)
                            \/ Returns
         /\ CreateSave => StackType' /\ (Goes("enrich", Top.id, Top.people) \/ Returns)
         /\ CreateEnrich => StackType' /\ Goes("again", Top.id, Top.people)
         /\ CreateAgain => StackType' /\ Returns
         /\ CreateClose => StackType' /\ Leaves
<1>0. StackType /\ reporter \in Nat
  BY DEF Types, StackType
<1>1. ASSUME CreateLoad PROVE StackType' /\ (Goes("build", Top.id, Top.people) \/ Returns)
  BY <1>0, <1>1, Gotos, Returnings DEF CreateLoad, At, Return, Goes, Ats
<1>2. ASSUME CreateBuild
      PROVE  StackType' /\ \/ \E valid \in SUBSET Top.people : Goes("save", Top.id, valid)
                           \/ Returns
  <2>0. stack # <<>>
    BY <1>2 DEF CreateBuild, At
  <2>1. CASE stack' = Stale(Returned) /\ reporter' = ReporterLeft
    BY <2>0, <2>1, Returnings
  <2>2. ASSUME NEW valid \in SUBSET Top.people, reporter' = reporter,
               stack' = Stale([stack EXCEPT ![Len(stack)].at = "save", ![Len(stack)].people = valid])
        PROVE  StackType' /\ Goes("save", Top.id, valid)
    <3>1. Top \in Operation /\ stack \in Seq(Operation) /\ Len(stack) \in DOMAIN stack
      BY <1>0, <2>0, Tops DEF StackType
    <3>2. valid \in SUBSET Users /\ "save" \in Ats /\ Top.id \in BlendIds \cup {None}
      BY <3>1, OperationIs DEF Ats
    <3>3. [Top EXCEPT !.at = "save", !.people = valid]
            = [Top EXCEPT !.at = "save", !.id = Top.id, !.people = valid]
      BY <3>1, OperationIs
    <3>4. [stack EXCEPT ![Len(stack)].at = "save", ![Len(stack)].people = valid]
            = [stack EXCEPT ![Len(stack)] = [Top EXCEPT !.at = "save", !.people = valid]]
      BY <3>1 DEF Top
    <3>. QED  BY <1>0, <2>0, <2>2, <3>2, <3>3, <3>4, Puttings DEF Goes
  <2>. QED  BY <1>2, <2>1, <2>2 DEF CreateBuild
<1>3. ASSUME CreateSave PROVE StackType' /\ (Goes("enrich", Top.id, Top.people) \/ Returns)
  BY <1>0, <1>3, Gotos, Returnings DEF CreateSave, At, Return, Goes, Ats
<1>4. ASSUME CreateEnrich PROVE StackType' /\ Goes("again", Top.id, Top.people)
  BY <1>0, <1>4, Gotos DEF CreateEnrich, At, Goes, Ats
<1>5. ASSUME CreateAgain PROVE StackType' /\ Returns
  BY <1>0, <1>5, Returnings DEF CreateAgain, At, Return
<1>6. ASSUME CreateClose PROVE StackType' /\ Leaves
  BY <1>0, <1>6, Pops DEF CreateClose, At, Leaves, StackType
<1>. QED  BY <1>1, <1>2, <1>3, <1>4, <1>5, <1>6

LEMMA SelectSteps ==
  ASSUME Types
  PROVE  /\ SelectFetch =>
              StackType' /\ \/ \E people \in SUBSET Users : Goes("load", Top.id, people)
                            \/ Returns
         /\ SelectLoad =>
              StackType' /\ \/ \E people \in SUBSET Users : Goes("build", Top.id, people)
                            \/ Returns
         /\ \A o \in {"select", "refresh"} : Rebuild(o) =>
              StackType' /\ Goes("set", Top.id, Top.people)
         /\ SelectSet => StackType' /\ Returns
         /\ SelectClose => StackType' /\ Leaves
<1>0. StackType /\ reporter \in Nat
  BY DEF Types, StackType
<1>1. ASSUME NEW at \in Ats, NEW people \in SUBSET Users, stack # <<>>, reporter' = reporter,
             Put([Top EXCEPT !.at = at, !.people = people])
      PROVE  StackType' /\ Goes(at, Top.id, people)
  <2>1. Top \in Operation
    BY <1>0, <1>1, Tops
  <2>2. /\ [Top EXCEPT !.at = at, !.people = people]
             = [Top EXCEPT !.at = at, !.id = Top.id, !.people = people]
        /\ Top.id \in BlendIds \cup {None}
    BY <2>1, OperationIs
  <2>. QED  BY <1>0, <1>1, <2>2, Puttings DEF Put, Goes
<1>2. ASSUME SelectFetch
      PROVE  StackType' /\ \/ \E people \in SUBSET Users : Goes("load", Top.id, people)
                           \/ Returns
  <2>1. CASE Return
    BY <1>2, <2>1, Returnings DEF SelectFetch, At, Return
  <2>2. CASE Put([Top EXCEPT !.at = "load", !.people = ParseParticipantIDs(Top.id)])
             /\ UNCHANGED reporter
    <3>1. stack # <<>> /\ Top.op = "select"
      BY <1>2 DEF SelectFetch, At
    <3>2. Top.id \in BlendIds
      BY <1>0, <3>1, Tops DEF Types, AllNamed, Named, Top
    <3>3. ParseParticipantIDs(Top.id) \in SUBSET Users /\ "load" \in Ats
      BY <3>2 DEF ParseParticipantIDs, Types, StateType, Ats
    <3>. QED  BY <1>1, <2>2, <3>1, <3>3
  <2>. QED  BY <1>2, <2>1, <2>2 DEF SelectFetch
<1>3. ASSUME SelectLoad
      PROVE  StackType' /\ \/ \E people \in SUBSET Users : Goes("build", Top.id, people)
                           \/ Returns
  <2>1. stack # <<>> /\ uploaded \subseteq Users
    BY <1>3 DEF SelectLoad, At, Types, StateType
  <2>2. PICK have \in SUBSET (Top.people \cap uploaded) :
           IF have = {} THEN Return
           ELSE Put([Top EXCEPT !.at = "build", !.people = have]) /\ UNCHANGED reporter
    BY <1>3 DEF SelectLoad
  <2>3. have \in SUBSET Users /\ "build" \in Ats
    BY <2>1 DEF Ats
  <2>. QED  BY <1>1, <2>1, <2>2, <2>3, Returnings DEF Return
<1>4. ASSUME NEW o \in {"select", "refresh"}, Rebuild(o)
      PROVE  StackType' /\ Goes("set", Top.id, Top.people)
  <2>1. /\ stack # <<>> /\ reporter' = reporter
        /\ stack' = Stale([stack EXCEPT ![Len(stack)].at = "set"])
    BY <1>4 DEF Rebuild, At
  <2>2. Top \in Operation /\ stack \in Seq(Operation) /\ Len(stack) \in DOMAIN stack
    BY <1>0, <2>1, Tops DEF StackType
  <2>3. /\ [Top EXCEPT !.at = "set"]
             = [Top EXCEPT !.at = "set", !.id = Top.id, !.people = Top.people]
        /\ Top.id \in BlendIds \cup {None} /\ Top.people \in SUBSET Users /\ "set" \in Ats
    BY <2>2, OperationIs DEF Ats
  <2>4. [stack EXCEPT ![Len(stack)].at = "set"]
          = [stack EXCEPT ![Len(stack)] = [Top EXCEPT !.at = "set"]]
    BY <2>2 DEF Top
  <2>5. stack' = Stale([stack EXCEPT ![Len(stack)] =
                    [Top EXCEPT !.at = "set", !.id = Top.id, !.people = Top.people]])
    BY <2>1, <2>3, <2>4
  <2>6. StackType' /\ Moved("set", Top.id, Top.people)
    BY <1>0, <2>1, <2>3, <2>5, Puttings
  <2>. QED  BY <2>1, <2>6 DEF Goes
<1>5. ASSUME SelectSet PROVE StackType' /\ Returns
  BY <1>0, <1>5, Returnings DEF SelectSet, At, Return
<1>6. ASSUME SelectClose PROVE StackType' /\ Leaves
  BY <1>0, <1>6, Pops DEF SelectClose, At, Leaves, StackType
<1>. QED  BY <1>2, <1>3, <1>4, <1>5, <1>6

LEMMA RefreshSteps ==
  ASSUME Types
  PROVE  /\ RefreshRead =>
              StackType' /\ \/ active # None /\ Goes("pool", active.id, active.people)
                            \/ Returns
         /\ RefreshPool =>
              StackType' /\ \/ \E people \in SUBSET Users : Goes("build", Top.id, people)
                            \/ Returns
         /\ RefreshSet => StackType' /\ Returns
         /\ RefreshClose => StackType' /\ Popped /\ Top.at = "close" /\ reporter' = 0
<1>0. StackType /\ reporter \in Nat
  BY DEF Types, StackType
<1>1. ASSUME RefreshRead
      PROVE  StackType' /\ \/ active # None /\ Goes("pool", active.id, active.people)
                           \/ Returns
  <2>1. CASE Return
    BY <1>1, <2>1, Returnings DEF RefreshRead, At, Return
  <2>2. CASE active # None /\ Put(Existing) /\ UNCHANGED reporter
    <3>1. /\ stack # <<>> /\ Top \in Operation
          /\ active.id \in BlendIds /\ active.people \in SUBSET Users
      BY <1>0, <1>1, <2>2, Tops DEF RefreshRead, At, Types, StateType, Shown
    <3>2. /\ Existing \in Operation /\ Existing.op = Top.op /\ Existing.who = Top.who
          /\ Existing.dialog = Top.dialog /\ Existing.at = "pool" /\ Existing.id = active.id
          /\ Existing.people = active.people
      BY <3>1, OperationIs DEF Existing, Ats
    <3>. QED  BY <1>0, <2>2, <3>1, <3>2, Puts DEF Put, Goes, StackType
  <2>. QED  BY <1>1, <2>1, <2>2 DEF RefreshRead
<1>2. ASSUME RefreshPool
      PROVE  StackType' /\ \/ \E people \in SUBSET Users : Goes("build", Top.id, people)
                           \/ Returns
  <2>1. stack # <<>> /\ uploaded \subseteq Users /\ Top \in Operation
    BY <1>0, <1>2, Tops DEF RefreshPool, At, Types, StateType
  <2>2. PICK have \in SUBSET (Top.people \cap uploaded) :
           IF have = {} THEN Return /\ UNCHANGED misread
           ELSE /\ Put([Top EXCEPT !.at = "build", !.people = have])
                /\ misread' = (misread \/ Top.from = "freed")
                /\ UNCHANGED reporter
    BY <1>2 DEF RefreshPool
  <2>3. have \in SUBSET Users /\ "build" \in Ats
    BY <2>1 DEF Ats
  <2>4. /\ [Top EXCEPT !.at = "build", !.people = have]
             = [Top EXCEPT !.at = "build", !.id = Top.id, !.people = have]
        /\ Top.id \in BlendIds \cup {None}
    BY <2>1, OperationIs
  <2>5. CASE have = {}
    BY <2>1, <2>2, <2>5, Returnings DEF Return
  <2>6. CASE have # {}
    BY <1>0, <2>1, <2>2, <2>3, <2>4, <2>6, Puttings DEF Put, Goes
  <2>. QED  BY <2>5, <2>6
<1>3. ASSUME RefreshSet PROVE StackType' /\ Returns
  BY <1>0, <1>3, Returnings DEF RefreshSet, At, Return
<1>4. ASSUME RefreshClose
      PROVE  StackType' /\ Popped /\ Top.at = "close" /\ reporter' = 0
  BY <1>0, <1>4, Pops DEF RefreshClose, At, StackType
<1>. QED  BY <1>1, <1>2, <1>3, <1>4

LEMMA DispatchSteps ==
  ASSUME Types, NEW o \in Ops, NEW at \in Ats, Dispatch(o, at)
  PROVE  /\ StackType' /\ Moved(at, Top.id, Top.people)
         /\ Top.at = "open" /\ Top.op = o /\ reporter' = Len(stack)
<1>1. reporter' = Len(stack) /\ Len(stack) \in Nat /\ stack # <<>> /\ Top.at = "open" /\ Top.op = o
  BY Tops DEF Types, Dispatch, At
<1>. QED  BY <1>1, Gotos DEF Dispatch
-----------------------------------------------------------------------------
(* Types.                                                                  *)

LEMMA TypesInit == Init => Types
<1>. SUFFICES ASSUME Init PROVE Types
  OBVIOUS
<1>1. StackType
  BY DEF Init, Memory, StackType
<1>2. members \in [BlendIds -> SUBSET Users] /\ accounts \subseteq Users
  BY DEF Init
<1>3. listeners \in [{"logout", "selectBlend"} -> {"controller", "chatPanel"}]
  BY DEF Init, Memory, ChatPanelListens, RegisterListener, RegisterEvents
<1>4. StateType
  BY <1>2, <1>3 DEF Init, Memory, StateType, Pages
<1>. QED  BY <1>1, <1>4 DEF Types, AllNamed, Init, Memory

LEMMA BlendTypes ==
  ASSUME StateType
  PROVE  /\ \A b \in {None} \cup Blend : Live(b) \in {None} \cup Shown
         /\ \A b \in Blend : Live(b) \in Shown /\ Live(b) # None /\ b # None
         /\ Freed(active) \in {None} \cup Shown
         /\ \A b \in BlendIds, people \in SUBSET Users, u \in Users \cup {None} :
              [id |-> b, people |-> people, whose |-> u] \in Blend
<1>1. \A b \in Blend : b # None /\ b.id \in BlendIds /\ b.people \in SUBSET Users
                       /\ b.whose \in Users \cup {None}
  BY NullType DEF Blend
<1>2. \A b \in Blend : Live(b) \in Shown
  BY <1>1 DEF Live, Shown
<1>3. None \notin Shown
  BY NullType DEF Shown
<1>4. Freed(active) \in {None} \cup Shown
  BY DEF StateType, Freed, Shown
<1>. QED  BY <1>1, <1>2, <1>3, <1>4 DEF Live, Blend

LEMMA RoomTypes ==
  ASSUME StateType, NEW b \in Blend
  PROVE  DOMAIN WithRoom(b) \subseteq BlendIds /\ \A i \in DOMAIN WithRoom(b) : WithRoom(b)[i] \subseteq Users
  BY DEF StateType, WithRoom, Blend

LEMMA ShowTypes ==
  ASSUME StateType, NEW b \in Blend, Show(b)
  PROVE  /\ owned' \in {None} \cup Blend /\ active' \in {None} \cup Shown
         /\ DOMAIN rooms' \subseteq BlendIds /\ \A i \in DOMAIN rooms' : rooms'[i] \subseteq Users
         /\ abandoned' \in BOOLEAN
  BY BlendTypes, RoomTypes DEF Show

LEMMA PageTypes ==
  ASSUME StateType, NEW p \in Pages, NEW u \in {None} \cup [id : Users, data : BOOLEAN],
         NavigateTo(p, u)
  PROVE  page' \in Pages /\ added' \subseteq Users /\ misread' \in BOOLEAN
<1>1. Reload(u) \subseteq Users
  BY DEF Reload, IdOf
<1>. QED  BY <1>1 DEF StateType, NavigateTo, ReadsActive

LEMMA ForgetTypes ==
  ASSUME StateType, Forget, UNCHANGED clicks \/ clicks' = clicks + 1,
         accounts' \subseteq Users, uploaded' \subseteq Users, members' \in [BlendIds -> SUBSET Users]
  PROVE  StateType'
<1>1. /\ DOMAIN rooms' = {} /\ page' \in Pages
      /\ user' = None /\ pending' = None /\ owned' = None /\ active' = None
      /\ added' = {} /\ running' = FALSE /\ connected' = FALSE /\ lacking' = FALSE
      /\ refreshing' = FALSE /\ abandoned' = FALSE /\ misread' = FALSE
      /\ UNCHANGED <<listeners, made, overlapped>>
  BY DEF Forget, Pages
<1>2. clicks' \in Nat
  BY DEF StateType
<1>. QED  BY <1>1, <1>2 DEF StateType

LEMMA GoneTypes ==
  ASSUME StateType, NEW gone, ServerForgets(gone)
  PROVE  accounts' \subseteq Users /\ uploaded' \subseteq Users /\ members' \in [BlendIds -> SUBSET Users]
  BY DEF StateType, ServerForgets

LEMMA ClickTypes ==
  ASSUME StateType, Click
  PROVE  /\ clicks' \in Nat /\ overlapped' \in BOOLEAN /\ made' \subseteq BlendIds
         /\ running' \in BOOLEAN /\ connected' \in BOOLEAN
         /\ listeners' \in [{"logout", "selectBlend"} -> {"controller", "chatPanel"}]
  BY DEF StateType, Click, process

LEMMA UserTypes ==
  ASSUME StateType, NEW u \in [id : Users, data : BOOLEAN], SetCurrentUser(u)
  PROVE  /\ user' \in {None} \cup [id : Users, data : BOOLEAN] /\ active' \in {None} \cup Shown
         /\ DOMAIN rooms' \subseteq BlendIds /\ \A i \in DOMAIN rooms' : rooms'[i] \subseteq Users
  BY DEF StateType, SetCurrentUser

LEMMA AfterLoginTypes ==
  ASSUME StateType, NEW u \in {None} \cup [id : Users, data : BOOLEAN], NEW a, ProceedAfterLogin(u, a)
  PROVE  page' \in Pages /\ added' \subseteq Users /\ misread' \in BOOLEAN
<1>1. CASE u = None
  BY <1>1 DEF ProceedAfterLogin, StateType
<1>2. CASE u # None
  BY <1>2, PageTypes DEF ProceedAfterLogin, Pages
<1>. QED  BY <1>1, <1>2

LEMMA TopTypes ==
  ASSUME Types, stack # <<>>
  PROVE  /\ Top.op \in Ops /\ Top.at \in Ats /\ Top.who \in Users \cup {None}
         /\ Top.id \in BlendIds \cup {None} /\ Top.people \in SUBSET Users /\ Top.dialog \in BOOLEAN
         /\ Named(Top)
<1>1. Top \in Operation /\ Len(stack) \in DOMAIN stack
  BY Tops DEF Types
<1>2. Named(Top)
  BY <1>1 DEF Types, AllNamed, Top
<1>. QED  BY <1>1, <1>2, OperationIs

LEMMA StateStep ==
  ASSUME Types, [Next]_vars
  PROVE  StateType'
<1>0. StateType
  BY DEF Types
<1> USE <1>0 DEF process, app, ui, server, history
<1>1. CASE Start
  BY <1>1 DEF Start, StateType
<1>2. CASE Exit
  BY <1>2, ForgetTypes, GoneTypes DEF Exit
<1>3. ASSUME NEW u \in Users, SignIn(u) PROVE StateType'
  BY <1>3, ClickTypes DEF SignIn, StateType
<1>4. ASSUME NEW u \in Users, RegisterNew(u) PROVE StateType'
  <2>1. [id |-> u, data |-> FALSE] \in [id : Users, data : BOOLEAN]
    OBVIOUS
  <2>2. /\ user' \in {None} \cup [id : Users, data : BOOLEAN] /\ active' \in {None} \cup Shown
        /\ DOMAIN rooms' \subseteq BlendIds /\ \A i \in DOMAIN rooms' : rooms'[i] \subseteq Users
    BY <1>4, <2>1, UserTypes DEF RegisterNew
  <2>3. page' \in Pages /\ added' \subseteq Users /\ misread' \in BOOLEAN
    BY <1>4, <2>2, AfterLoginTypes DEF RegisterNew
  <2>4. pending' \in Account /\ accounts' \subseteq Users
    BY <1>4 DEF RegisterNew, Account, StateType
  <2>. QED  BY <1>4, <2>2, <2>3, <2>4, ClickTypes DEF RegisterNew, StateType
<1>5. ASSUME NEW u \in Users, RegisterKnown(u) PROVE StateType'
  BY <1>5, ClickTypes DEF RegisterKnown, StateType
<1>6. ASSUME NEW u \in Users, AddUser(u) \/ RemoveUser(u) PROVE StateType'
  BY <1>6 DEF AddUser, RemoveUser, StateType
<1>7. CASE RegisterRefused
  <2>1. page' \in Pages /\ added' \subseteq Users /\ misread' \in BOOLEAN
    BY <1>7, AfterLoginTypes DEF RegisterRefused, StateType
  <2>2. accounts' \subseteq Users
    BY <1>7 DEF RegisterRefused, StateType
  <2>. QED  BY <1>7, <2>1, <2>2, ClickTypes DEF RegisterRefused, StateType
<1>8. ASSUME NEW o, NEW s, Dispatch(o, s) PROVE StateType'
  BY <1>8 DEF Dispatch, StateType
<1>9. CASE LoginAuth \/ LoginBlend
  BY <1>9 DEF LoginAuth, LoginBlend, StateType
<1>10. CASE LoginLoad
  <2>1. /\ user' \in {None} \cup [id : Users, data : BOOLEAN] /\ active' \in {None} \cup Shown
        /\ DOMAIN rooms' \subseteq BlendIds /\ \A i \in DOMAIN rooms' : rooms'[i] \subseteq Users
    <3>1. CASE UNCHANGED <<user, active, rooms>>
      BY <3>1 DEF StateType
    <3>2. ASSUME NEW data \in BOOLEAN,
                 SetCurrentUser([id |-> Top.who, data |-> data])
          PROVE  /\ user' \in {None} \cup [id : Users, data : BOOLEAN] /\ active' \in {None} \cup Shown
                 /\ DOMAIN rooms' \subseteq BlendIds /\ \A i \in DOMAIN rooms' : rooms'[i] \subseteq Users
      <4>1. Top.who \in Users
        BY <1>10, TopTypes DEF LoginLoad, At, Named
      <4>. QED  BY <3>2, <4>1, UserTypes
    <3>. QED  BY <1>10, <3>1, <3>2 DEF LoginLoad
  <2>. QED  BY <1>10, <2>1 DEF LoginLoad, StateType
<1>11. CASE LoginBuild
  <2>1. Top.id \in BlendIds /\ Top.people \in SUBSET Users /\ Top.who \in Users
    BY <1>11, TopTypes DEF LoginBuild, At, Named
  <2>2. [id |-> Top.id, people |-> Top.people, whose |-> Top.who] \in Blend
    BY <2>1, BlendTypes
  <2>. QED  BY <1>11, <2>2, ShowTypes DEF LoginBuild, StateType
<1>12. CASE LoginClose
  <2>1. page' \in Pages /\ added' \subseteq Users /\ misread' \in BOOLEAN
    BY <1>12, AfterLoginTypes DEF LoginClose, StateType
  <2>. QED  BY <1>12, <2>1 DEF LoginClose, StateType
<1>13. CASE LogOut
  <2>1. page' \in Pages /\ added' \subseteq Users /\ misread' \in BOOLEAN
    BY <1>13, PageTypes DEF LogOut, StateType, Pages
  <2>2. /\ user' \in {None} \cup [id : Users, data : BOOLEAN] /\ pending' \in {None} \cup Account
        /\ active' \in {None} \cup Shown /\ lacking' \in BOOLEAN
        /\ DOMAIN rooms' \subseteq BlendIds /\ \A i \in DOMAIN rooms' : rooms'[i] \subseteq Users
        /\ accounts' \subseteq Users /\ uploaded' \subseteq Users
        /\ members' \in [BlendIds -> SUBSET Users]
    <3>1. CASE HandleLogout({})
      BY <3>1, GoneTypes DEF HandleLogout, ClearSession, StateType
    <3>2. CASE UNCHANGED <<user, pending, active, rooms, lacking, server>>
      BY <3>2 DEF StateType
    <3>. QED  BY <1>13, <3>1, <3>2 DEF LogOut
  <2>. QED  BY <1>13, <2>1, <2>2, ClickTypes DEF LogOut, StateType
<1>14. CASE DeleteAccount
  <2>1. page' \in Pages /\ added' \subseteq Users /\ misread' \in BOOLEAN
    BY <1>14, PageTypes DEF DeleteAccount, Pages
  <2>2. /\ user' = None /\ pending' \in {None} \cup Account
        /\ active' = None /\ lacking' = FALSE /\ DOMAIN rooms' = {}
        /\ accounts' \subseteq Users /\ uploaded' \subseteq Users
        /\ members' \in [BlendIds -> SUBSET Users]
    BY <1>14, GoneTypes DEF DeleteAccount, HandleDeleteAccount, HandleLogout, ClearSession, StateType
  <2>. QED  BY <1>14, <2>1, <2>2, ClickTypes DEF DeleteAccount, StateType
<1>15. CASE DeleteUnanswered
  BY <1>15, GoneTypes, ClickTypes DEF DeleteUnanswered, StateType
<1>16. CASE UploadFails
  BY <1>16, ClickTypes DEF UploadFails, PendingAfterUpload, Save, StateType
<1>17. ASSUME NEW data \in BOOLEAN, Upload(data) PROVE StateType'
  <2>1. user \in [id : Users, data : BOOLEAN]
    BY <1>17 DEF Upload, UploadMayStart, StateType
  <2>2. /\ user' \in [id : Users, data : BOOLEAN] /\ uploaded' \subseteq Users
        /\ pending' \in {None} \cup Account
    BY <1>17, <2>1 DEF Upload, PendingAfterUpload, Save, StateType
  <2>3. page' \in Pages /\ added' \subseteq Users /\ misread' \in BOOLEAN
    BY <1>17, <2>1 DEF Upload, OnBrowse, Reload, IdOf, ReadsActive, StateType, Pages
  <2>4. /\ owned' \in {None} \cup Blend /\ active' \in {None} \cup Shown
        /\ DOMAIN rooms' \subseteq BlendIds /\ \A i \in DOMAIN rooms' : rooms'[i] \subseteq Users
        /\ abandoned' \in BOOLEAN
    <3>1. ASSUME NEW b \in ParseBlendID(user.id, members),
                 NEW people \in SUBSET (ParseParticipantIDs(b) \cap uploaded') \ {{}}
          PROVE  [id |-> b, people |-> people, whose |-> user.id] \in Blend
      BY <2>1, BlendTypes DEF ParseBlendID, ParseParticipantIDs, StateType
    <3>2. CASE UNCHANGED <<owned, active, rooms, stack, abandoned>>
      BY <3>2 DEF StateType
    <3>. QED  BY <1>17, <3>1, <3>2, ShowTypes DEF Upload
  <2>. QED  BY <1>17, <2>2, <2>3, <2>4, ClickTypes DEF Upload, StateType
<1>18. CASE UploadThenThrow
  <2>1. uploaded' \subseteq Users
    BY <1>18 DEF UploadThenThrow, UploadMayStart, Save, StateType
  <2>. QED  BY <1>18, <2>1, ForgetTypes DEF UploadThenThrow, StateType
<1>19. CASE Create
  BY <1>19, ClickTypes DEF Create, StateType
<1>20. CASE CreateLoad
  BY <1>20 DEF CreateLoad, SetUsersWithoutData, StateType
<1>21. CASE CreateBuild
  <2>1. Top.people \in SUBSET Users /\ IdOf(user) \in Users \cup {None}
    BY <1>21, TopTypes, UserType DEF CreateBuild, At
  <2>2. owned' \in Blend /\ active' \in {None} \cup Shown /\ made' \subseteq BlendIds
    BY <1>21, <2>1, BlendTypes DEF CreateBuild, StateType
  <2>3. abandoned' \in BOOLEAN
    BY <1>21 DEF CreateBuild, StateType
  <2>. QED  BY <1>21, <2>2, <2>3 DEF CreateBuild, StateType
<1>22. CASE CreateSave
  <2>1. Top.people \in SUBSET Users /\ owned \in Blend /\ owned.id \in BlendIds
    BY <1>22, TopTypes DEF CreateSave, At, StateType, Blend
  <2>2. members' \in [BlendIds -> SUBSET Users] /\ active' \in {None} \cup Shown
    BY <1>22, <2>1, BlendTypes DEF CreateSave, StateType
  <2>. QED  BY <1>22, <2>2 DEF CreateSave, StateType
<1>23. CASE CreateUnanswered
  <2>1. Top.people \in SUBSET Users
    BY <1>23, TopTypes DEF CreateUnanswered, At
  <2>2. members' \in [BlendIds -> SUBSET Users]
    BY <1>23, <2>1 DEF CreateUnanswered, StateType
  <2>. QED  BY <1>23, <2>2, ForgetTypes DEF CreateUnanswered, StateType
<1>24. CASE CreateEnrich
  <2>1. owned \in Blend
    BY <1>24 DEF CreateEnrich, StateType
  <2>. QED  BY <1>24, <2>1, RoomTypes DEF CreateEnrich, StateType
<1>25. CASE CreateAgain
  <2>1. owned \in Blend /\ owned.people \in SUBSET Users
    BY <1>25 DEF CreateAgain, StateType, Blend
  <2>2. members' \in [BlendIds -> SUBSET Users]
    BY <1>25, <2>1 DEF CreateAgain, RegisterBlendOnServer, StateType
  <2>. QED  BY <1>25, <2>2 DEF CreateAgain, StateType
<1>26. CASE CreateClose
  <2>1. page' \in Pages /\ added' \subseteq Users /\ misread' \in BOOLEAN
    BY <1>26, PageTypes DEF CreateClose, StateType, Pages
  <2>. QED  BY <1>26, <2>1 DEF CreateClose, StateType
<1>27. ASSUME NEW b \in BlendIds, Select(b) PROVE StateType'
  BY <1>27, ClickTypes DEF Select, StateType
<1>28. ASSUME NEW b \in BlendIds, Leave(b) PROVE StateType'
  <2>1. /\ members' \in [BlendIds -> SUBSET Users] /\ misread' \in BOOLEAN /\ abandoned' \in BOOLEAN
        /\ owned' \in {None} \cup Blend /\ active' \in {None} \cup Shown
    BY <1>28 DEF Leave, HandleLeaveBlend, ReadsActive, StateType
  <2>. QED  BY <1>28, <2>1, ClickTypes DEF Leave, StateType
<1>29. CASE SelectFetch \/ SelectLoad
  BY <1>29 DEF SelectFetch, SelectLoad, StateType
<1>30. ASSUME NEW o \in {"select", "refresh"}, Rebuild(o) PROVE StateType'
  <2>1. Top.id \in BlendIds /\ Top.people \in SUBSET Users /\ IdOf(user) \in Users \cup {None}
    BY <1>30, TopTypes, UserType DEF Rebuild, At, Named
  <2>2. owned' \in Blend /\ active' \in {None} \cup Shown
    BY <1>30, <2>1, BlendTypes DEF Rebuild
  <2>. QED  BY <1>30, <2>2 DEF Rebuild, StateType
<1>31. CASE SelectSet
  <2>1. owned \in Blend
    BY <1>31 DEF SelectSet, StateType
  <2>. QED  BY <1>31, <2>1, RoomTypes, BlendTypes DEF SelectSet, StateType
<1>32. CASE SelectClose
  <2>1. page' \in Pages /\ added' \subseteq Users /\ misread' \in BOOLEAN
    BY <1>32, PageTypes DEF SelectClose, StateType, Pages
  <2>. QED  BY <1>32, <2>1 DEF SelectClose, StateType
<1>33. CASE Refresh
  BY <1>33, ClickTypes DEF Refresh, StateType
<1>34. CASE RefreshRead \/ RefreshPool \/ RefreshClose
  BY <1>34 DEF RefreshRead, RefreshPool, RefreshClose, ReadsActive, StateType
<1>35. CASE RefreshSet
  BY <1>35, BlendTypes DEF RefreshSet, StateType
<1>36. CASE Navigate
  <2>1. Exits(page) \subseteq Pages
    BY DEF Exits, Pages
  <2>2. page' \in Pages /\ added' \subseteq Users /\ misread' \in BOOLEAN
    BY <1>36, <2>1, PageTypes DEF Navigate, StateType
  <2>. QED  BY <1>36, <2>2 DEF Navigate, StateType
<1>37. CASE PollTimer
  BY <1>37 DEF PollTimer, ReadsActive, StateType
<1>38. CASE Throws \/ NullBlend \/ Fault
  BY <1>38, ForgetTypes DEF Throws, NullBlend, Fault, Die, StateType
<1>39. CASE UNCHANGED vars
  BY <1>39 DEF vars, StateType
<1>. QED
  BY <1>1, <1>2, <1>3, <1>4, <1>5, <1>6, <1>7, <1>8, <1>9, <1>10, <1>11, <1>12, <1>13, <1>14,
     <1>15, <1>16, <1>17, <1>18, <1>19, <1>20, <1>21, <1>22, <1>23, <1>24, <1>25, <1>26, <1>27,
     <1>28, <1>29, <1>30, <1>31, <1>32, <1>33, <1>34, <1>35, <1>36, <1>37, <1>38, <1>39 DEF Next
-----------------------------------------------------------------------------
(* The kinds of steps.                                                     *)

Working == Ats \ {"open", "close"}

Started1(f) == f \in Operation /\ Named(f) /\ (f.at = "open" => f.dialog)

\* The top goes on to work on blend id.
Continues(at, id, people) ==
  /\ Moved(at, id, people) /\ at \in Working
  /\ Top.op = "login" /\ at = "build" => id \in BlendIds
  /\ Top.op = "select" => id \in BlendIds
  /\ Top.op = "refresh" /\ at \in {"pool", "build"} => id \in BlendIds

Begins == \E f : Started1(f) /\ Pushed(f) /\ reporter' = reporter
GoesOn == \E at, id, people : Continues(at, id, people) /\ reporter' = reporter
Dispatches ==
  \E at : /\ Top.at = "open" /\ Continues(at, Top.id, Top.people) /\ reporter' = Len(stack)
LeavesRefresh == Popped /\ Top.at = "close" /\ reporter' = 0
Forgets == Forget /\ stack' = <<>> /\ reporter' = 0

Kinds ==
  Stays \/ Begins \/ GoesOn \/ Dispatches \/ (stack # <<>> /\ Returns) \/ Leaves \/ LeavesRefresh \/ Forgets

LEMMA BeginKinds ==
  ASSUME Types,
         \/ \E u \in Users : SignIn(u) \/ RegisterKnown(u)
         \/ Create \/ Refresh
         \/ \E b \in BlendIds : Select(b) \/ Leave(b)
  PROVE  StackType' /\ (Begins \/ Stays)
<1>0. /\ IdOf(user) \in Users \cup {None} /\ added \in SUBSET Users /\ {} \in SUBSET Users
      /\ TRUE \in BOOLEAN /\ FALSE \in BOOLEAN
  BY UserType DEF Types, StateType
<1>1. \A b, c \in BlendIds : b \in RebuildList \/ c \in FetchUserBlends(members') => user.id \in Users
  BY UserType DEF RebuildList, FetchUserBlends, Types
<1>2. ASSUME NEW o \in Ops, NEW at \in {"open", "auth", "fetch"}, NEW u \in Users \cup {None},
             NEW b \in BlendIds \cup {None}, NEW people \in SUBSET Users, NEW dialog \in BOOLEAN,
             Pushes(o, at, u, b, people, dialog), o = "login" => u \in Users,
             o = "select" => b \in BlendIds, at = "open" => dialog
      PROVE  Begins
  <2>1. Started1(Started(o, at, u, b, people, dialog))
    BY <1>2, PushType DEF Started1, Started, Named, Ats
  <2>. QED  BY <1>2, <2>1 DEF Begins, Pushes
<1>3. ASSUME NEW u \in Users, SignIn(u) \/ RegisterKnown(u) PROVE StackType' /\ Begins
  BY <1>0, <1>2, <1>3, PushSteps DEF Ops
<1>4. ASSUME Create \/ Refresh PROVE StackType' /\ Begins
  BY <1>0, <1>2, <1>4, PushSteps DEF Ops
<1>5. ASSUME NEW b \in BlendIds, Select(b) PROVE StackType' /\ Begins
  <2>1. user.id \in Users
    BY <1>1, <1>5 DEF Select
  <2>. QED  BY <1>0, <1>2, <1>5, <2>1, PushSteps DEF Ops
<1>6. ASSUME NEW b \in BlendIds, Leave(b) PROVE StackType' /\ (Begins \/ Stays)
  <2>1. ASSUME NEW c \in FetchUserBlends(members'), Pushes("select", "fetch", user.id, c, {}, FALSE)
        PROVE  Begins
    <3>1. c \in BlendIds /\ user.id \in Users
      BY <1>1 DEF FetchUserBlends
    <3>. QED  BY <1>0, <1>2, <2>1, <3>1 DEF Ops
  <2>. QED  BY <1>6, <2>1, PushSteps
<1>. QED  BY <1>3, <1>4, <1>5, <1>6

LEMMA WorkKinds ==
  ASSUME Types,
         \/ LoginAuth \/ LoginLoad \/ LoginBlend \/ LoginBuild \/ LoginClose
         \/ CreateLoad \/ CreateBuild \/ CreateSave \/ CreateEnrich \/ CreateAgain \/ CreateClose
         \/ SelectFetch \/ SelectLoad \/ Rebuild("select") \/ SelectSet \/ SelectClose
         \/ RefreshRead \/ RefreshPool \/ Rebuild("refresh") \/ RefreshSet \/ RefreshClose
  PROVE  StackType' /\ (GoesOn \/ (stack # <<>> /\ Returns) \/ Leaves \/ LeavesRefresh)
<1>0. stack # <<>> => /\ Top.op = "select" => Top.id \in BlendIds
                      /\ Top.op = "login" => Top.who \in Users
                      /\ Top.op = "refresh" /\ Top.at \in {"pool", "build"} => Top.id \in BlendIds
  BY TopTypes DEF Named
<1>1. CASE LoginAuth \/ LoginLoad \/ LoginBuild \/ LoginClose
  BY <1>0, <1>1, LoginSteps
     DEF LoginAuth, LoginLoad, LoginBuild, At, GoesOn, Goes, Continues, Working, Ats
<1>2. CASE LoginBlend
  <2>1. ASSUME NEW b \in ParseBlendID(Top.who, members), NEW people \in SUBSET Users,
               Goes("build", b, people)
        PROVE  GoesOn
    <3>1. b \in BlendIds /\ Top.op = "login"
      BY <1>2 DEF ParseBlendID, LoginBlend, At
    <3>. QED  BY <2>1, <3>1 DEF GoesOn, Goes, Continues, Working, Ats
  <2>. QED  BY <1>2, <2>1, LoginSteps DEF LoginBlend, At
<1>3. CASE CreateLoad \/ CreateBuild \/ CreateSave \/ CreateEnrich \/ CreateAgain \/ CreateClose
  <2>1. ASSUME NEW at \in Working, NEW people, Top.op = "create", Goes(at, Top.id, people)
        PROVE  GoesOn
    BY <2>1 DEF GoesOn, Goes, Continues
  <2>. QED
    BY <1>3, <2>1, CreateSteps
       DEF CreateLoad, CreateBuild, CreateSave, CreateEnrich, CreateAgain, At, Working, Ats
<1>4. CASE SelectFetch \/ SelectLoad \/ Rebuild("select") \/ SelectSet \/ SelectClose
  <2>1. ASSUME NEW at \in Working, NEW people, stack # <<>>, Top.op = "select", Goes(at, Top.id, people)
        PROVE  GoesOn
    BY <1>0, <2>1 DEF GoesOn, Goes, Continues
  <2>. QED
    BY <1>4, <2>1, SelectSteps DEF SelectFetch, SelectLoad, Rebuild, SelectSet, At, Working, Ats
<1>5. CASE RefreshRead
  <2>1. ASSUME active # None, Goes("pool", active.id, active.people) PROVE GoesOn
    <3>1. active.id \in BlendIds /\ Top.op = "refresh"
      BY <1>5, <2>1 DEF RefreshRead, At, Types, StateType, Shown
    <3>. QED  BY <2>1, <3>1 DEF GoesOn, Goes, Continues, Working, Ats
  <2>. QED  BY <1>5, <2>1, RefreshSteps DEF RefreshRead, At
<1>6. CASE RefreshPool \/ Rebuild("refresh")
  <2>1. ASSUME NEW at \in Working, NEW people, stack # <<>>, Top.op = "refresh",
               Top.at \in {"pool", "build"}, Goes(at, Top.id, people)
        PROVE  GoesOn
    BY <1>0, <2>1 DEF GoesOn, Goes, Continues
  <2>. QED  BY <1>6, <2>1, RefreshSteps, SelectSteps DEF RefreshPool, Rebuild, At, Working, Ats
<1>7. CASE RefreshSet \/ RefreshClose
  BY <1>7, RefreshSteps DEF RefreshSet, At, LeavesRefresh
<1>. QED  BY <1>1, <1>2, <1>3, <1>4, <1>5, <1>6, <1>7

LEMMA DispatchKinds ==
  ASSUME Types,
         \/ Dispatch("login", "auth") \/ Dispatch("create", "load") \/ Dispatch("select", "fetch")
         \/ Dispatch("refresh", "read")
  PROVE  StackType' /\ Dispatches
<1>1. ASSUME NEW o \in Ops, NEW at \in {"auth", "load", "fetch", "read"}, Dispatch(o, at)
      PROVE  StackType' /\ Dispatches
  <2>1. /\ StackType' /\ Moved(at, Top.id, Top.people)
        /\ Top.at = "open" /\ Top.op = o /\ reporter' = Len(stack)
    BY <1>1, DispatchSteps DEF Ats
  <2>2. Top.op = "select" => Top.id \in BlendIds
    BY <2>1, TopTypes DEF Named, Moved
  <2>. QED  BY <2>1, <2>2 DEF Dispatches, Continues, Working, Ats
<1>. QED  BY <1>1 DEF Ops

LEMMA StackStep ==
  ASSUME Types, [Next]_vars
  PROVE  StackType' /\ Kinds
<1>1. CASE UNCHANGED vars
  <2>1. stack' = stack /\ reporter' = reporter
    BY <1>1 DEF vars, ui
  <2>. QED  BY <2>1, Kepts DEF Kinds, Stays, Types, StackType
<1>2. CASE Next
  BY <1>2, BeginKinds, WorkKinds, DispatchKinds, KeepSteps, ForgetSteps DEF Next, Kinds, Forgets
<1>. QED  BY <1>1, <1>2
-----------------------------------------------------------------------------
(* Operations and their dialogs.                                           *)

DialogsFirst == \A i \in DOMAIN stack : stack[i].at = "open" => stack[i].dialog

\* The reporter's operation is past its start and, unless it is a refresh, which
\* keeps the reporter until its dialog closes, before its end.
ReporterInv ==
  reporter # 0 =>
    /\ reporter \in DOMAIN stack /\ stack[reporter].dialog
    /\ stack[reporter].op # "refresh" => stack[reporter].at \notin {"open", "close"}

Dialogs == DialogsFirst /\ ReporterInv

LEMMA DialogStep ==
  ASSUME Types, Dialogs, StackType', Kinds
  PROVE  AllNamed' /\ Dialogs'
<1>. DEFINE n == Len(stack)
<1>0. /\ n \in Nat /\ DOMAIN stack = 1 .. n /\ (stack # <<>> <=> n > 0) /\ Top = stack[n]
      /\ Len(stack') \in Nat /\ DOMAIN stack' = 1 .. Len(stack')
  BY DEF Types, StackType, Top
<1>1. /\ \A i \in 1 .. n : Named(stack[i])
      /\ \A i \in 1 .. n : stack[i].at = "open" => stack[i].dialog
      /\ reporter # 0 =>
           /\ reporter \in 1 .. n /\ stack[reporter].dialog
           /\ stack[reporter].op # "refresh" => stack[reporter].at \notin {"open", "close"}
  BY <1>0 DEF Types, AllNamed, Dialogs, DialogsFirst, ReporterInv
<1>. HIDE DEF n
<1>2. CASE Stays
  <2>1. Len(stack') = n /\ reporter' = reporter /\ \A i \in 1 .. n : Same(stack'[i], stack[i])
    BY <1>2 DEF Stays, Kept, Agree, n
  <2>. QED
    BY <1>0, <1>1, <2>1 DEF AllNamed, Dialogs, DialogsFirst, ReporterInv, Named, Same
<1>3. CASE Begins
  <2>1. PICK f : Started1(f) /\ Pushed(f) /\ reporter' = reporter
    BY <1>3 DEF Begins
  <2>2. /\ Len(stack') = n + 1 /\ \A i \in 1 .. n : Same(stack'[i], stack[i])
        /\ Same(stack'[n + 1], f) /\ Named(f) /\ (f.at = "open" => f.dialog)
    BY <2>1 DEF Pushed, Agree, Started1, n
  <2>3. \A i \in 1 .. n + 1 : i \in 1 .. n \/ i = n + 1
    BY <1>0
  <2>. QED
    BY <1>0, <1>1, <2>1, <2>2, <2>3
       DEF AllNamed, Dialogs, DialogsFirst, ReporterInv, Named, Same
<1>4. ASSUME NEW at, NEW id, NEW people, Continues(at, id, people),
             \/ reporter' = reporter
             \/ Top.at = "open" /\ reporter' = n
      PROVE  AllNamed' /\ Dialogs'
  <2>1. /\ Len(stack') = n /\ n > 0 /\ \A i \in 1 .. n - 1 : Same(stack'[i], stack[i])
        /\ stack'[n].op = stack[n].op /\ stack'[n].at = at /\ stack'[n].id = id
        /\ stack'[n].who = stack[n].who /\ stack'[n].dialog = stack[n].dialog
        /\ at \notin {"open", "close"}
    BY <1>0, <1>4 DEF Continues, Moved, Agree, Working, n
  <2>2. Named(stack'[n])
    BY <1>0, <1>1, <1>4, <2>1 DEF Continues, Named
  <2>3. \A i \in 1 .. n : i \in 1 .. n - 1 \/ i = n
    BY <1>0
  <2>4. AllNamed'
    BY <1>0, <1>1, <2>1, <2>2, <2>3 DEF AllNamed, Named, Same
  <2>5. DialogsFirst'
    BY <1>0, <1>1, <2>1, <2>3 DEF DialogsFirst, Same
  <2>6. ReporterInv'
    BY <1>0, <1>1, <1>4, <2>1, <2>3 DEF ReporterInv, Same
  <2>. QED  BY <2>4, <2>5, <2>6 DEF Dialogs
<1>5. ASSUME Popped,
             reporter' = 0 \/ (reporter' = reporter /\ (reporter = n => FALSE))
      PROVE  AllNamed' /\ Dialogs'
  <2>1. Len(stack') = n - 1 /\ n > 0 /\ \A i \in 1 .. n - 1 : Same(stack'[i], stack[i])
    BY <1>0, <1>5 DEF Popped, Agree, n
  <2>. QED
    BY <1>0, <1>1, <1>5, <2>1 DEF AllNamed, Dialogs, DialogsFirst, ReporterInv, Named, Same
<1>6. CASE LeavesRefresh
  BY <1>5, <1>6 DEF LeavesRefresh
<1>7. CASE Leaves
  BY <1>0, <1>1, <1>5, <1>7 DEF Leaves
<1>8. CASE stack # <<>> /\ Returns
  <2>1. CASE Top.op = "select" /\ ~Top.dialog
    <3>1. Popped /\ reporter' = reporter
      BY <1>8, <2>1 DEF Returns, Ended, ReporterLeft
    <3>. QED  BY <1>0, <1>1, <1>5, <2>1, <3>1
  <2>2. CASE ~(Top.op = "select" /\ ~Top.dialog)
    <3>1. /\ Len(stack') = n /\ n > 0 /\ \A i \in 1 .. n - 1 : Same(stack'[i], stack[i])
          /\ stack'[n].op = stack[n].op /\ stack'[n].at = "close" /\ stack'[n].id = stack[n].id
          /\ stack'[n].who = stack[n].who /\ stack'[n].dialog = stack[n].dialog
      BY <1>0, <1>8, <2>2 DEF Returns, Ended, Moved, Agree, n
    <3>2. reporter' = IF stack[n].dialog /\ stack[n].op # "refresh" THEN 0 ELSE reporter
      BY <1>0, <1>8 DEF Returns, ReporterLeft
    <3>3. Named(stack'[n])
      BY <1>0, <1>1, <3>1 DEF Named
    <3>4. \A i \in 1 .. n : i \in 1 .. n - 1 \/ i = n
      BY <1>0
    <3>5. AllNamed' /\ DialogsFirst'
      BY <1>0, <1>1, <3>1, <3>3, <3>4 DEF AllNamed, DialogsFirst, Named, Same
    <3>6. ReporterInv'
      BY <1>0, <1>1, <3>1, <3>2, <3>4 DEF ReporterInv, Same
    <3>. QED  BY <3>5, <3>6 DEF Dialogs
  <2>. QED  BY <2>1, <2>2
<1>9. CASE Forgets
  <2>1. Len(stack') = 0 /\ reporter' = 0
    BY <1>9 DEF Forgets
  <2>. QED  BY <1>0, <2>1 DEF AllNamed, Dialogs, DialogsFirst, ReporterInv
<1>. QED
  BY <1>0, <1>2, <1>3, <1>4, <1>6, <1>7, <1>8, <1>9 DEF Kinds, GoesOn, Dispatches, n

DialogInv == Types /\ Dialogs

LEMMA DialogInit == Init => DialogInv
  BY TypesInit DEF DialogInv, Dialogs, DialogsFirst, ReporterInv, Init, Memory

LEMMA DialogNext == DialogInv /\ [Next]_vars => DialogInv'
<1> SUFFICES ASSUME DialogInv, [Next]_vars PROVE DialogInv'
  OBVIOUS
<1>1. StackType' /\ Kinds /\ StateType'
  BY StackStep, StateStep DEF DialogInv
<1>2. AllNamed' /\ Dialogs'
  BY <1>1, DialogStep DEF DialogInv
<1>. QED  BY <1>1, <1>2 DEF DialogInv, Types

LEMMA TypesHold == Types => TypeOK
<1> SUFFICES ASSUME Types PROVE TypeOK
  OBVIOUS
<1>1. active = None \/ \E b \in Blend : active \in {Live(b), Freed(Live(b))}
  <2>1. SUFFICES ASSUME active \in Shown
                 PROVE  \E b \in Blend : active \in {Live(b), Freed(Live(b))}
    BY DEF Types, StateType
  <2>. DEFINE b == [id |-> active.id, people |-> active.people, whose |-> active.whose]
  <2>2. /\ b \in Blend /\ b # None
        /\ active = [id |-> b.id, people |-> b.people, whose |-> b.whose, freed |-> active.freed]
        /\ active.freed \in BOOLEAN
    BY <2>1, NullType DEF Shown, Blend
  <2>. HIDE DEF b
  <2>3. Live(b) = [id |-> b.id, people |-> b.people, whose |-> b.whose, freed |-> FALSE]
    BY <2>2 DEF Live
  <2>4. Live(b) # None
    BY <2>2, <2>3, BlendTypes DEF Types
  <2>5. Freed(Live(b)) = [id |-> b.id, people |-> b.people, whose |-> b.whose, freed |-> TRUE]
    <3>. DEFINE Copy(x) == [id |-> b.id, people |-> b.people, whose |-> b.whose, freed |-> x]
    <3>1. \A x, y : [Copy(x) EXCEPT !.freed = y] = Copy(y)
      OBVIOUS
    <3>2. Live(b) = Copy(FALSE)
      BY <2>3
    <3>. HIDE DEF Copy
    <3>3. Freed(Live(b)) = [Copy(FALSE) EXCEPT !.freed = TRUE]
      BY <2>4, <3>2 DEF Freed
    <3>4. [Copy(FALSE) EXCEPT !.freed = TRUE] = Copy(TRUE)
      BY <3>1
    <3>. QED  BY <3>3, <3>4 DEF Copy
  <2>6. active = Live(b) \/ active = Freed(Live(b))
    BY <2>2, <2>3, <2>5
  <2>. QED  BY <2>2, <2>6
<1>. QED  BY <1>1 DEF Types, StackType, StateType, TypeOK

\* The state shared by the handlers, and the operations under way, have their
\* types.
THEOREM SessionTypes == Spec => []TypeOK
<1>1. DialogInv => TypeOK
  BY TypesHold DEF DialogInv
<1>. QED  BY <1>1, DialogInit, DialogNext, PTL DEF Spec

\* clearProgressReporter and the reporters that nested operations install over
\* one another: however deep they nest, the reporter is that of a dialog whose
\* handler has not returned.
THEOREM ReporterIsHeld == Spec => []ReporterHasItsDialog
<1>1. DialogInv => ReporterHasItsDialog
  BY Tops DEF DialogInv, Dialogs, ReporterInv, ReporterHasItsDialog, Types
<1>. QED  BY <1>1, DialogInit, DialogNext, PTL DEF Spec
-----------------------------------------------------------------------------
(* Accounts.                                                               *)

\* Only accounts have playlists, and the pending account has none.
Accounting == uploaded \subseteq accounts /\ PendingHasNoData

LEMMA ForgetsAccounts ==
  ASSUME Types, Accounting, NEW gone, ServerForgets(gone), pending' \in {pending, None}
  PROVE  Accounting'
  BY DEF Types, StateType, Accounting, ServerForgets, PendingHasNoData

\* Saving a playlist ends the registration of its user.
LEMMA SavesAccounts ==
  ASSUME Types, Accounting, user # None, user.id \in accounts, UNCHANGED accounts,
         NEW data, Save(user.id, data), PendingAfterUpload \/ pending' = None
  PROVE  Accounting'
  BY DEF Types, StateType, Accounting, PendingHasNoData, Save, PendingAfterUpload

LEMMA AccountInit == Init => Accounting
  BY DEF Init, Memory, Accounting, PendingHasNoData

LEMMA AccountStep ==
  ASSUME Types, Accounting, [Next]_vars
  PROVE  Accounting'
<1> USE DEF process, app, ui, server, history
<1>0. ASSUME UNCHANGED <<accounts, uploaded>>, pending' \in {pending, None} PROVE Accounting'
  BY <1>0 DEF Accounting, PendingHasNoData
<1>1. CASE Exit
  BY <1>1, ForgetsAccounts DEF Exit, Forget
<1>2. ASSUME NEW u \in Users, RegisterNew(u) PROVE Accounting'
  <2>1. /\ pending' = [id |-> u, created |-> connected] /\ uploaded' = uploaded
        /\ accounts \subseteq accounts' /\ (connected => u \notin accounts)
    BY <1>2 DEF RegisterNew
  <2>. QED  BY <2>1 DEF Accounting, PendingHasNoData
<1>3. CASE RegisterRefused
  BY <1>3 DEF RegisterRefused, Accounting, PendingHasNoData
<1>4. CASE LogOut
  <2>1. CASE HandleLogout({})
    BY <2>1, ForgetsAccounts DEF HandleLogout
  <2>2. CASE UNCHANGED <<user, pending, active, rooms, lacking, server>>
    BY <1>0, <2>2
  <2>. QED  BY <1>4, <2>1, <2>2 DEF LogOut
<1>5. CASE DeleteAccount
  BY <1>5, ForgetsAccounts DEF DeleteAccount, HandleDeleteAccount, HandleLogout
<1>6. CASE DeleteUnanswered
  BY <1>6, ForgetsAccounts DEF DeleteUnanswered
<1>7. CASE UploadFails
  <2>1. CASE UNCHANGED uploaded
    BY <1>0, <1>7, <2>1 DEF UploadFails, PendingAfterUpload
  <2>2. CASE user.id \in accounts /\ \E data \in BOOLEAN : Save(user.id, data)
    BY <1>7, <2>2, SavesAccounts DEF UploadFails, UploadMayStart
  <2>. QED  BY <1>7, <2>1, <2>2 DEF UploadFails
<1>8. ASSUME NEW data \in BOOLEAN, Upload(data) PROVE Accounting'
  BY <1>8, SavesAccounts DEF Upload, UploadMayStart
<1>9. CASE UploadThenThrow
  BY <1>9, SavesAccounts DEF UploadThenThrow, UploadMayStart, Forget
<1>10. CASE CreateUnanswered \/ Throws \/ NullBlend \/ Fault
  BY <1>0, <1>10 DEF CreateUnanswered, Throws, NullBlend, Fault, Die, Forget
<1>11. CASE UNCHANGED vars
  BY <1>0, <1>11 DEF vars
<1>12. CASE Start \/ \E u \in Users : SignIn(u) \/ RegisterKnown(u) \/ AddUser(u) \/ RemoveUser(u)
  BY <1>0, <1>12 DEF Start, SignIn, RegisterKnown, AddUser, RemoveUser
<1>13. CASE LoginAuth \/ LoginLoad \/ LoginBlend \/ LoginBuild \/ LoginClose
  BY <1>0, <1>13 DEF LoginAuth, LoginLoad, LoginBlend, LoginBuild, LoginClose
<1>14. CASE Create \/ CreateLoad \/ CreateBuild \/ CreateSave \/ CreateEnrich \/ CreateAgain
            \/ CreateClose
  BY <1>0, <1>14 DEF Create, CreateLoad, CreateBuild, CreateSave, CreateEnrich, CreateAgain,
     CreateClose
<1>15. CASE \/ \E b \in BlendIds : Select(b) \/ Leave(b)
            \/ SelectFetch \/ SelectLoad \/ SelectSet \/ SelectClose
            \/ \E o : Rebuild(o)
  BY <1>0, <1>15 DEF Select, Leave, SelectFetch, SelectLoad, SelectSet, SelectClose, Rebuild
<1>16. CASE Refresh \/ RefreshRead \/ RefreshPool \/ RefreshSet \/ RefreshClose \/ Navigate
            \/ PollTimer \/ \E o, at : Dispatch(o, at)
  BY <1>0, <1>16 DEF Refresh, RefreshRead, RefreshPool, RefreshSet, RefreshClose, Navigate,
     PollTimer, Dispatch
<1>. QED
  BY <1>1, <1>2, <1>3, <1>4, <1>5, <1>6, <1>7, <1>8, <1>9, <1>10, <1>11, <1>12, <1>13, <1>14,
     <1>15, <1>16 DEF Next

\* The clean-up of a registration (handleLogout, the destructor) never deletes
\* an account this client has saved a playlist for, whatever answers were lost.
THEOREM CleanUpSparesData == Spec => []PendingHasNoData
<1>1. Init => DialogInv /\ Accounting
  BY DialogInit, AccountInit
<1>2. DialogInv /\ Accounting /\ [Next]_vars => (DialogInv /\ Accounting)'
  BY DialogNext, AccountStep DEF DialogInv
<1>3. Accounting => PendingHasNoData
  BY DEF Accounting
<1>. QED  BY <1>1, <1>2, <1>3, PTL DEF Spec
-----------------------------------------------------------------------------
(* The two pointers to the blend.                                          *)

\* The operation has generated a blend it has not made the active one yet.
Replacing(f) == (f.op = "create" /\ f.at = "save") \/ f.at = "set"

\* The active blend is the one the controller owns, unless an operation under way
\* is about to set it, or a creation was given up.
OwnedInv ==
  active # None =>
    IF active.freed THEN abandoned \/ \E i \in DOMAIN stack : Replacing(stack[i])
    ELSE owned # None /\ active = Live(owned)

LEMMA Pointers ==
  ASSUME StateType
  PROVE  /\ \A b \in {None} \cup Blend : Live(b) # None => b # None /\ Live(b).freed = FALSE
         /\ Freed(active) # None => active # None /\ Freed(active).freed = TRUE
  BY DEF StateType, Live, Freed, Shown

\* Steps of operations that do not replace the blend.
LEMMA OwnedKept ==
  ASSUME Types, OwnedInv, StackType', Kinds, active' \in {active, None}, UNCHANGED <<owned, abandoned>>,
         Stays \/ Begins \/ (stack # <<>> => ~Replacing(Top))
  PROVE  OwnedInv'
<1>. DEFINE n == Len(stack)
<1>0. /\ n \in Nat /\ DOMAIN stack = 1 .. n /\ (stack # <<>> <=> n > 0) /\ Top = stack[n]
      /\ Len(stack') \in Nat /\ DOMAIN stack' = 1 .. Len(stack')
  BY DEF Types, StackType, Top
<1>. HIDE DEF n
<1>1. CASE active' = None
  BY <1>1 DEF OwnedInv
<1>2. ASSUME \A i \in DOMAIN stack : Replacing(stack[i]) => i \in DOMAIN stack' /\ Replacing(stack'[i]),
             active' = active
      PROVE  OwnedInv'
  BY <1>2 DEF OwnedInv, Live
<1>3. CASE (Stays \/ Begins) /\ active' = active
  <2>1. \A i \in 1 .. n : i \in 1 .. Len(stack') /\ Same(stack'[i], stack[i])
    <3>1. \A i \in 1 .. n : Same(stack'[i], stack[i])
      BY <1>3 DEF Stays, Begins, Kept, Pushed, Agree, n
    <3>2. Len(stack') = n \/ Len(stack') = n + 1
      BY <1>3 DEF Stays, Begins, Kept, Pushed, n
    <3>3. n \in Nat /\ Len(stack') \in Nat
      BY <1>0
    <3>. QED  BY <3>1, <3>2, <3>3
  <2>. QED  BY <1>0, <1>2, <1>3, <2>1 DEF Same, Replacing
<1>4. ASSUME stack # <<>>, ~Replacing(Top), active' = active,
             (\E at, id, people : Moved(at, id, people)) \/ Popped
      PROVE  OwnedInv'
  <2>1. \A i \in 1 .. n - 1 : i \in 1 .. Len(stack') /\ Same(stack'[i], stack[i])
    <3>1. \A i \in 1 .. n - 1 : Same(stack'[i], stack[i])
      BY <1>4 DEF Moved, Popped, Agree, n
    <3>2. Len(stack') = n - 1 \/ Len(stack') = n
      BY <1>4 DEF Moved, Popped, n
    <3>3. n \in Nat /\ Len(stack') \in Nat
      BY <1>0
    <3>. QED  BY <3>1, <3>2, <3>3
  <2>2. \A i \in 1 .. n : Replacing(stack[i]) => i \in 1 .. n - 1
    BY <1>0, <1>4
  <2>. QED  BY <1>0, <1>2, <1>4, <2>1, <2>2 DEF Same, Replacing
<1>5. GoesOn \/ Dispatches \/ (stack # <<>> /\ Returns) \/ Leaves \/ LeavesRefresh
        => stack # <<>> /\ ((\E at, id, people : Moved(at, id, people)) \/ Popped)
  BY DEF GoesOn, Dispatches, Continues, Moved, Returns, Ended, Leaves, LeavesRefresh, Popped
<1>6. Forgets => active' = None
  BY DEF Forgets, Forget
<1>. QED  BY <1>1, <1>3, <1>4, <1>5, <1>6 DEF Kinds

LEMMA OwnedStep ==
  ASSUME Types, OwnedInv, [Next]_vars
  PROVE  OwnedInv'
<1> USE DEF process, app, ui, server, history
<1>0. StackType' /\ Kinds /\ StateType' /\ StateType
  BY StackStep, StateStep DEF Types
<1>1. ASSUME active' = None PROVE OwnedInv'
  BY <1>1 DEF OwnedInv
<1>2. ASSUME active' = Live(owned') PROVE OwnedInv'
  <2>1. owned' \in {None} \cup Blend
    BY <1>0 DEF StateType
  <2>. QED  BY <1>0, <1>2, <2>1, Pointers DEF OwnedInv
<1>3. ASSUME active' = Freed(active),
             abandoned' \/ (\E at, id, people : Goes(at, id, people) /\ stack # <<>>
                                /\ (at = "set" \/ (at = "save" /\ Top.op = "create")))
      PROVE  OwnedInv'
  <2>1. Freed(active) # None => Freed(active).freed = TRUE
    BY <1>0, Pointers
  <2>2. CASE abandoned'
    BY <1>3, <2>1, <2>2 DEF OwnedInv
  <2>3. ASSUME NEW at, NEW id, NEW people, Moved(at, id, people), stack # <<>>,
               at = "set" \/ (at = "save" /\ Top.op = "create")
        PROVE  OwnedInv'
    <3>1. Len(stack) \in DOMAIN stack'
      BY <1>0, <2>3, Tops DEF Types, StackType, Moved
    <3>2. Replacing(stack'[Len(stack)])
      BY <2>3 DEF Moved, Replacing
    <3>. QED  BY <1>3, <2>1, <3>1, <3>2 DEF OwnedInv
  <2>. QED  BY <1>3, <2>2, <2>3 DEF Goes
<1>4. CASE \/ Start \/ Navigate \/ PollTimer \/ RegisterRefused \/ LogOut \/ DeleteAccount
           \/ DeleteUnanswered \/ UploadFails
           \/ \E u \in Users : RegisterNew(u) \/ AddUser(u) \/ RemoveUser(u)
  <2>1. Stays
    BY <1>4, KeepSteps
  <2>2. active' \in {active, None} /\ UNCHANGED <<owned, abandoned>>
    BY <1>4 DEF Start, Navigate, PollTimer, RegisterRefused, LogOut, DeleteAccount, DeleteUnanswered,
       UploadFails, RegisterNew, AddUser, RemoveUser, HandleDeleteAccount, HandleLogout, ClearSession,
       SetCurrentUser
  <2>. QED  BY <1>0, <2>1, <2>2, OwnedKept
<1>5. CASE Create \/ Refresh \/ (\E u \in Users : SignIn(u) \/ RegisterKnown(u))
           \/ (\E b \in BlendIds : Select(b))
  <2>1. Stays \/ Begins
    BY <1>5, BeginKinds
  <2>2. active' \in {active, None} /\ UNCHANGED <<owned, abandoned>>
    BY <1>5 DEF Create, Refresh, SignIn, RegisterKnown, Select
  <2>. QED  BY <1>0, <2>1, <2>2, OwnedKept
<1>6. ASSUME NEW b \in BlendIds, Leave(b) PROVE OwnedInv'
  <2>1. CASE owned' = None /\ active' = None
    BY <1>1, <2>1
  <2>2. CASE UNCHANGED <<owned, active, abandoned, stack>>
    BY <2>2 DEF OwnedInv, Live
  <2>. QED  BY <1>6, <2>1, <2>2 DEF Leave, HandleLeaveBlend
<1>7. ASSUME NEW data \in BOOLEAN, Upload(data) PROVE OwnedInv'
  <2>1. CASE active' = Live(owned')
    BY <1>2, <2>1
  <2>2. CASE UNCHANGED <<owned, active, rooms, stack, abandoned>>
    BY <2>2 DEF OwnedInv, Live
  <2>. QED  BY <1>7, <2>1, <2>2 DEF Upload, Show
<1>8. CASE Exit \/ UploadThenThrow \/ CreateUnanswered \/ Throws \/ NullBlend \/ Fault
  BY <1>1, <1>8, ForgetSteps DEF Forget
<1>9. CASE \/ Dispatch("login", "auth") \/ Dispatch("create", "load") \/ Dispatch("select", "fetch")
           \/ Dispatch("refresh", "read")
  BY <1>0, <1>9, OwnedKept DEF Dispatch, At, Replacing
<1>10. CASE LoginAuth \/ LoginLoad \/ LoginBlend \/ LoginClose
  <2>1. active' \in {active, None} /\ UNCHANGED <<owned, abandoned>> /\ ~Replacing(Top)
    BY <1>10 DEF LoginAuth, LoginLoad, LoginBlend, LoginClose, At, SetCurrentUser, Replacing
  <2>. QED  BY <1>0, <2>1, OwnedKept
<1>11. CASE LoginBuild
  BY <1>2, <1>11 DEF LoginBuild, Show
<1>12. CASE CreateLoad \/ CreateEnrich \/ CreateAgain \/ CreateClose
  <2>1. active' \in {active, None} /\ UNCHANGED <<owned, abandoned>> /\ ~Replacing(Top)
    BY <1>12 DEF CreateLoad, CreateEnrich, CreateAgain, CreateClose, At, Replacing
  <2>. QED  BY <1>0, <2>1, OwnedKept
<1>13. CASE CreateBuild
  <2>1. active' = Freed(active) /\ stack # <<>> /\ Top.op = "create"
    BY <1>13 DEF CreateBuild, At
  <2>2. CASE abandoned' = TRUE
    BY <1>3, <2>1, <2>2
  <2>3. CASE reporter' = reporter /\ \E valid \in SUBSET Top.people :
                stack' = Stale([stack EXCEPT ![Len(stack)].at = "save", ![Len(stack)].people = valid])
    <3>1. PICK valid \in SUBSET Top.people :
                stack' = Stale([stack EXCEPT ![Len(stack)].at = "save", ![Len(stack)].people = valid])
      BY <2>3
    <3>2. Top \in Operation /\ stack \in Seq(Operation) /\ Len(stack) \in DOMAIN stack
      BY <2>1, Tops DEF Types, StackType
    <3>3. valid \in SUBSET Users /\ "save" \in Ats /\ Top.id \in BlendIds \cup {None}
      BY <3>2, OperationIs DEF Ats
    <3>4. [Top EXCEPT !.at = "save", !.people = valid]
            = [Top EXCEPT !.at = "save", !.id = Top.id, !.people = valid]
      BY <3>2, OperationIs
    <3>5. [stack EXCEPT ![Len(stack)].at = "save", ![Len(stack)].people = valid]
            = [stack EXCEPT ![Len(stack)] = [Top EXCEPT !.at = "save", !.people = valid]]
      BY <3>2 DEF Top
    <3>6. Moved("save", Top.id, valid)
      BY <2>1, <2>3, <3>1, <3>3, <3>4, <3>5, Puttings DEF Types, StackType
    <3>. QED  BY <1>3, <2>1, <2>3, <3>6 DEF Goes
  <2>. QED  BY <1>13, <2>2, <2>3 DEF CreateBuild
<1>14. CASE CreateSave
  <2>1. CASE active' = Live(owned)
    BY <1>2, <1>14, <2>1 DEF CreateSave
  <2>2. CASE abandoned' = TRUE /\ UNCHANGED active
    BY <1>14, <2>2 DEF CreateSave, OwnedInv, Live
  <2>. QED  BY <1>14, <2>1, <2>2 DEF CreateSave
<1>15. CASE SelectFetch \/ SelectLoad \/ SelectClose
  <2>1. active' \in {active, None} /\ UNCHANGED <<owned, abandoned>> /\ ~Replacing(Top)
    BY <1>15 DEF SelectFetch, SelectLoad, SelectClose, At, Replacing
  <2>. QED  BY <1>0, <2>1, OwnedKept
<1>16. ASSUME NEW o \in {"select", "refresh"}, Rebuild(o) PROVE OwnedInv'
  <2>1. Goes("set", Top.id, Top.people) /\ active' = Freed(active) /\ stack # <<>>
    BY <1>16, SelectSteps DEF Rebuild, At
  <2>. QED  BY <1>3, <2>1
<1>17. CASE SelectSet \/ RefreshSet
  BY <1>2, <1>17 DEF SelectSet, RefreshSet
<1>18. CASE RefreshRead \/ RefreshPool \/ RefreshClose
  <2>1. active' \in {active, None} /\ UNCHANGED <<owned, abandoned>> /\ ~Replacing(Top)
    BY <1>18 DEF RefreshRead, RefreshPool, RefreshClose, At, Replacing
  <2>. QED  BY <1>0, <2>1, OwnedKept
<1>19. CASE UNCHANGED vars
  BY <1>19 DEF vars, OwnedInv, Live
<1>. QED
  BY <1>4, <1>5, <1>6, <1>7, <1>8, <1>9, <1>10, <1>11, <1>12, <1>13, <1>14, <1>15, <1>16, <1>17,
     <1>18, <1>19 DEF Next

\* AppController's currentBlend and AppState's activeBlend: however operations
\* overlap and end, once none is under way the second is null or points to the
\* first, or a creation given up has left it to freed memory.
THEOREM PointersAgreeAtRest == Spec => []IdleActiveIsOwned
<1>1. Init => DialogInv /\ OwnedInv
  BY DialogInit DEF Init, Memory, OwnedInv
<1>2. DialogInv /\ OwnedInv /\ [Next]_vars => (DialogInv /\ OwnedInv)'
  BY DialogNext, OwnedStep DEF DialogInv
<1>3. DialogInv /\ OwnedInv => IdleActiveIsOwned
  <2>1. DialogInv /\ stack = <<>> => DOMAIN stack = {}
    BY DEF DialogInv
  <2>. QED  BY <2>1 DEF OwnedInv, IdleActiveIsOwned
<1>. QED  BY <1>1, <1>2, <1>3, PTL DEF Spec
-----------------------------------------------------------------------------
(* One operation at a time.                                                *)

\* What the operation under way relies on.
TopFits ==
  /\ Top.op # "login" => user # None
  /\ Top.op = "login" /\ Top.at \in {"blend", "build"} => user # None /\ user.id = Top.who
  /\ (Top.op = "create" /\ Top.at \in {"save", "enrich"}) \/ Top.at = "set"
       => owned # None /\ user # None /\ owned.whose = user.id
  /\ IF Top.op = "create" /\ Top.at = "enrich" THEN active = Live(owned)
     ELSE active # None => active.id \in DOMAIN rooms
  /\ Top.op = "refresh" /\ Top.at \in {"pool", "build"} => Top.id \in DOMAIN rooms
  /\ Top.op = "refresh" /\ Top.at = "set" => owned.id \in DOMAIN rooms

ShowsUsers == active # None /\ ~active.freed => user # None /\ active.whose = user.id

AloneInv ==
  ~overlapped =>
    /\ Len(stack) <= 1
    /\ page # "LOGIN" => user # None
    /\ ShowsUsers
    /\ stack = <<>> /\ active # None => active.id \in DOMAIN rooms
    /\ stack # <<>> => TopFits

LEMMA TopAfter ==
  ASSUME StackType, StackType'
  PROVE  /\ Kept => (stack' = <<>> <=> stack = <<>>) /\ Len(stack') = Len(stack)
                    /\ (stack # <<>> => Same(Top', Top))
         /\ \A at, id, people : Moved(at, id, people) =>
              /\ stack # <<>> /\ stack' # <<>> /\ Len(stack') = Len(stack)
              /\ Top'.op = Top.op /\ Top'.at = at /\ Top'.who = Top.who /\ Top'.id = id
              /\ Top'.people = people
         /\ Popped /\ Len(stack) <= 1 => stack' = <<>> /\ Len(stack') <= 1
         /\ \A f : stack = <<>> /\ Pushed(f) => stack' # <<>> /\ Len(stack') = 1 /\ Same(Top', f)
<1>1. /\ Len(stack) \in Nat /\ (stack # <<>> <=> Len(stack) > 0)
      /\ Len(stack') \in Nat /\ (stack' # <<>> <=> Len(stack') > 0)
  BY DEF StackType
<1>2. Kept => (stack' = <<>> <=> stack = <<>>) /\ Len(stack') = Len(stack)
              /\ (stack # <<>> => Same(Top', Top))
  BY <1>1 DEF Kept, Agree, Top
<1>3. ASSUME NEW at, NEW id, NEW people, Moved(at, id, people)
      PROVE  /\ stack # <<>> /\ stack' # <<>> /\ Len(stack') = Len(stack)
             /\ Top'.op = Top.op /\ Top'.at = at /\ Top'.who = Top.who /\ Top'.id = id
             /\ Top'.people = people
  BY <1>1, <1>3 DEF Moved, Top
<1>4. Popped /\ Len(stack) <= 1 => stack' = <<>> /\ Len(stack') <= 1
  BY <1>1 DEF Popped
<1>5. ASSUME NEW f, stack = <<>>, Pushed(f)
      PROVE  stack' # <<>> /\ Len(stack') = 1 /\ Same(Top', f)
  BY <1>1, <1>5 DEF Pushed, Top
<1>. QED  BY <1>2, <1>3, <1>4, <1>5

\* Nothing can be started inside an operation.
LEMMA AloneClick ==
  ASSUME StackType, AloneInv, Click, ~overlapped'
  PROVE  ~overlapped /\ stack = <<>> /\ Len(stack) = 0
  BY DEF Click, StackType

\* The step leaves alone what the invariant speaks of.
Same5 == UNCHANGED <<user, owned, active, rooms>> /\ (page' = page \/ user # None)

LEMMA AloneKeeps ==
  ASSUME Types, StackType', AloneInv, ~overlapped, Same5, Kept
  PROVE  AloneInv'
<1>1. UNCHANGED Live(owned)
  BY DEF Same5, Live
<1>. QED  BY <1>1, TopAfter DEF Types, AloneInv, ShowsUsers, TopFits, Same5, Same

LEMMA AloneStarts ==
  ASSUME Types, StackType', AloneInv, ~overlapped, Same5, stack = <<>>, NEW f, Pushed(f),
         f.op # "login" => user # None, f.at \in {"open", "auth", "fetch"}
  PROVE  AloneInv'
<1>1. UNCHANGED Live(owned)
  BY DEF Same5, Live
<1>2. stack' # <<>> /\ Len(stack') = 1 /\ Top'.op = f.op /\ Top'.at = f.at
  BY TopAfter DEF Types, Same
<1>. QED  BY <1>1, <1>2 DEF AloneInv, ShowsUsers, TopFits, Same5

LEMMA AloneEnds ==
  ASSUME Types, StackType', AloneInv, ~overlapped, Same5, Ended \/ Popped, stack # <<>>,
         ~(Top.op = "create" /\ Top.at = "enrich")
  PROVE  AloneInv'
<1>0. TopFits /\ Len(stack) <= 1 /\ ShowsUsers /\ (page # "LOGIN" => user # None)
  BY DEF AloneInv
<1>1. CASE Popped
  BY <1>0, <1>1, TopAfter DEF Types, AloneInv, ShowsUsers, TopFits, Same5
<1>2. CASE Moved("close", Top.id, Top.people)
  <2>1. stack' # <<>> /\ Len(stack') <= 1 /\ Top'.op = Top.op /\ Top'.at = "close"
    BY <1>0, <1>2, TopAfter DEF Types
  <2>. QED  BY <1>0, <2>1 DEF AloneInv, ShowsUsers, TopFits, Same5
<1>. QED  BY <1>1, <1>2 DEF Ended

\* An operation goes on, without any need of what the controller owns.
LEMMA AloneGoesOn ==
  ASSUME Types, StackType', AloneInv, ~overlapped, Same5, stack # <<>>,
         NEW at, NEW id, NEW people, Moved(at, id, people),
         ~(Top.op = "create" /\ Top.at = "enrich"),
         at \notin {"save", "enrich", "set"},
         Top.op = "login" /\ at \in {"blend", "build"} => Top.at \in {"blend", "build"},
         Top.op = "refresh" /\ at \in {"pool", "build"} => id \in DOMAIN rooms
  PROVE  AloneInv'
<1>0. TopFits /\ Len(stack) <= 1 /\ ShowsUsers /\ (page # "LOGIN" => user # None)
  BY DEF AloneInv
<1>1. /\ stack' # <<>> /\ Len(stack') <= 1 /\ Top'.op = Top.op /\ Top'.at = at
      /\ Top'.who = Top.who /\ Top'.id = id
  BY <1>0, TopAfter DEF Types
<1>. QED  BY <1>0, <1>1 DEF AloneInv, ShowsUsers, TopFits, Same5

LEMMA AloneNames ==
  ASSUME StateType
  PROVE  /\ \A b \in Blend : /\ Live(b) # None /\ Live(b).freed = FALSE /\ b # None
                             /\ Live(b).id = b.id /\ Live(b).whose = b.whose
                             /\ b.id \in DOMAIN WithRoom(b)
         /\ DOMAIN rooms \subseteq DOMAIN WithRoom(owned) \/ owned = None
         /\ Freed(active) # None => /\ active # None /\ Freed(active).freed = TRUE
                                    /\ Freed(active).id = active.id
         /\ user # None => IdOf(user) = user.id
<1>1. \A b \in Blend : b # None
  BY NullType
<1>2. \A b \in Blend : /\ Live(b) # None /\ Live(b).freed = FALSE
                       /\ Live(b).id = b.id /\ Live(b).whose = b.whose
  BY <1>1, BlendTypes DEF Live
<1>3. \A b \in Blend : b.id \in DOMAIN WithRoom(b)
  BY DEF WithRoom
<1>4. DOMAIN rooms \subseteq DOMAIN WithRoom(owned)
  BY DEF WithRoom
<1>5. Freed(active) # None => /\ active # None /\ Freed(active).freed = TRUE
                              /\ Freed(active).id = active.id
  BY DEF Freed, StateType, Shown
<1>. QED  BY <1>1, <1>2, <1>3, <1>4, <1>5 DEF IdOf

\* Setting the active blend ends an operation that was at "set", or brings a
\* creation to "enrich".
LEMMA AloneShows ==
  ASSUME Types, StackType', AloneInv, ~overlapped, stack # <<>>,
         UNCHANGED <<user, owned, page>>, owned # None, active' = Live(owned),
         \/ Top.op = "create" /\ Top.at = "save" /\ Moved("enrich", Top.id, Top.people)
            /\ rooms' = rooms
         \/ Top.at = "set" /\ Ended /\ DOMAIN rooms' = DOMAIN rooms \cup {owned.id}
         \/ Top.op = "refresh" /\ Top.at = "set" /\ Ended /\ rooms' = rooms
  PROVE  AloneInv'
<1>0. TopFits /\ Len(stack) <= 1 /\ (page # "LOGIN" => user # None)
  BY DEF AloneInv
<1>1. /\ owned \in Blend /\ Live(owned) # None /\ Live(owned).freed = FALSE
      /\ Live(owned).id = owned.id /\ Live(owned).whose = owned.whose
  BY AloneNames DEF Types, StateType
<1>2. user # None /\ owned.whose = user.id
  BY <1>0 DEF TopFits
<1>3. Live(owned)' = active'
  BY DEF Live
<1>4. CASE /\ Top.op = "create" /\ Top.at = "save" /\ Moved("enrich", Top.id, Top.people)
           /\ rooms' = rooms
  <2>1. stack' # <<>> /\ Len(stack') <= 1 /\ Top'.op = "create" /\ Top'.at = "enrich"
    BY <1>0, <1>4, TopAfter DEF Types
  <2>. QED  BY <1>0, <1>1, <1>2, <1>3, <2>1 DEF AloneInv, ShowsUsers, TopFits
<1>5. ASSUME Top.at = "set", Ended, owned.id \in DOMAIN rooms'
      PROVE  AloneInv'
  <2>1. ShowsUsers' /\ active'.id \in DOMAIN rooms'
    BY <1>1, <1>2, <1>5 DEF ShowsUsers
  <2>2. CASE Popped
    BY <1>0, <2>1, <2>2, TopAfter DEF Types, AloneInv
  <2>3. CASE Moved("close", Top.id, Top.people)
    <3>1. stack' # <<>> /\ Len(stack') <= 1 /\ Top'.op = Top.op /\ Top'.at = "close"
      BY <1>0, <2>3, TopAfter DEF Types
    <3>. QED  BY <1>0, <1>2, <2>1, <3>1 DEF AloneInv, TopFits
  <2>. QED  BY <1>5, <2>2, <2>3 DEF Ended
<1>6. Top.op = "refresh" /\ Top.at = "set" => owned.id \in DOMAIN rooms
  BY <1>0 DEF TopFits
<1>. QED  BY <1>4, <1>5, <1>6

\* Generating a blend leaves the active one freed.
LEMMA AloneGenerates ==
  ASSUME Types, StackType', AloneInv, ~overlapped, stack # <<>>, Top.at = "build",
         UNCHANGED <<user, page, rooms>>, active' = Freed(active),
         owned' # None, owned'.whose = IdOf(user),
         \/ Ended
         \/ \E people : Top.op = "create" /\ Moved("save", Top.id, people)
         \/ Top.op \in {"select", "refresh"} /\ Moved("set", Top.id, Top.people) /\ owned'.id = Top.id
  PROVE  AloneInv'
<1>0. TopFits /\ Len(stack) <= 1 /\ (page # "LOGIN" => user # None)
  BY DEF AloneInv
<1>1. active # None => active.id \in DOMAIN rooms
  BY <1>0 DEF TopFits
<1>2. ShowsUsers' /\ (active' # None => active'.id \in DOMAIN rooms')
  BY <1>1, AloneNames DEF Types, ShowsUsers
<1>3. user # None => IdOf(user) = user.id
  BY DEF IdOf
<1>4. CASE Popped
  BY <1>0, <1>2, <1>4, TopAfter DEF Types, AloneInv
<1>5. ASSUME NEW at, NEW people, Moved(at, Top.id, people),
             \/ at = "close"
             \/ at = "save" /\ Top.op = "create"
             \/ at = "set" /\ Top.op \in {"select", "refresh"} /\ owned'.id = Top.id
      PROVE  AloneInv'
  <2>1. /\ stack' # <<>> /\ Len(stack') <= 1 /\ Top'.op = Top.op /\ Top'.at = at
        /\ Top'.who = Top.who /\ Top'.id = Top.id
    BY <1>0, <1>5, TopAfter DEF Types
  <2>2. Top.op # "login" => user # None
    BY <1>0 DEF TopFits
  <2>3. Top.op = "refresh" => Top.id \in DOMAIN rooms
    BY <1>0 DEF TopFits
  <2>. QED  BY <1>0, <1>2, <1>3, <1>5, <2>1, <2>2, <2>3 DEF AloneInv, TopFits
<1>. QED  BY <1>4, <1>5 DEF Ended

\* A restored blend is the user's.
LEMMA AloneRestores ==
  ASSUME Types, StackType', AloneInv, ~overlapped, NEW b \in Blend, Show(b),
         user' # None, b.whose = user'.id,
         stack' = <<>> \/ (stack' # <<>> /\ Top'.op = "login" /\ Top'.at = "close"),
         Len(stack') <= 1
  PROVE  AloneInv'
<1>1. /\ active' = Live(b) /\ Live(b) # None /\ Live(b).freed = FALSE /\ Live(b).id = b.id
      /\ Live(b).whose = b.whose /\ b.id \in DOMAIN rooms'
  BY AloneNames DEF Types, Show
<1>. QED  BY <1>1 DEF AloneInv, ShowsUsers, TopFits

\* Another user, or the same again, signs in.
LEMMA AloneSignsIn ==
  ASSUME Types, AloneInv, ~overlapped, NEW u \in [id : Users, data : BOOLEAN],
         SetCurrentUser(u), active # None => active.id \in DOMAIN rooms
  PROVE  /\ user' = u /\ u # None /\ ShowsUsers'
         /\ active' # None => active'.id \in DOMAIN rooms'
<1>1. u # None
  BY NullType
<1>2. ShowsUsers
  BY DEF AloneInv
<1>. QED  BY <1>1, <1>2 DEF SetCurrentUser, ShowsUsers

LEMMA AloneStep ==
  ASSUME Types, AloneInv, [Next]_vars
  PROVE  AloneInv'
<1> USE DEF process, app, ui, server, history
<1>0. StackType' /\ StateType' /\ StateType /\ StackType
  BY StackStep, StateStep DEF Types
<1>. SUFFICES ASSUME ~overlapped' PROVE AloneInv'
  BY DEF AloneInv
<1>1. ASSUME Forget PROVE AloneInv'
  <2>1. Len(<<>>) = 0
    OBVIOUS
  <2>. QED  BY <1>1, <2>1 DEF Forget, AloneInv, ShowsUsers
<1>2. CASE Exit \/ UploadThenThrow \/ CreateUnanswered \/ Throws \/ NullBlend \/ Fault
  BY <1>1, <1>2, ForgetSteps
<1>3. CASE Start \/ PollTimer \/ DeleteUnanswered \/ UploadFails
           \/ \E u \in Users : AddUser(u) \/ RemoveUser(u)
  <2>1. Kept
    BY <1>3, KeepSteps DEF Stays
  <2>2. Same5
    BY <1>3 DEF Start, PollTimer, DeleteUnanswered, UploadFails, AddUser, RemoveUser, Same5
  <2>3. ~overlapped
    <3>1. CASE Start \/ PollTimer \/ \E u \in Users : AddUser(u) \/ RemoveUser(u)
      BY <3>1 DEF Start, PollTimer, AddUser, RemoveUser
    <3>2. CASE DeleteUnanswered \/ UploadFails
      <4>1. Click
        BY <3>2 DEF DeleteUnanswered, UploadFails
      <4>. QED  BY <1>0, <4>1, AloneClick
    <3>. QED  BY <1>3, <3>1, <3>2
  <2>. QED  BY <1>0, <2>1, <2>2, <2>3, AloneKeeps
<1>4. CASE Navigate
  <2>1. Kept
    BY <1>4, KeepSteps DEF Stays
  <2>2. ~overlapped
    BY <1>4 DEF Navigate
  <2>3. page = "LOGIN" => Exits(page) = {}
    BY DEF Exits
  <2>4. page # "LOGIN"
    BY <1>4, <2>3 DEF Navigate
  <2>5. Same5
    BY <1>4, <2>2, <2>4 DEF Navigate, Same5, AloneInv
  <2>. QED  BY <1>0, <2>1, <2>2, <2>5, AloneKeeps
<1>5. CASE RegisterRefused
  <2>1. Kept
    BY <1>5, KeepSteps DEF Stays
  <2>2. ~overlapped
    <3>1. Click
      BY <1>5 DEF RegisterRefused
    <3>. QED  BY <1>0, <3>1, AloneClick
  <2>3. Same5
    BY <1>5 DEF RegisterRefused, ProceedAfterLogin, Same5
  <2>. QED  BY <1>0, <2>1, <2>2, <2>3, AloneKeeps
<1>6. ASSUME NEW u \in Users, RegisterNew(u) PROVE AloneInv'
  <2>1. ~overlapped /\ stack = <<>> /\ Len(stack) = 0 /\ stack' = stack
    BY <1>0, <1>6, AloneClick DEF RegisterNew
  <2>2. [id |-> u, data |-> FALSE] \in [id : Users, data : BOOLEAN]
    OBVIOUS
  <2>3. /\ user' # None /\ ShowsUsers'
        /\ active' # None => active'.id \in DOMAIN rooms'
    BY <1>6, <2>1, <2>2, AloneSignsIn DEF RegisterNew, AloneInv
  <2>. QED  BY <2>1, <2>3 DEF AloneInv
<1>7. CASE LogOut \/ DeleteAccount
  <2>1. ~overlapped /\ stack = <<>> /\ Len(stack) = 0 /\ stack' = stack
    BY <1>0, <1>7, AloneClick DEF LogOut, DeleteAccount
  <2>2. page' = "LOGIN"
    BY <1>7 DEF LogOut, DeleteAccount, NavigateTo
  <2>3. active' = None \/ UNCHANGED <<user, active, rooms>>
    BY <1>7 DEF LogOut, DeleteAccount, HandleDeleteAccount, HandleLogout, ClearSession
  <2>. QED  BY <2>1, <2>2, <2>3 DEF AloneInv, ShowsUsers
<1>8. CASE Create \/ Refresh \/ (\E u \in Users : SignIn(u) \/ RegisterKnown(u))
           \/ (\E b \in BlendIds : Select(b))
  <2>1. ~overlapped /\ stack = <<>>
    BY <1>0, <1>8, AloneClick DEF Create, Refresh, SignIn, RegisterKnown, Select
  <2>2. Same5
    BY <1>8 DEF Create, Refresh, SignIn, RegisterKnown, Select, Same5
  <2>3. Create \/ Refresh \/ (\E b \in BlendIds : Select(b)) => user # None
    BY <2>1 DEF Create, Refresh, Select, RebuildList, AloneInv
  <2>4. \E f : Pushed(f) /\ (f.op # "login" => user # None) /\ f.at \in {"open", "auth", "fetch"}
    <3>1. ASSUME NEW o, NEW at \in {"open", "auth"}, NEW u, NEW b, NEW people, NEW dialog,
                 Pushes(o, at, u, b, people, dialog), o # "login" => user # None
          PROVE  \E f : Pushed(f) /\ (f.op # "login" => user # None) /\ f.at \in {"open", "auth", "fetch"}
      BY <3>1 DEF Pushes, Started
    <3>. QED  BY <1>8, <2>3, <3>1, PushSteps
  <2>. QED  BY <1>0, <2>1, <2>2, <2>4, AloneStarts
<1>9. ASSUME NEW b \in BlendIds, Leave(b) PROVE AloneInv'
  <2>1. ~overlapped /\ stack = <<>> /\ Len(stack) = 0
    BY <1>0, <1>9, AloneClick DEF Leave
  <2>2. user # None /\ UNCHANGED <<user, page, rooms>>
    BY <1>9 DEF Leave, RebuildList, FetchUserBlends
  <2>3. active' = None \/ active' = active
    BY <1>9 DEF Leave, HandleLeaveBlend
  <2>4. CASE Stays
    <3>1. stack' = <<>> /\ Len(stack') = 0
      BY <1>0, <2>1, <2>4, TopAfter DEF Stays
    <3>. QED  BY <2>1, <2>2, <2>3, <3>1 DEF AloneInv, ShowsUsers
  <2>5. ASSUME NEW c, Pushes("select", "fetch", user.id, c, {}, FALSE) PROVE AloneInv'
    <3>1. stack' # <<>> /\ Len(stack') = 1 /\ Top'.op = "select" /\ Top'.at = "fetch"
      BY <1>0, <2>1, <2>5, TopAfter DEF Pushes, Started, Same
    <3>. QED  BY <2>1, <2>2, <2>3, <3>1 DEF AloneInv, ShowsUsers, TopFits
  <2>. QED  BY <1>9, <2>4, <2>5, PushSteps
<1>10. ASSUME NEW data \in BOOLEAN, Upload(data) PROVE AloneInv'
  <2>1. ~overlapped /\ stack = <<>> /\ Len(stack) = 0
    BY <1>0, <1>10, AloneClick DEF Upload
  <2>2. stack' = <<>> /\ Len(stack') = 0
    BY <1>0, <1>10, <2>1, KeepSteps, TopAfter DEF Stays
  <2>3. user \in [id : Users, data : BOOLEAN] /\ user # None
    BY <1>0, <1>10 DEF Upload, UploadMayStart, StateType
  <2>4. user' # None /\ user'.id = user.id
    <3>1. user' \in [id : Users, data : BOOLEAN] /\ user'.id = user.id
      BY <1>10, <2>3 DEF Upload
    <3>. QED  BY <3>1, NullType
  <2>5. CASE UNCHANGED <<owned, active, rooms, stack, abandoned>>
    BY <2>1, <2>2, <2>3, <2>4, <2>5 DEF AloneInv, ShowsUsers
  <2>6. ASSUME NEW b \in ParseBlendID(user.id, members),
               NEW people \in SUBSET (ParseParticipantIDs(b) \cap uploaded') \ {{}},
               Show([id |-> b, people |-> people, whose |-> user.id])
        PROVE  AloneInv'
    <3>1. [id |-> b, people |-> people, whose |-> user.id] \in Blend
      BY <1>0, <2>3, BlendTypes DEF ParseBlendID, ParseParticipantIDs, StateType
    <3>. QED  BY <1>0, <2>1, <2>2, <2>4, <2>6, <3>1, AloneRestores
  <2>. QED  BY <1>10, <2>5, <2>6 DEF Upload
<1>11. ASSUME NEW o \in Ops, NEW at \in {"auth", "load", "fetch", "read"}, Dispatch(o, at) PROVE AloneInv'
  <2>1. ~overlapped /\ stack # <<>> /\ Same5
    BY <1>11 DEF Dispatch, At, Same5
  <2>2. Moved(at, Top.id, Top.people) /\ Top.at = "open"
    BY <1>11, DispatchSteps DEF Ats
  <2>. QED  BY <1>0, <2>1, <2>2, AloneGoesOn
<1>12. CASE LoginAuth
  <2>1. ~overlapped /\ stack # <<>> /\ Same5 /\ Top.op = "login"
    BY <1>12 DEF LoginAuth, At, Same5
  <2>. QED  BY <1>0, <1>12, <2>1, LoginSteps, AloneGoesOn, AloneEnds DEF Goes, Returns
<1>13. CASE LoginLoad
  <2>1. ~overlapped /\ stack # <<>> /\ Top.op = "login" /\ Top.at = "load" /\ UNCHANGED <<owned, page>>
    BY <1>13 DEF LoginLoad, At
  <2>2. CASE Return /\ UNCHANGED <<user, active, rooms>>
    <3>1. Returns
      BY <1>0, <2>1, <2>2, Returnings DEF Return
    <3>. QED  BY <1>0, <2>1, <2>2, <3>1, AloneEnds DEF Returns, Same5
  <2>3. ASSUME NEW data \in BOOLEAN, SetCurrentUser([id |-> Top.who, data |-> data]), Goto("blend"),
               UNCHANGED reporter
        PROVE  AloneInv'
    <3>1. Moved("blend", Top.id, Top.people)
      BY <1>0, <2>1, <2>3, Gotos DEF Ats, StackType
    <3>2. TopFits /\ Len(stack) <= 1
      BY <2>1 DEF AloneInv
    <3>3. active # None => active.id \in DOMAIN rooms
      BY <2>1, <3>2 DEF TopFits
    <3>4. Top.who \in Users
      BY <2>1, TopTypes DEF Named
    <3>5. [id |-> Top.who, data |-> data] \in [id : Users, data : BOOLEAN]
      BY <3>4
    <3>6. /\ user' # None /\ user'.id = Top.who /\ ShowsUsers'
          /\ active' # None => active'.id \in DOMAIN rooms'
      BY <2>1, <2>3, <3>3, <3>5, AloneSignsIn
    <3>7. /\ stack' # <<>> /\ Len(stack') <= 1 /\ Top'.op = "login" /\ Top'.at = "blend"
          /\ Top'.who = Top.who
      BY <1>0, <2>1, <3>1, <3>2, TopAfter
    <3>. QED  BY <3>6, <3>7 DEF AloneInv, TopFits
  <2>. QED  BY <1>13, <2>2, <2>3 DEF LoginLoad
<1>14. CASE LoginBlend
  <2>1. ~overlapped /\ stack # <<>> /\ Same5 /\ Top.op = "login" /\ Top.at = "blend"
    BY <1>14 DEF LoginBlend, At, Same5
  <2>. QED  BY <1>0, <1>14, <2>1, LoginSteps, AloneGoesOn, AloneEnds DEF Goes, Returns
<1>15. CASE LoginBuild
  <2>1. ~overlapped /\ stack # <<>> /\ Top.op = "login" /\ Top.at = "build"
    BY <1>15 DEF LoginBuild, At
  <2>2. user # None /\ user.id = Top.who /\ Len(stack) <= 1 /\ user' = user
    BY <1>15, <2>1 DEF AloneInv, TopFits, LoginBuild
  <2>3. Moved("close", Top.id, Top.people)
    BY <1>15, <2>1, LoginSteps DEF Returns, Ended
  <2>4. stack' # <<>> /\ Len(stack') <= 1 /\ Top'.op = "login" /\ Top'.at = "close"
    BY <1>0, <2>1, <2>2, <2>3, TopAfter
  <2>5. Top.id \in BlendIds /\ Top.people \in SUBSET Users /\ Top.who \in Users
    BY <2>1, TopTypes DEF Named
  <2>6. [id |-> Top.id, people |-> Top.people, whose |-> Top.who] \in Blend
    BY <1>0, <2>5, BlendTypes
  <2>. QED  BY <1>0, <1>15, <2>1, <2>2, <2>4, <2>6, AloneRestores DEF LoginBuild
<1>16. CASE LoginClose
  <2>1. ~overlapped /\ stack # <<>> /\ Same5 /\ Top.op = "login"
    BY <1>16 DEF LoginClose, At, Same5, ProceedAfterLogin
  <2>. QED  BY <1>0, <1>16, <2>1, LoginSteps, AloneEnds DEF Leaves
<1>17. CASE CreateLoad
  <2>1. ~overlapped /\ stack # <<>> /\ Same5 /\ Top.op = "create" /\ Top.at = "load"
    BY <1>17 DEF CreateLoad, At, Same5
  <2>. QED  BY <1>0, <1>17, <2>1, CreateSteps, AloneGoesOn, AloneEnds DEF Goes, Returns
<1>18. CASE CreateBuild
  <2>1. /\ ~overlapped /\ stack # <<>> /\ Top.op = "create" /\ Top.at = "build"
        /\ active' = Freed(active) /\ UNCHANGED <<user, page, rooms>>
    BY <1>18 DEF CreateBuild, At
  <2>2. owned' \in Blend /\ owned'.whose = IdOf(user)
    <3>1. Top.people \in SUBSET Users /\ IdOf(user) \in Users \cup {None}
      BY <2>1, TopTypes, UserType, <1>0
    <3>. QED  BY <1>0, <1>18, <3>1, BlendTypes DEF CreateBuild
  <2>3. owned' # None
    BY <2>2, NullType
  <2>. QED  BY <1>0, <1>18, <2>1, <2>2, <2>3, CreateSteps, AloneGenerates DEF Goes, Returns
<1>19. CASE CreateSave
  <2>1. /\ ~overlapped /\ stack # <<>> /\ Top.op = "create" /\ Top.at = "save" /\ owned # None
        /\ UNCHANGED <<user, owned, rooms, page>>
    BY <1>19 DEF CreateSave, At
  <2>2. CASE active' = Live(owned) /\ Goto("enrich") /\ UNCHANGED reporter
    <3>1. Moved("enrich", Top.id, Top.people)
      BY <1>0, <2>1, <2>2, Gotos DEF Ats, StackType
    <3>. QED  BY <1>0, <2>1, <2>2, <3>1, AloneShows
  <2>3. CASE Return /\ UNCHANGED active
    <3>1. Returns
      BY <1>0, <2>1, <2>3, Returnings DEF Return
    <3>. QED  BY <1>0, <2>1, <2>3, <3>1, AloneEnds DEF Returns, Same5
  <2>. QED  BY <1>19, <2>2, <2>3 DEF CreateSave
<1>20. CASE CreateEnrich
  <2>1. /\ ~overlapped /\ stack # <<>> /\ Top.op = "create" /\ Top.at = "enrich" /\ owned # None
        /\ UNCHANGED <<user, owned, active, page>> /\ rooms' = WithRoom(owned)
    BY <1>20 DEF CreateEnrich, At
  <2>2. TopFits /\ Len(stack) <= 1 /\ ShowsUsers /\ (page # "LOGIN" => user # None)
    BY <2>1 DEF AloneInv
  <2>3. active = Live(owned) /\ user # None
    BY <2>1, <2>2 DEF TopFits
  <2>4. /\ stack' # <<>> /\ Len(stack') <= 1 /\ Top'.op = "create" /\ Top'.at = "again"
    BY <1>0, <1>20, <2>1, <2>2, CreateSteps, TopAfter DEF Goes
  <2>5. active'.id \in DOMAIN rooms'
    <3>1. owned \in Blend
      BY <1>0, <2>1 DEF StateType
    <3>2. Live(owned).id = owned.id /\ owned.id \in DOMAIN WithRoom(owned)
      BY <1>0, <3>1, AloneNames
    <3>. QED  BY <2>1, <2>3, <3>2
  <2>. QED  BY <2>1, <2>2, <2>3, <2>4, <2>5 DEF AloneInv, ShowsUsers, TopFits
<1>21. CASE CreateAgain
  <2>1. ~overlapped /\ stack # <<>> /\ Same5 /\ Top.op = "create" /\ Top.at = "again"
    BY <1>21 DEF CreateAgain, At, Same5
  <2>. QED  BY <1>0, <1>21, <2>1, CreateSteps, AloneEnds DEF Returns
<1>22. CASE CreateClose
  <2>1. /\ ~overlapped /\ stack # <<>> /\ Top.op = "create" /\ Top.at = "close"
        /\ UNCHANGED <<user, owned, active, rooms>>
    BY <1>22 DEF CreateClose, At
  <2>2. user # None
    BY <2>1 DEF AloneInv, TopFits
  <2>. QED  BY <1>0, <1>22, <2>1, <2>2, CreateSteps, AloneEnds DEF Leaves, Same5
<1>23. CASE SelectFetch
  <2>1. ~overlapped /\ stack # <<>> /\ Same5 /\ Top.op = "select" /\ Top.at = "fetch"
    BY <1>23 DEF SelectFetch, At, Same5
  <2>. QED  BY <1>0, <1>23, <2>1, SelectSteps, AloneGoesOn, AloneEnds DEF Goes, Returns
<1>24. CASE SelectLoad
  <2>1. ~overlapped /\ stack # <<>> /\ Same5 /\ Top.op = "select" /\ Top.at = "load"
    BY <1>24 DEF SelectLoad, At, Same5
  <2>. QED  BY <1>0, <1>24, <2>1, SelectSteps, AloneGoesOn, AloneEnds DEF Goes, Returns
<1>25. ASSUME NEW o \in {"select", "refresh"}, Rebuild(o) PROVE AloneInv'
  <2>1. /\ ~overlapped /\ stack # <<>> /\ Top.op = o /\ Top.at = "build"
        /\ active' = Freed(active) /\ UNCHANGED <<user, page, rooms>>
        /\ owned' = [id |-> Top.id, people |-> Top.people, whose |-> IdOf(user)]
    BY <1>25 DEF Rebuild, At
  <2>2. owned' \in Blend
    <3>1. Top.id \in BlendIds /\ Top.people \in SUBSET Users /\ IdOf(user) \in Users \cup {None}
      BY <1>0, <2>1, TopTypes, UserType DEF Named
    <3>. QED  BY <1>0, <2>1, <3>1, BlendTypes
  <2>3. owned' # None /\ owned'.whose = IdOf(user) /\ owned'.id = Top.id
    BY <2>1, <2>2, NullType
  <2>4. Moved("set", Top.id, Top.people)
    BY <1>25, SelectSteps DEF Goes
  <2>. QED  BY <1>0, <2>1, <2>3, <2>4, AloneGenerates
<1>26. CASE SelectSet
  <2>1. /\ ~overlapped /\ stack # <<>> /\ Top.at = "set" /\ owned # None
        /\ UNCHANGED <<user, owned, page>> /\ active' = Live(owned)
        /\ DOMAIN rooms' = DOMAIN rooms \cup {owned.id}
    BY <1>26 DEF SelectSet, At, WithRoom
  <2>. QED  BY <1>0, <1>26, <2>1, SelectSteps, AloneShows DEF Returns
<1>27. CASE RefreshSet
  <2>1. /\ ~overlapped /\ stack # <<>> /\ Top.op = "refresh" /\ Top.at = "set"
        /\ UNCHANGED <<user, owned, page, rooms>> /\ active' = Live(owned)
    BY <1>27 DEF RefreshSet, At
  <2>2. owned # None
    BY <2>1 DEF AloneInv, TopFits
  <2>. QED  BY <1>0, <1>27, <2>1, <2>2, RefreshSteps, AloneShows DEF Returns
<1>28. CASE SelectClose
  <2>1. /\ ~overlapped /\ stack # <<>> /\ Top.op = "select" /\ UNCHANGED <<user, owned, active, rooms>>
    BY <1>28 DEF SelectClose, At
  <2>2. user # None
    BY <2>1 DEF AloneInv, TopFits
  <2>. QED  BY <1>0, <1>28, <2>1, <2>2, SelectSteps, AloneEnds DEF Leaves, Same5
<1>29. CASE RefreshRead
  <2>1. ~overlapped /\ stack # <<>> /\ Same5 /\ Top.op = "refresh" /\ Top.at = "read"
    BY <1>29 DEF RefreshRead, At, Same5
  <2>2. active # None => active.id \in DOMAIN rooms
    BY <2>1 DEF AloneInv, TopFits
  <2>. QED  BY <1>0, <1>29, <2>1, <2>2, RefreshSteps, AloneGoesOn, AloneEnds DEF Goes, Returns
<1>30. CASE RefreshPool
  <2>1. ~overlapped /\ stack # <<>> /\ Same5 /\ Top.op = "refresh" /\ Top.at = "pool"
    BY <1>30 DEF RefreshPool, At, Same5
  <2>2. Top.id \in DOMAIN rooms
    BY <2>1 DEF AloneInv, TopFits
  <2>. QED  BY <1>0, <1>30, <2>1, <2>2, RefreshSteps, AloneGoesOn, AloneEnds DEF Goes, Returns
<1>31. CASE RefreshClose
  <2>1. ~overlapped /\ stack # <<>> /\ Same5 /\ Top.op = "refresh"
    BY <1>31 DEF RefreshClose, At, Same5
  <2>. QED  BY <1>0, <1>31, <2>1, RefreshSteps, AloneEnds
<1>32. CASE UNCHANGED vars
  <2>1. ~overlapped /\ Same5 /\ stack' = stack
    BY <1>32 DEF vars, Same5
  <2>. QED  BY <1>0, <2>1, Kepts, AloneKeeps
<1>. QED
  BY <1>2, <1>3, <1>4, <1>5, <1>6, <1>7, <1>8, <1>9, <1>10, <1>11, <1>12, <1>13, <1>14, <1>15,
     <1>16, <1>17, <1>18, <1>19, <1>20, <1>21, <1>22, <1>23, <1>24, <1>25, <1>26, <1>27, <1>28,
     <1>29, <1>30, <1>31, <1>32 DEF Next, Ops

LEMMA AloneInit == Init => AloneInv
<1>1. Len(<<>>) = 0
  OBVIOUS
<1>. QED  BY <1>1 DEF Init, Memory, AloneInv, ShowsUsers

\* As long as operations do not overlap, whatever they answer and wherever they
\* fail, the blend on show is the logged-in user's and has a chat room: between
\* setCurrentUser, the two pointers and createChatRoom nothing is forgotten.
THEOREM ShowsTheUsersBlend == Spec => []ActiveIsTheUsers
<1>1. Init => DialogInv /\ AloneInv
  BY DialogInit, AloneInit
<1>2. DialogInv /\ AloneInv /\ [Next]_vars => (DialogInv /\ AloneInv)'
  BY DialogNext, AloneStep DEF DialogInv
<1>3. AloneInv => ActiveIsTheUsers
  BY DEF AloneInv, ShowsUsers, ActiveIsTheUsers
<1>. QED  BY <1>1, <1>2, <1>3, PTL DEF Spec
-----------------------------------------------------------------------------
(* Places in the blends.                                                   *)

Saving == stack # <<>> /\ Top.op = "create" /\ Top.at = "save"
Saved == stack # <<>> /\ Top.op = "create" /\ Top.at \in {"enrich", "again"}

\* The blend a creation is about to save has nobody in it; once it is saved,
\* nobody but those it was generated from.
PlacesInv ==
  ~overlapped =>
    /\ \A b \in BlendIds : members[b] # {} => b \in made
    /\ Saving => /\ owned # None /\ owned.id \in made /\ members[owned.id] = {}
                 /\ Top.people \subseteq owned.people
    /\ Saved => owned # None /\ owned.id \in made /\ members[owned.id] \subseteq owned.people

LEMMA PlacesElse ==
  ASSUME PlacesInv, ~overlapped, made' = made, ~Saving', ~Saved',
         \A b \in BlendIds : members'[b] \subseteq members[b]
  PROVE  PlacesInv'
  BY DEF PlacesInv

LEMMA PlacesKept ==
  ASSUME Types, StackType', PlacesInv, ~overlapped, Kept, UNCHANGED <<members, made, owned>>
  PROVE  PlacesInv'
  BY TopAfter DEF Types, PlacesInv, Saving, Saved, Same

\* A step of an operation that is no creation, or that ends one.
LEMMA NoCreation ==
  ASSUME Types, StackType', AloneInv, ~overlapped, stack # <<>>,
         \/ Popped
         \/ \E at, id, people : /\ Moved(at, id, people)
                                /\ Top.op # "create" \/ at \notin {"save", "enrich", "again"}
  PROVE  ~Saving' /\ ~Saved'
<1>0. Len(stack) <= 1
  BY DEF AloneInv
<1>1. CASE Popped
  BY <1>0, <1>1, TopAfter DEF Types, Saving, Saved
<1>2. ASSUME NEW at, NEW id, NEW people, Moved(at, id, people),
             Top.op # "create" \/ at \notin {"save", "enrich", "again"}
      PROVE  ~Saving' /\ ~Saved'
  <2>1. Top'.op = Top.op /\ Top'.at = at
    BY <1>2, TopAfter DEF Types
  <2>. QED  BY <1>2, <2>1 DEF Saving, Saved
<1>. QED  BY <1>1, <1>2

LEMMA Shrinks ==
  ASSUME StateType, NEW gone, ServerForgets(gone)
  PROVE  \A b \in BlendIds : members'[b] \subseteq members[b]
  BY DEF ServerForgets, StateType

LEMMA PlacesStep ==
  ASSUME Types, AloneInv, PlacesInv, [Next]_vars
  PROVE  PlacesInv'
<1> USE DEF process, app, ui, server, history
<1>0. StackType' /\ StateType' /\ StateType /\ StackType
  BY StackStep, StateStep DEF Types
<1>. SUFFICES ASSUME ~overlapped' PROVE PlacesInv'
  BY DEF PlacesInv
<1>1. ASSUME Forget, \A b \in BlendIds : members'[b] # {} => b \in made PROVE PlacesInv'
  BY <1>1 DEF Forget, PlacesInv, Saving, Saved
<1>2. CASE Exit \/ UploadThenThrow \/ Throws \/ NullBlend \/ Fault
  <2>1. Forget /\ overlapped' = overlapped
    BY <1>2, ForgetSteps DEF Forget
  <2>2. \A b \in BlendIds : members'[b] \subseteq members[b]
    <3>1. CASE Exit
      BY <1>0, <3>1, Shrinks DEF Exit
    <3>. QED  BY <1>2, <3>1 DEF UploadThenThrow, Throws, NullBlend, Fault, Die
  <2>. QED  BY <1>1, <2>1, <2>2 DEF PlacesInv
<1>3. CASE CreateUnanswered
  <2>1. Forget /\ overlapped' = overlapped /\ Saving
    BY <1>3 DEF CreateUnanswered, Forget, At, Saving
  <2>2. owned.id \in made /\ members' = [members EXCEPT ![owned.id] = Top.people]
    BY <1>3, <2>1 DEF CreateUnanswered, PlacesInv
  <2>3. \A b \in BlendIds : b = owned.id \/ members'[b] = members[b]
    BY <1>0, <2>2 DEF StateType
  <2>. QED  BY <1>1, <2>1, <2>2, <2>3 DEF PlacesInv
<1>4. CASE Start \/ PollTimer \/ Navigate \/ \E u \in Users : AddUser(u) \/ RemoveUser(u)
  <2>1. Kept
    BY <1>4, KeepSteps DEF Stays
  <2>2. ~overlapped /\ UNCHANGED <<members, made, owned>>
    BY <1>4 DEF Start, PollTimer, Navigate, AddUser, RemoveUser
  <2>. QED  BY <1>0, <2>1, <2>2, PlacesKept
<1>5. CASE \/ RegisterRefused \/ LogOut \/ DeleteAccount \/ DeleteUnanswered \/ UploadFails
           \/ (\E u \in Users : RegisterNew(u)) \/ (\E data \in BOOLEAN : Upload(data))
  <2>1. Click
    BY <1>5 DEF RegisterRefused, LogOut, DeleteAccount, DeleteUnanswered, UploadFails, RegisterNew,
       Upload
  <2>2. ~overlapped /\ stack = <<>> /\ made' = made
    BY <1>0, <2>1, AloneClick DEF Click
  <2>3. Kept
    BY <1>5, KeepSteps DEF Stays
  <2>4. stack' = <<>>
    BY <1>0, <2>2, <2>3, TopAfter
  <2>5. members' = members \/ \E gone : ServerForgets(gone)
    BY <1>5 DEF RegisterRefused, LogOut, DeleteAccount, DeleteUnanswered, UploadFails, RegisterNew,
       Upload, HandleDeleteAccount, HandleLogout
  <2>. QED  BY <1>0, <2>2, <2>4, <2>5, Shrinks, PlacesElse DEF Saving, Saved
<1>6. CASE Create \/ Refresh \/ (\E u \in Users : SignIn(u) \/ RegisterKnown(u))
           \/ (\E b \in BlendIds : Select(b) \/ Leave(b))
  <2>1. Click
    BY <1>6 DEF Create, Refresh, SignIn, RegisterKnown, Select, Leave
  <2>2. ~overlapped /\ stack = <<>> /\ made' = made
    BY <1>0, <2>1, AloneClick DEF Click
  <2>3. Kept \/ \E f : Pushed(f) /\ f.at \in {"open", "auth", "fetch"}
    <3>1. ASSUME NEW o, NEW at \in {"open", "auth", "fetch"}, NEW u, NEW b, NEW people, NEW dialog,
                 Pushes(o, at, u, b, people, dialog)
          PROVE  \E f : Pushed(f) /\ f.at \in {"open", "auth", "fetch"}
      BY <3>1 DEF Pushes, Started
    <3>. QED  BY <1>6, <3>1, PushSteps DEF Stays
  <2>4. ~Saving' /\ ~Saved'
    BY <1>0, <2>2, <2>3, TopAfter DEF Saving, Saved, Same
  <2>5. \A b \in BlendIds : members'[b] \subseteq members[b]
    <3>1. CASE members' = members
      BY <3>1
    <3>2. ASSUME NEW b \in BlendIds, members' = [members EXCEPT ![b] = @ \ {user.id}]
          PROVE  \A c \in BlendIds : members'[c] \subseteq members[c]
      BY <1>0, <3>2 DEF StateType
    <3>. QED
      BY <1>6, <3>1, <3>2 DEF Create, Refresh, SignIn, RegisterKnown, Select, Leave, HandleLeaveBlend
  <2>. QED  BY <2>2, <2>4, <2>5, PlacesElse
<1>7. CASE LoginAuth \/ LoginLoad \/ LoginBlend \/ LoginBuild \/ LoginClose
  <2>1. stack # <<>> /\ Top.op = "login" /\ UNCHANGED <<overlapped, made, members>>
    BY <1>7 DEF LoginAuth, LoginLoad, LoginBlend, LoginBuild, LoginClose, At
  <2>3. ~overlapped
    BY <2>1
  <2>2. Popped \/ \E at, id, people : Moved(at, id, people)
    BY <1>7, LoginSteps DEF Goes, Returns, Ended, Leaves
  <2>. QED  BY <1>0, <2>1, <2>2, <2>3, NoCreation, PlacesElse
<1>8. CASE SelectFetch \/ SelectLoad \/ Rebuild("select") \/ SelectSet \/ SelectClose
  <2>1. stack # <<>> /\ Top.op = "select" /\ UNCHANGED <<overlapped, made, members>>
    BY <1>8 DEF SelectFetch, SelectLoad, Rebuild, SelectSet, SelectClose, At
  <2>3. ~overlapped
    BY <2>1
  <2>2. Popped \/ \E at, id, people : Moved(at, id, people)
    BY <1>8, SelectSteps DEF Goes, Returns, Ended, Leaves
  <2>. QED  BY <1>0, <2>1, <2>2, <2>3, NoCreation, PlacesElse
<1>9. CASE RefreshRead \/ RefreshPool \/ Rebuild("refresh") \/ RefreshSet \/ RefreshClose
  <2>1. stack # <<>> /\ Top.op = "refresh" /\ UNCHANGED <<overlapped, made, members>>
    BY <1>9 DEF RefreshRead, RefreshPool, Rebuild, RefreshSet, RefreshClose, At
  <2>3. ~overlapped
    BY <2>1
  <2>2. Popped \/ \E at, id, people : Moved(at, id, people)
    BY <1>9, SelectSteps, RefreshSteps DEF Goes, Returns, Ended
  <2>. QED  BY <1>0, <2>1, <2>2, <2>3, NoCreation, PlacesElse
<1>10. ASSUME NEW o \in Ops, NEW at \in {"auth", "load", "fetch", "read"}, Dispatch(o, at)
       PROVE  PlacesInv'
  <2>1. /\ ~overlapped /\ stack # <<>> /\ made' = made /\ members' = members
    BY <1>10 DEF Dispatch, At
  <2>2. Moved(at, Top.id, Top.people)
    BY <1>10, DispatchSteps DEF Ats
  <2>. QED  BY <1>0, <2>1, <2>2, NoCreation, PlacesElse
<1>11. CASE CreateLoad \/ CreateClose
  <2>1. /\ ~overlapped /\ stack # <<>> /\ made' = made /\ members' = members
    BY <1>11 DEF CreateLoad, CreateClose, At
  <2>2. Popped \/ Moved("build", Top.id, Top.people) \/ Moved("close", Top.id, Top.people)
    BY <1>11, CreateSteps DEF Goes, Returns, Ended, Leaves
  <2>. QED  BY <1>0, <2>1, <2>2, NoCreation, PlacesElse
<1>12. CASE CreateBuild
  <2>1. ~overlapped /\ stack # <<>> /\ members' = members /\ Top.op = "create"
    BY <1>12 DEF CreateBuild, At
  <2>2. PICK b \in BlendIds :
          /\ NewId(b) /\ made' = made \cup {b}
          /\ owned' = [id |-> b, people |-> Top.people, whose |-> IdOf(user)]
    BY <1>12 DEF CreateBuild
  <2>3. members[b] = {}
    BY <2>1, <2>2 DEF PlacesInv, NewId
  <2>4. CASE Ended
    <3>1. ~Saving' /\ ~Saved'
      BY <1>0, <2>1, <2>4, NoCreation DEF Ended
    <3>. QED  BY <2>1, <2>2, <3>1 DEF PlacesInv
  <2>5. ASSUME NEW valid \in SUBSET Top.people, Moved("save", Top.id, valid) PROVE PlacesInv'
    <3>1. Top'.at = "save" /\ Top'.people = valid
      BY <1>0, <2>5, TopAfter
    <3>2. owned' \in Blend
      <4>1. Top.people \in SUBSET Users /\ IdOf(user) \in Users \cup {None}
        BY <1>0, <2>1, TopTypes, UserType
      <4>. QED  BY <1>0, <2>2, <4>1, BlendTypes
    <3>3. owned' # None /\ owned'.id = b /\ owned'.people = Top.people
      BY <2>2, <3>2, NullType
    <3>. QED  BY <2>1, <2>2, <2>3, <3>1, <3>3 DEF PlacesInv, Saving, Saved
  <2>. QED  BY <1>12, <2>4, <2>5, CreateSteps DEF Goes, Returns
<1>13. CASE CreateSave
  <2>1. /\ ~overlapped /\ stack # <<>> /\ Saving /\ owned' = owned /\ made' = made
    BY <1>13 DEF CreateSave, At, Saving
  <2>2. /\ owned # None /\ owned.id \in made /\ members[owned.id] = {}
        /\ Top.people \subseteq owned.people
    BY <2>1 DEF PlacesInv
  <2>3. CASE Goto("enrich") /\ UNCHANGED reporter
             /\ members' = [members EXCEPT ![owned.id] = Top.people]
    <3>1. Moved("enrich", Top.id, Top.people)
      BY <1>0, <2>1, <2>3, Gotos DEF Ats, StackType
    <3>2. Top'.at = "enrich"
      BY <1>0, <3>1, TopAfter
    <3>3. owned.id \in BlendIds
      BY <1>0, <2>2 DEF StateType
    <3>4. members'[owned.id] = Top.people
          /\ \A b \in BlendIds : b = owned.id \/ members'[b] = members[b]
      BY <1>0, <2>3, <3>3 DEF StateType
    <3>. QED  BY <2>1, <2>2, <3>2, <3>4 DEF PlacesInv, Saving, Saved
  <2>4. CASE Return /\ UNCHANGED members
    <3>1. Ended
      BY <1>0, <2>1, <2>4, Returnings DEF Return, Returns
    <3>. QED  BY <1>0, <2>1, <2>4, <3>1, NoCreation, PlacesElse DEF Ended
  <2>. QED  BY <1>13, <2>3, <2>4 DEF CreateSave
<1>14. CASE CreateEnrich
  <2>1. /\ ~overlapped /\ stack # <<>> /\ Saved /\ UNCHANGED <<owned, made, members>>
    BY <1>14 DEF CreateEnrich, At, Saved
  <2>2. Top'.at = "again"
    BY <1>0, <1>14, CreateSteps, TopAfter DEF Goes
  <2>. QED  BY <2>1, <2>2 DEF PlacesInv, Saving, Saved
<1>15. CASE CreateAgain
  <2>1. /\ ~overlapped /\ stack # <<>> /\ Saved /\ UNCHANGED <<owned, made>>
    BY <1>15 DEF CreateAgain, At, Saved
  <2>2. Ended
    BY <1>15, CreateSteps DEF Returns
  <2>3. ~Saving' /\ ~Saved'
    BY <1>0, <2>1, <2>2, NoCreation DEF Ended
  <2>4. owned.id \in made /\ \A b \in BlendIds : b = owned.id \/ members'[b] = members[b]
    BY <1>0, <1>15, <2>1 DEF CreateAgain, RegisterBlendOnServer, PlacesInv, StateType
  <2>. QED  BY <2>1, <2>3, <2>4 DEF PlacesInv
<1>16. CASE UNCHANGED vars
  <2>1. ~overlapped /\ UNCHANGED <<members, made, owned>> /\ stack' = stack
    BY <1>16 DEF vars
  <2>. QED  BY <1>0, <2>1, Kepts, PlacesKept
<1>. QED
  BY <1>2, <1>3, <1>4, <1>5, <1>6, <1>7, <1>8, <1>9, <1>10, <1>11, <1>12, <1>13, <1>14, <1>15,
     <1>16 DEF Next, Ops

\* Who loses his place.
LEMMA PlacesLost ==
  ASSUME Types, AloneInv, PlacesInv, Next, ~overlapped', NEW b \in BlendIds,
         NEW u \in members[b] \ members'[b]
  PROVE  u \notin accounts' \/ (page = "ACTIVE_BLENDS" /\ u = user.id)
<1> USE DEF process, app, ui, server, history
<1>0. StateType
  BY DEF Types
<1>1. ASSUME NEW gone, ServerForgets(gone) PROVE u \notin accounts'
  BY <1>0, <1>1 DEF ServerForgets, StateType
<1>2. CASE members' = members
  BY <1>2
<1>3. CASE Exit \/ LogOut \/ DeleteAccount \/ DeleteUnanswered
  BY <1>1, <1>2, <1>3 DEF Exit, LogOut, DeleteAccount, DeleteUnanswered, HandleDeleteAccount,
     HandleLogout
<1>4. CASE CreateSave \/ CreateUnanswered
  <2>1. ~overlapped /\ Saving
    BY <1>4 DEF CreateSave, CreateUnanswered, Forget, At, Saving
  <2>2. members[owned.id] = {}
    BY <2>1 DEF PlacesInv
  <2>3. members' = members \/ members' = [members EXCEPT ![owned.id] = Top.people]
    BY <1>4 DEF CreateSave, CreateUnanswered
  <2>. QED  BY <1>0, <2>2, <2>3 DEF StateType
<1>5. CASE CreateAgain
  <2>1. ~overlapped /\ Saved
    BY <1>5 DEF CreateAgain, At, Saved
  <2>2. members[owned.id] \subseteq owned.people
    BY <2>1 DEF PlacesInv
  <2>3. members' = members \/ members' = [members EXCEPT ![owned.id] = owned.people]
    BY <1>5 DEF CreateAgain, RegisterBlendOnServer
  <2>. QED  BY <1>0, <2>2, <2>3 DEF StateType
<1>6. ASSUME NEW c \in BlendIds, Leave(c) PROVE page = "ACTIVE_BLENDS" /\ u = user.id
  BY <1>0, <1>6 DEF Leave, HandleLeaveBlend, RebuildList, StateType
<1>7. CASE \/ Start \/ RegisterRefused \/ LoginAuth \/ LoginLoad \/ LoginBlend \/ LoginBuild
           \/ LoginClose \/ UploadFails \/ UploadThenThrow \/ Create \/ CreateLoad \/ CreateBuild
           \/ CreateEnrich \/ CreateClose \/ SelectFetch \/ SelectLoad \/ SelectSet \/ SelectClose
           \/ Refresh \/ RefreshRead \/ RefreshPool \/ RefreshSet \/ RefreshClose \/ Navigate
           \/ PollTimer \/ Throws \/ NullBlend \/ Fault
           \/ \E o, at : Dispatch(o, at) \/ Rebuild(o)
           \/ \E v \in Users : SignIn(v) \/ RegisterNew(v) \/ RegisterKnown(v) \/ AddUser(v) \/ RemoveUser(v)
           \/ \E data \in BOOLEAN : Upload(data)
           \/ \E c \in BlendIds : Select(c)
  <2>1. members' = members
    BY <1>7 DEF Start, RegisterRefused, LoginAuth, LoginLoad, LoginBlend, LoginBuild, LoginClose,
       UploadFails, UploadThenThrow, Create, CreateLoad, CreateBuild, CreateEnrich, CreateClose,
       SelectFetch, SelectLoad, SelectSet, SelectClose, Refresh, RefreshRead, RefreshPool,
       RefreshSet, RefreshClose, Navigate, PollTimer, Throws, NullBlend, Fault, Die, Dispatch,
       Rebuild, SignIn, RegisterNew, RegisterKnown, AddUser, RemoveUser, Upload, Select
  <2>. QED  BY <1>2, <2>1
<1>. QED  BY <1>3, <1>4, <1>5, <1>6, <1>7 DEF Next

LEMMA PlacesInit == Init => PlacesInv
  BY DEF Init, Memory, PlacesInv, Saving, Saved

\* The two POSTs of a creation replace the participants of a blend.  As long as
\* operations do not overlap, they put nobody out, also when the first one's
\* answer is lost: ids are new, and the second names everybody the first did.
THEOREM PlacesAreKept == Spec => NobodyIsPutOut
<1>1. Init => DialogInv /\ AloneInv /\ PlacesInv
  BY DialogInit, AloneInit, PlacesInit
<1>2. DialogInv /\ AloneInv /\ PlacesInv /\ [Next]_vars => (DialogInv /\ AloneInv /\ PlacesInv)'
  BY DialogNext, AloneStep, PlacesStep DEF DialogInv
<1>3. DialogInv /\ AloneInv /\ PlacesInv /\ [Next]_vars
        => [\A b \in BlendIds : \A u \in members[b] \ members'[b] :
               \/ overlapped' \/ u \notin accounts'
               \/ page = "ACTIVE_BLENDS" /\ u = user.id]_vars
  <2>. SUFFICES ASSUME DialogInv, AloneInv, PlacesInv, Next, ~overlapped', NEW b \in BlendIds,
                       NEW u \in members[b] \ members'[b]
                PROVE  u \notin accounts' \/ (page = "ACTIVE_BLENDS" /\ u = user.id)
    OBVIOUS
  <2>. QED  BY PlacesLost DEF DialogInv
<1>. QED  BY <1>1, <1>2, <1>3, PTL DEF Spec, NobodyIsPutOut
=============================================================================
