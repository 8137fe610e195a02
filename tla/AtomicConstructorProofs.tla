------------------------ MODULE AtomicConstructorProofs ------------------------
(***************************************************************************)
(* Proofs about AtomicConstructor, for any number of blocks, pointers and  *)
(* members, and any depth of nesting.                                      *)
(***************************************************************************)
EXTENDS AtomicConstructor, TLAPS, NaturalsInduction, WellFoundedInduction,
        SequenceTheorems, FiniteSetTheorems

-----------------------------------------------------------------------------
(***************************************************************************)
(* The inductive invariant.  Its parts are stated of values, so that the   *)
(* lemmas can be stated of the values before and after a step.             *)
(***************************************************************************)

Frame == [blk : Block, place : Place, old : Block \union {Null},
          stage : {"make", "release"}]

(* The places that the n-th call inside the allocator can work on: the     *)
(* program's, or the members of the object that the call before it makes.  *)
PlacesOf(st, n) ==
    IF n = 1 THEN ProgramPlace ELSE MemberPlaces(st[n - 1].blk)

(* Only the innermost call can have published its block.  Every call has a *)
(* block of its own, and until it publishes it, its pointer holds what it  *)
(* held when the call began.                                               *)
ChainOK(st, s, q) ==
    /\ st \in Seq(Frame)
    /\ \A n \in 1..Len(st) :
          /\ st[n].place \in PlacesOf(st, n)
          /\ n < Len(st) => st[n].stage = "make"
          /\ st[n].stage = "make" => /\ s[st[n].blk] = "reserved"
                                     /\ q[st[n].place] = st[n].old
          /\ \A m \in 1..Len(st) : m # n => st[m].blk # st[n].blk

(* The objects that are being made, and the places that can be followed.   *)
MakingOf(st) == {st[n].blk : n \in {m \in 1..Len(st) : st[m].stage = "make"}}
LiveOf(st, s) == ProgramPlace
                    \union UNION {MemberPlaces(b) :
                                     b \in {c \in Block : s[c] = "used"} \union MakingOf(st)}

(* Followed pointers lead to allocated objects, and no two to the same but *)
(* copies that the program made.                                           *)
OwnOK(live, s, q) ==
    \A x, y \in live :
        q[x] # Null => /\ s[q[x]] = "used"
                       /\ (x # y /\ q[x] = q[y] => x \in ProgramPlace /\ y \in ProgramPlace)

(* What a call is to replace is followed from nowhere else.                *)
SoleOK(st, live, q) ==
    \A n \in 1..Len(st) :
        st[n].stage = "make" /\ st[n].old # Null
            => \A x \in live : x # st[n].place => q[x] # st[n].old

(* What replace_ctr is about to free is allocated, and is not pointed to;  *)
(* the pointer leads to what replaced it.                                  *)
ReleaseOK(st, live, s, q) ==
    (st # <<>> /\ st[Len(st)].stage = "release")
        => /\ st[Len(st)].old \in Block
           /\ s[st[Len(st)].old] = "used"
           /\ \A x \in live : q[x] # st[Len(st)].old
           /\ q[st[Len(st)].place] = st[Len(st)].blk

(* An exception is thrown in a make(), and the finished objects are those  *)
(* that are allocated.                                                     *)
Calls == /\ state \in [Block -> {"free", "reserved", "used"}]
         /\ ptr \in [Place -> Block \union {Null}]
         /\ made = {b \in Block : state[b] = "used"}
         /\ exc \in Exception \union {"none"}
         /\ exc # "none" => stack # <<>> /\ Top.stage = "make"
         /\ reply \in Exception \union {"none", "ok"}
         /\ crashes \in 0..MaxCrashes

OwnInv == /\ Calls
          /\ ChainOK(stack, state, ptr)
          /\ OwnOK(LiveOf(stack, state), state, ptr)
          /\ SoleOK(stack, LiveOf(stack, state), ptr)
          /\ ReleaseOK(stack, LiveOf(stack, state), state, ptr)

-----------------------------------------------------------------------------
(***************************************************************************)
(* Places, and sequences of frames.                                        *)
(***************************************************************************)

(* A pointer is in one place: the members of an object are not those of    *)
(* another, nor the program's.                                             *)
LEMMA PlacesApart ==
    /\ \A b \in Block : MemberPlaces(b) \subseteq Place
    /\ ProgramPlace \subseteq Place
    /\ \A b, x : x \in MemberPlaces(b) /\ b \in Block => x \notin ProgramPlace
    /\ \A b, c, x : x \in MemberPlaces(b) /\ x \in MemberPlaces(c) => b = c
    /\ Ret \notin RootPlace
    /\ Ret \in ProgramPlace /\ RootPlace \subseteq ProgramPlace
BY PlacesAssumption DEF MemberPlaces, RootPlace, ProgramPlace, Ret, Place

(* The places that can be followed, one by one.                            *)
LEMMA LiveMember ==
    \A st, s, x : x \in LiveOf(st, s)
        <=> \/ x \in ProgramPlace
            \/ \E b \in Block : s[b] = "used" /\ x \in MemberPlaces(b)
            \/ \E b \in MakingOf(st) : x \in MemberPlaces(b)
BY DEF LiveOf

(* LivePlaces of the module is LiveOf of its state.                        *)
LEMMA LiveIs == LivePlaces = LiveOf(stack, state) /\ InFrames = MakingOf(stack)
<1>1. InFrames = MakingOf(stack)
  BY DEF InFrames, Frames, MakingOf
<1> QED BY <1>1 DEF LivePlaces, LiveOf

(* Leaving the innermost call.                                             *)
LEMMA PopFacts ==
    ASSUME NEW S, NEW st \in Seq(S), st # <<>>
    PROVE  /\ Len(st) \in Nat /\ Len(st) >= 1
           /\ SubSeq(st, 1, Len(st) - 1) \in Seq(S)
           /\ Len(SubSeq(st, 1, Len(st) - 1)) = Len(st) - 1
           /\ \A n \in 1..(Len(st) - 1) : SubSeq(st, 1, Len(st) - 1)[n] = st[n]
           /\ SubSeq(st, 1, Len(st) - 1) = <<>> <=> Len(st) = 1
<1>1. Len(st) \in Nat /\ Len(st) >= 1
  OBVIOUS
<1> DEFINE m == Len(st) - 1
<1>2. m \in Int /\ m >= 0 /\ \A i \in 1..m : st[i] \in S
  BY <1>1
<1> HIDE DEF m
<1>a. /\ SubSeq(st, 1, m) \in Seq(S)
      /\ Len(SubSeq(st, 1, m)) = IF 1 <= m THEN m - 1 + 1 ELSE 0
      /\ \A i \in 1..(m - 1 + 1) : SubSeq(st, 1, m)[i] = st[1 + i - 1]
  BY <1>2, SubSeqProperties
<1>b. m - 1 + 1 = m /\ (IF 1 <= m THEN m - 1 + 1 ELSE 0) = m
      /\ \A i \in 1..m : 1 + i - 1 = i
  BY <1>2
<1>c. \A n \in 1..m : SubSeq(st, 1, m)[n] = st[n]
  BY <1>a, <1>b
<1>3. SubSeq(st, 1, m) \in Seq(S) /\ Len(SubSeq(st, 1, m)) = m
      /\ \A n \in 1..m : SubSeq(st, 1, m)[n] = st[n]
  BY <1>a, <1>b, <1>c
<1>4. m = 0 <=> Len(st) = 1
  BY <1>1 DEF m
<1>5. SubSeq(st, 1, m) = <<>> <=> Len(st) = 1
  BY <1>3, <1>4
<1> QED BY <1>1, <1>3, <1>5 DEF m

(* Entering a call.                                                        *)
LEMMA PushFacts ==
    ASSUME NEW S, NEW st \in Seq(S), NEW f \in S
    PROVE  /\ Len(st) \in Nat
           /\ Append(st, f) \in Seq(S)
           /\ Len(Append(st, f)) = Len(st) + 1
           /\ \A n \in 1..Len(st) : Append(st, f)[n] = st[n]
           /\ Append(st, f)[Len(st) + 1] = f
           /\ Append(st, f) # <<>>
OBVIOUS

(* The innermost call goes on to free what it replaced.                    *)
LEMMA StageFacts ==
    ASSUME NEW st \in Seq(Frame), st # <<>>, NEW st2,
           st2 = [st EXCEPT ![Len(st)].stage = "release"]
    PROVE  /\ Len(st) \in Nat /\ Len(st) >= 1
           /\ st2 \in Seq(Frame)
           /\ Len(st2) = Len(st)
           /\ \A n \in 1..(Len(st) - 1) : st2[n] = st[n]
           /\ st2[Len(st)] = [st[Len(st)] EXCEPT !.stage = "release"]
           /\ st2[Len(st)].blk = st[Len(st)].blk
           /\ st2[Len(st)].place = st[Len(st)].place
           /\ st2[Len(st)].old = st[Len(st)].old
           /\ st2[Len(st)].stage = "release"
           /\ st2 # <<>>
<1>1. Len(st) \in Nat /\ Len(st) >= 1
  OBVIOUS
<1>2. st[Len(st)] \in Frame
  BY <1>1
<1> DEFINE f == [st[Len(st)] EXCEPT !.stage = "release"]
<1>3. f \in Frame /\ f.blk = st[Len(st)].blk /\ f.place = st[Len(st)].place
      /\ f.old = st[Len(st)].old /\ f.stage = "release"
  BY <1>2 DEF Frame
<1>4. st2 = [st EXCEPT ![Len(st)] = f]
  OBVIOUS
<1> HIDE DEF f
<1>5. st2 \in Seq(Frame) /\ Len(st2) = Len(st) /\ st2[Len(st)] = f
      /\ \A n \in 1..(Len(st) - 1) : st2[n] = st[n]
  BY <1>1, <1>3, <1>4
<1> QED BY <1>1, <1>3, <1>5 DEF f

-----------------------------------------------------------------------------
(***************************************************************************)
(* The calls inside the allocator.                                         *)
(***************************************************************************)

(* The call before one that has a call inside it.                          *)
LEMMA Before ==
    ASSUME NEW k \in Nat, NEW n \in 1..k, n # 1
    PROVE  n - 1 \in 1..k /\ n - 1 < k /\ n - 1 # n
OBVIOUS

(* The place of a call can be followed, and is nobody else's: it is the    *)
(* program's, or a member of an object that is being made.                 *)
LEMMA CallPlaces ==
    ASSUME NEW st, NEW s, NEW q, ChainOK(st, s, q)
    PROVE  /\ Len(st) \in Nat
           /\ \A n \in 1..Len(st) : st[n] \in Frame
           /\ \A n \in 1..Len(st) : st[n].place \in LiveOf(st, s)
           /\ \A n \in 1..Len(st) : \A b \in Block : s[b] # "reserved"
                  => st[n].place \notin MemberPlaces(b)
           /\ \A n \in 1..Len(st) : st[n].place \notin MemberPlaces(st[Len(st)].blk)
<1>1. Len(st) \in Nat
  BY DEF ChainOK
<1>2. \A n \in 1..Len(st) : st[n] \in Frame
  BY <1>1 DEF ChainOK
<1>3. ASSUME NEW n \in 1..Len(st), n # 1
      PROVE  /\ n - 1 \in 1..Len(st) /\ n - 1 < Len(st)
             /\ st[n - 1].blk \in Block /\ s[st[n - 1].blk] = "reserved"
             /\ st[n - 1].blk \in MakingOf(st)
             /\ st[n].place \in MemberPlaces(st[n - 1].blk)
  <2>1. n - 1 \in 1..Len(st) /\ n - 1 < Len(st)
    BY <1>1, <1>3, Before
  <2>2. st[n - 1].stage = "make" /\ s[st[n - 1].blk] = "reserved"
    BY <2>1 DEF ChainOK
  <2>3. st[n - 1].blk \in Block
    BY <2>1, <1>2 DEF Frame
  <2>4. st[n - 1].blk \in MakingOf(st)
    BY <2>1, <2>2 DEF MakingOf
  <2>5. st[n].place \in MemberPlaces(st[n - 1].blk)
    BY <1>3 DEF ChainOK, PlacesOf
  <2> QED BY <2>1, <2>2, <2>3, <2>4, <2>5
<1>4. ASSUME NEW n \in 1..Len(st), n = 1 PROVE st[n].place \in ProgramPlace
  BY <1>4 DEF ChainOK, PlacesOf
<1>5. ASSUME NEW n \in 1..Len(st) PROVE st[n].place \in LiveOf(st, s)
  <2>1. CASE n = 1
    BY <1>4, <2>1, LiveMember
  <2>2. CASE n # 1
    BY <1>3, <2>2, LiveMember
  <2> QED BY <2>1, <2>2
<1>6. ASSUME NEW n \in 1..Len(st), NEW b \in Block, s[b] # "reserved"
      PROVE  st[n].place \notin MemberPlaces(b)
  <2>1. CASE n = 1
    BY <1>4, <2>1, PlacesApart
  <2>2. CASE n # 1
    BY <1>3, <1>6, <2>2, PlacesApart
  <2> QED BY <2>1, <2>2
<1>7. ASSUME NEW n \in 1..Len(st) PROVE st[n].place \notin MemberPlaces(st[Len(st)].blk)
  <2>1. Len(st) \in 1..Len(st) /\ st[Len(st)].blk \in Block
    BY <1>1, <1>2 DEF Frame
  <2>2. CASE n = 1
    BY <1>4, <2>1, <2>2, PlacesApart
  <2>3. CASE n # 1
    <3>1. n - 1 # Len(st)
      BY <1>1, <1>3, <2>3
    <3>2. st[n - 1].blk # st[Len(st)].blk
      BY <1>3, <2>1, <2>3, <3>1 DEF ChainOK
    <3> QED BY <1>3, <2>1, <2>3, <3>2, PlacesApart
  <2> QED BY <2>2, <2>3
<1> QED BY <1>1, <1>2, <1>5, <1>6, <1>7

(* Two calls work on two places.                                           *)
LEMMA CallPlacesDiffer ==
    ASSUME NEW st, NEW s, NEW q, ChainOK(st, s, q),
           NEW m \in 1..Len(st), NEW n \in 1..Len(st), m # n
    PROVE  st[m].place # st[n].place
<1>1. Len(st) \in Nat /\ \A k \in 1..Len(st) : st[k] \in Frame
  BY CallPlaces
<1>2. ASSUME NEW k \in 1..Len(st), k # 1
      PROVE  /\ k - 1 \in 1..Len(st) /\ st[k - 1].blk \in Block
             /\ st[k].place \in MemberPlaces(st[k - 1].blk)
  <2>1. k - 1 \in 1..Len(st)
    BY <1>1, <1>2, Before
  <2>2. st[k].place \in MemberPlaces(st[k - 1].blk)
    BY <1>2 DEF ChainOK, PlacesOf
  <2> QED BY <1>1, <2>1, <2>2 DEF Frame
<1>3. \A k \in 1..Len(st) : k = 1 => st[k].place \in ProgramPlace
  BY DEF ChainOK, PlacesOf
<1>4. CASE m = 1
  BY <1>2, <1>3, <1>4, PlacesApart
<1>5. CASE n = 1
  BY <1>2, <1>3, <1>5, PlacesApart
<1>6. CASE m # 1 /\ n # 1
  <2>1. m - 1 # n - 1
    BY <1>1
  <2>2. st[m - 1].blk # st[n - 1].blk
    BY <1>2, <1>6, <2>1 DEF ChainOK
  <2> QED BY <1>2, <1>6, <2>2, PlacesApart
<1> QED BY <1>4, <1>5, <1>6

(* Calls that go on, while nothing of them is touched.                     *)
LEMMA ChainKeeps ==
    ASSUME NEW st, NEW s, NEW q, ChainOK(st, s, q),
           NEW st2 \in Seq(Frame), Len(st2) <= Len(st),
           \A n \in 1..Len(st2) : st2[n] = st[n],
           NEW s2, NEW q2,
           \A n \in 1..Len(st2) : st[n].stage = "make"
               => s2[st[n].blk] = s[st[n].blk] /\ q2[st[n].place] = q[st[n].place]
    PROVE  ChainOK(st2, s2, q2)
<1>1. Len(st) \in Nat /\ Len(st2) \in Nat
  BY DEF ChainOK
<1>2. \A n \in 1..Len(st2) : n \in 1..Len(st) /\ (n < Len(st2) => n < Len(st))
  BY <1>1
<1>3. ASSUME NEW n \in 1..Len(st2) PROVE st2[n].place \in PlacesOf(st2, n)
  <2>1. st2[n].place \in PlacesOf(st, n)
    BY <1>2 DEF ChainOK
  <2>2. CASE n = 1
    BY <2>1, <2>2 DEF PlacesOf
  <2>3. CASE n # 1
    <3>1. n - 1 \in 1..Len(st2)
      BY <1>1, <2>3, Before
    <3>2. st2[n - 1] = st[n - 1]
      BY <3>1
    <3> QED BY <2>1, <3>2 DEF PlacesOf
  <2> QED BY <2>2, <2>3
<1>4. ASSUME NEW n \in 1..Len(st2)
      PROVE  /\ n < Len(st2) => st2[n].stage = "make"
             /\ \A m \in 1..Len(st2) : m # n => st2[m].blk # st2[n].blk
  BY <1>2 DEF ChainOK
<1>5. ASSUME NEW n \in 1..Len(st2), st2[n].stage = "make"
      PROVE  s2[st2[n].blk] = "reserved" /\ q2[st2[n].place] = st2[n].old
  BY <1>2, <1>5 DEF ChainOK
<1> QED BY <1>3, <1>4, <1>5 DEF ChainOK

(* A call that begins, on a block that was free.                           *)
LEMMA ChainGrows ==
    ASSUME NEW st, NEW s, NEW q, ChainOK(st, s, q),
           \A n \in 1..Len(st) : st[n].stage = "make",
           NEW f \in Frame, f.stage = "make", s[f.blk] # "reserved",
           f.place \in PlacesOf(st, Len(st) + 1),
           NEW s2, NEW q2, s2[f.blk] = "reserved", q2[f.place] = f.old,
           \A n \in 1..Len(st) :
               s2[st[n].blk] = s[st[n].blk] /\ q2[st[n].place] = q[st[n].place]
    PROVE  ChainOK(Append(st, f), s2, q2)
<1> DEFINE st2 == Append(st, f)
<1>1. st \in Seq(Frame)
  BY DEF ChainOK
<1>2. /\ Len(st) \in Nat /\ st2 \in Seq(Frame) /\ Len(st2) = Len(st) + 1
      /\ \A n \in 1..Len(st) : st2[n] = st[n]
      /\ st2[Len(st) + 1] = f
  BY <1>1, PushFacts
<1> HIDE DEF st2
<1>3. \A n \in 1..Len(st2) : n = Len(st) + 1 \/ n \in 1..Len(st)
  BY <1>2
<1>4. \A n \in 1..Len(st) : s[st[n].blk] = "reserved" /\ q[st[n].place] = st[n].old
                            /\ st[n].place \in PlacesOf(st, n)
                            /\ \A m \in 1..Len(st) : m # n => st[m].blk # st[n].blk
  BY DEF ChainOK
<1>5. \A n \in 1..Len(st2) : PlacesOf(st2, n) = PlacesOf(st, n)
  <2>1. \A n \in 1..Len(st2) : n # 1 => n - 1 \in 1..Len(st)
    BY <1>2
  <2> QED BY <1>2, <2>1 DEF PlacesOf
<1>6. ASSUME NEW n \in 1..Len(st2)
      PROVE  /\ st2[n].place \in PlacesOf(st2, n)
             /\ st2[n].stage = "make"
             /\ s2[st2[n].blk] = "reserved" /\ q2[st2[n].place] = st2[n].old
  BY <1>2, <1>3, <1>4, <1>5
<1>7. ASSUME NEW n \in 1..Len(st2), NEW m \in 1..Len(st2), m # n
      PROVE  st2[m].blk # st2[n].blk
  <2>1. CASE m \in 1..Len(st) /\ n \in 1..Len(st)
    BY <1>2, <1>4, <1>7, <2>1
  <2>2. CASE m = Len(st) + 1
    BY <1>2, <1>3, <1>4, <1>7, <2>2
  <2>3. CASE n = Len(st) + 1
    BY <1>2, <1>3, <1>4, <1>7, <2>3
  <2> QED BY <1>3, <2>1, <2>2, <2>3
<1>8. ChainOK(st2, s2, q2)
  BY <1>2, <1>6, <1>7 DEF ChainOK
<1> QED BY <1>8 DEF st2

-----------------------------------------------------------------------------
(***************************************************************************)
(* The pointers.                                                           *)
(***************************************************************************)

(* Pointers that are made null, or stay, still own what they lead to.      *)
LEMMA OwnFewer ==
    ASSUME NEW L1, NEW s1, NEW q1, OwnOK(L1, s1, q1),
           NEW L2, NEW s2, NEW q2,
           \A x \in L2 : \/ q2[x] = Null
                         \/ /\ x \in L1 /\ q2[x] = q1[x]
                            /\ s1[q1[x]] = "used" => s2[q1[x]] = "used"
    PROVE  OwnOK(L2, s2, q2)
BY DEF OwnOK

(* What is not looked at again needs no owner: pointers that stay, become  *)
(* null, or lead to a block that was not in use, leave what is to be       *)
(* replaced followed from nowhere else.                                    *)
LEMMA SoleKeeps ==
    ASSUME OwnInv,
           \A n \in 1..Len(stack') :
               stack'[n].stage = "make" => n \in 1..Len(stack) /\ stack'[n] = stack[n],
           \A x \in LiveOf(stack', state') :
               \/ ptr'[x] = Null
               \/ x \in LiveOf(stack, state) /\ ptr'[x] = ptr[x]
               \/ state[ptr'[x]] # "used"
    PROVE  SoleOK(stack', LiveOf(stack', state'), ptr')
<1> SUFFICES ASSUME NEW n \in 1..Len(stack'), stack'[n].stage = "make", stack'[n].old # Null,
                    NEW x \in LiveOf(stack', state'), x # stack'[n].place
             PROVE  ptr'[x] # stack'[n].old
  BY DEF SoleOK
<1>1. n \in 1..Len(stack) /\ stack'[n] = stack[n]
  OBVIOUS
<1>2. /\ ChainOK(stack, state, ptr) /\ OwnOK(LiveOf(stack, state), state, ptr)
      /\ SoleOK(stack, LiveOf(stack, state), ptr)
  BY DEF OwnInv
<1>3. stack[n].place \in LiveOf(stack, state) /\ ptr[stack[n].place] = stack[n].old
  BY <1>1, <1>2, CallPlaces DEF ChainOK
<1>4. state[stack[n].old] = "used"
  BY <1>1, <1>2, <1>3 DEF OwnOK
<1>5. x \in LiveOf(stack, state) => ptr[x] # stack[n].old
  BY <1>1, <1>2 DEF SoleOK
<1> QED BY <1>1, <1>4, <1>5

(* A pointer that can be used can be followed, and no call is at work on   *)
(* it; the innermost call is in its make().                                *)
LEMMA Usable ==
    ASSUME OwnInv, NEW p, CanUse(p)
    PROVE  /\ p \in LiveOf(stack, state) /\ p \in Place
           /\ p \in PlacesOf(stack, Len(stack) + 1)
           /\ \A n \in 1..Len(stack) : stack[n].place # p /\ stack[n].stage = "make"
           /\ stack # <<>> => stack[Len(stack)].stage = "make"
<1>1. ChainOK(stack, state, ptr) /\ stack \in Seq(Frame) /\ Len(stack) \in Nat
  BY DEF OwnInv, ChainOK
<1>2. CASE Idle /\ p \in ProgramPlace
  <2>1. Len(stack) = 0 /\ Len(stack) + 1 = 1
    BY <1>2 DEF Idle
  <2>2. p \in PlacesOf(stack, Len(stack) + 1)
    BY <1>2, <2>1 DEF PlacesOf
  <2>3. \A n \in 1..Len(stack) : FALSE
    BY <2>1
  <2> QED BY <1>2, <2>2, <2>3, LiveMember, PlacesApart DEF Idle
<1>3. CASE Making /\ p \in MemberPlaces(Top.blk)
  <2>1. Len(stack) \in 1..Len(stack) /\ Len(stack) + 1 # 1 /\ Len(stack) + 1 - 1 = Len(stack)
    BY <1>1, <1>3 DEF Making, Idle
  <2>2. stack[Len(stack)] \in Frame /\ stack[Len(stack)].stage = "make"
    BY <1>1, <1>3, <2>1, CallPlaces DEF Making, Top
  <2>3. stack[Len(stack)].blk \in MakingOf(stack) /\ stack[Len(stack)].blk \in Block
    BY <2>1, <2>2 DEF MakingOf, Frame
  <2>4. p \in LiveOf(stack, state) /\ p \in Place
    BY <1>3, <2>3, LiveMember, PlacesApart DEF Top
  <2>5. p \in PlacesOf(stack, Len(stack) + 1)
    BY <1>3, <2>1 DEF PlacesOf, Top
  <2>6. \A n \in 1..Len(stack) : stack[n].place # p
    BY <1>1, <1>3, CallPlaces DEF Top
  <2>7. \A n \in 1..Len(stack) : n = Len(stack) \/ n < Len(stack)
    BY <1>1
  <2>8. \A n \in 1..Len(stack) : stack[n].stage = "make"
    BY <1>1, <2>2, <2>7 DEF ChainOK
  <2> QED BY <2>2, <2>4, <2>5, <2>6, <2>8
<1> QED BY <1>2, <1>3 DEF CanUse

(* The calls that are left when the innermost one ends, or that go on:     *)
(* what they make is what they made.                                       *)
LEMMA MakingLeft ==
    ASSUME NEW st \in Seq(Frame), NEW st2 \in Seq(Frame), Len(st2) <= Len(st),
           \A n \in 1..Len(st2) : st2[n] = st[n]
    PROVE  MakingOf(st2) \subseteq MakingOf(st)
<1>1. \A n \in 1..Len(st2) : n \in 1..Len(st)
  OBVIOUS
<1> QED BY <1>1 DEF MakingOf

(* The innermost call ends: its object is no longer being made.            *)
LEMMA MakingPopped ==
    ASSUME NEW st, NEW s, NEW q, ChainOK(st, s, q), st # <<>>,
           NEW st2, st2 = SubSeq(st, 1, Len(st) - 1)
    PROVE  /\ MakingOf(st2) = MakingOf(st) \ {st[Len(st)].blk}
           /\ st[Len(st)].stage = "make" => st[Len(st)].blk \in MakingOf(st)
<1>1. st \in Seq(Frame)
  BY DEF ChainOK
<1>2. /\ Len(st) \in Nat /\ Len(st) >= 1 /\ Len(st2) = Len(st) - 1
      /\ \A n \in 1..(Len(st) - 1) : st2[n] = st[n]
  BY <1>1, PopFacts
<1>3. \A n : n \in 1..Len(st) <=> n \in 1..(Len(st) - 1) \/ n = Len(st)
  BY <1>2
<1>4. Len(st) \in 1..Len(st) /\ \A n \in 1..(Len(st) - 1) : n # Len(st)
  BY <1>2
<1>5. \A n \in 1..(Len(st) - 1) : st[n].blk # st[Len(st)].blk
  BY <1>3, <1>4 DEF ChainOK
<1>6. ASSUME NEW b \in MakingOf(st2) PROVE b \in MakingOf(st) /\ b # st[Len(st)].blk
  <2>1. PICK n \in 1..(Len(st) - 1) : b = st2[n].blk /\ st2[n].stage = "make"
    BY <1>2 DEF MakingOf
  <2>2. n \in 1..Len(st) /\ b = st[n].blk /\ st[n].stage = "make"
    BY <1>2, <1>3, <2>1
  <2> QED BY <1>5, <2>1, <2>2 DEF MakingOf
<1>7. ASSUME NEW b \in MakingOf(st), b # st[Len(st)].blk PROVE b \in MakingOf(st2)
  <2>1. PICK n \in 1..Len(st) : b = st[n].blk /\ st[n].stage = "make"
    BY DEF MakingOf
  <2>2. n \in 1..(Len(st) - 1)
    BY <1>3, <1>7, <2>1
  <2>3. n \in 1..Len(st2) /\ st2[n].blk = b /\ st2[n].stage = "make"
    BY <1>2, <2>1, <2>2
  <2> QED BY <2>3 DEF MakingOf
<1>8. st[Len(st)].stage = "make" => st[Len(st)].blk \in MakingOf(st)
  BY <1>4 DEF MakingOf
<1> QED BY <1>6, <1>7, <1>8

(* A call begins: its object is being made.                                *)
LEMMA MakingPushed ==
    ASSUME NEW st \in Seq(Frame), NEW f \in Frame, f.stage = "make"
    PROVE  MakingOf(Append(st, f)) = MakingOf(st) \union {f.blk}
<1> DEFINE st2 == Append(st, f)
<1>1. /\ Len(st) \in Nat /\ Len(st2) = Len(st) + 1
      /\ \A n \in 1..Len(st) : st2[n] = st[n]
      /\ st2[Len(st) + 1] = f
  BY PushFacts
<1> HIDE DEF st2
<1>2. \A n : n \in 1..Len(st2) <=> n \in 1..Len(st) \/ n = Len(st) + 1
  BY <1>1
<1>3. \A b : b \in MakingOf(st2) <=> \E n \in 1..Len(st2) : st2[n].stage = "make" /\ b = st2[n].blk
  BY DEF MakingOf
<1>4. \A b : b \in MakingOf(st) <=> \E n \in 1..Len(st) : st[n].stage = "make" /\ b = st[n].blk
  BY DEF MakingOf
<1>5. \A b : b \in MakingOf(st2) <=> b \in MakingOf(st) \/ b = f.blk
  BY <1>1, <1>2, <1>3, <1>4
<1> QED BY <1>5 DEF st2

(* The objects being made are in reserved blocks, and the members of an    *)
(* object whose block is free are not followed.                            *)
LEMMA MakingReserved ==
    ASSUME OwnInv
    PROVE  /\ \A b \in MakingOf(stack) : b \in Block /\ state[b] = "reserved"
           /\ \A b \in Block, x \in LiveOf(stack, state) :
                 state[b] = "free" => x \notin MemberPlaces(b)
<1>1. ChainOK(stack, state, ptr)
  BY DEF OwnInv
<1>2. \A n \in 1..Len(stack) : stack[n] \in Frame
  BY <1>1, CallPlaces
<1>3. \A b \in MakingOf(stack) : b \in Block /\ state[b] = "reserved"
  BY <1>1, <1>2 DEF MakingOf, ChainOK, Frame
<1>4. ASSUME NEW b \in Block, NEW x \in LiveOf(stack, state), state[b] = "free",
             x \in MemberPlaces(b)
      PROVE  FALSE
  BY <1>3, <1>4, LiveMember, PlacesApart
<1> QED BY <1>3, <1>4

-----------------------------------------------------------------------------
(***************************************************************************)
(* Every step keeps the invariant.                                         *)
(***************************************************************************)

(* allocate and replace begin.                                             *)
LEMMA ReserveStep ==
    ASSUME OwnInv, NEW p \in Place, NEW b \in Block, CanUse(p), Reserve(b, p),
           ptr[p] = Null \/ Sole(p)
    PROVE  OwnInv'
<1> DEFINE f == [blk |-> b, place |-> p, old |-> ptr[p], stage |-> "make"]
<1>1. /\ Calls /\ ChainOK(stack, state, ptr) /\ OwnOK(LiveOf(stack, state), state, ptr)
      /\ stack \in Seq(Frame)
  BY DEF OwnInv, ChainOK
<1>2. /\ p \in LiveOf(stack, state) /\ p \in PlacesOf(stack, Len(stack) + 1)
      /\ \A n \in 1..Len(stack) : stack[n].place # p /\ stack[n].stage = "make"
  BY Usable
<1>3. /\ state[b] = "free" /\ state' = [state EXCEPT ![b] = "reserved"]
      /\ ptr' = Nullified(b) /\ stack' = Append(stack, f) /\ reply' = "none"
      /\ made' = made /\ exc' = exc /\ crashes' = crashes
  BY DEF Reserve
<1>4. f \in Frame /\ f.blk = b /\ f.place = p /\ f.old = ptr[p] /\ f.stage = "make"
  BY <1>1 DEF Frame, Calls
<1> HIDE DEF f
<1>5. /\ state'[b] = "reserved" /\ \A c \in Block : c # b => state'[c] = state[c]
      /\ \A x \in Place : ptr'[x] = IF x \in MemberPlaces(b) THEN Null ELSE ptr[x]
      /\ state' \in [Block -> {"free", "reserved", "used"}]
      /\ ptr' \in [Place -> Block \union {Null}]
  BY <1>1, <1>3 DEF Nullified, Calls
<1>6. \A x \in LiveOf(stack, state) : x \notin MemberPlaces(b)
  BY <1>3, MakingReserved
<1>7. \A n \in 1..Len(stack) : /\ stack[n] \in Frame /\ stack[n].place \in LiveOf(stack, state)
                               /\ state[stack[n].blk] = "reserved"
  <2>1. \A n \in 1..Len(stack) : stack[n] \in Frame /\ stack[n].place \in LiveOf(stack, state)
    BY <1>1, CallPlaces
  <2>2. \A n \in 1..Len(stack) : state[stack[n].blk] = "reserved"
    BY <1>1, <1>2 DEF ChainOK
  <2> QED BY <2>1, <2>2
<1>8. \A n \in 1..Len(stack) : /\ state'[stack[n].blk] = state[stack[n].blk]
                               /\ ptr'[stack[n].place] = ptr[stack[n].place]
  <2>1. \A n \in 1..Len(stack) : stack[n].blk \in Block /\ stack[n].blk # b
                                 /\ stack[n].place \in Place
    BY <1>3, <1>7 DEF Frame
  <2> QED BY <1>5, <1>6, <1>7, <2>1
<1>9. ptr'[p] = ptr[p]
  BY <1>2, <1>5, <1>6
<1>10. ChainOK(stack', state', ptr')
  <2>1. state[f.blk] # "reserved" /\ state'[f.blk] = "reserved" /\ ptr'[f.place] = f.old
        /\ f.place \in PlacesOf(stack, Len(stack) + 1)
    BY <1>2, <1>3, <1>4, <1>5, <1>9
  <2>2. \A n \in 1..Len(stack) : stack[n].stage = "make"
    BY <1>2
  <2>3. ChainOK(Append(stack, f), state', ptr')
    BY <1>1, <1>4, <1>8, <2>1, <2>2, ChainGrows
  <2> QED BY <1>3, <2>3
<1>11. MakingOf(stack') = MakingOf(stack) \union {b}
  BY <1>1, <1>3, <1>4, MakingPushed
<1>12. ASSUME NEW x \in LiveOf(stack', state')
       PROVE  ptr'[x] = Null \/ (x \in LiveOf(stack, state) /\ x \in Place /\ ptr'[x] = ptr[x])
  <2>1. CASE x \in MemberPlaces(b)
    BY <1>5, <2>1, PlacesApart
  <2>2. CASE x \notin MemberPlaces(b)
    <3>1. x \in LiveOf(stack, state)
      <4>1. CASE x \in ProgramPlace
        BY <4>1, LiveMember
      <4>2. CASE \E c \in Block : state'[c] = "used" /\ x \in MemberPlaces(c)
        BY <1>5, <2>2, <4>2, LiveMember
      <4>3. CASE \E c \in MakingOf(stack') : x \in MemberPlaces(c)
        BY <1>11, <2>2, <4>3, LiveMember
      <4> QED BY <4>1, <4>2, <4>3, LiveMember
    <3>2. x \in Place
      BY <3>1, LiveMember, PlacesApart, MakingReserved
    <3> QED BY <1>5, <2>2, <3>1, <3>2
  <2> QED BY <2>1, <2>2
<1>13. OwnOK(LiveOf(stack', state'), state', ptr')
  <2>1. ASSUME NEW x \in LiveOf(stack', state'), x \in Place, ptr'[x] = ptr[x], ptr'[x] # Null
        PROVE  state[ptr[x]] = "used" => state'[ptr[x]] = "used"
    <3>1. ptr[x] \in Block
      BY <1>1, <2>1 DEF Calls
    <3> QED BY <1>3, <1>5, <3>1
  <2> QED BY <1>1, <1>12, <2>1, OwnFewer
<1>14. stack' # <<>> /\ stack'[Len(stack')] = f
  BY <1>1, <1>3, <1>4, PushFacts
<1>15. Calls'
  <2>1. made' = {c \in Block : state'[c] = "used"}
    BY <1>1, <1>3, <1>5 DEF Calls
  <2> QED BY <1>1, <1>3, <1>4, <1>5, <1>14, <2>1 DEF Calls, Top
<1>16. ReleaseOK(stack', LiveOf(stack', state'), state', ptr')
  BY <1>4, <1>14 DEF ReleaseOK
<1>17. SoleOK(stack', LiveOf(stack', state'), ptr')
  <2> SUFFICES ASSUME NEW n \in 1..Len(stack'), stack'[n].old # Null,
                      NEW x \in LiveOf(stack', state'), x # stack'[n].place,
                      ptr'[x] # Null
               PROVE  ptr'[x] # stack'[n].old
    BY DEF SoleOK
  <2>1. x \in LiveOf(stack, state) /\ ptr'[x] = ptr[x]
    BY <1>12
  <2>2. CASE n \in 1..Len(stack)
    <3>1. stack'[n] = stack[n] /\ stack[n].stage = "make"
      BY <1>1, <1>2, <1>3, <1>4, <2>2, PushFacts
    <3> QED BY <2>1, <2>2, <3>1 DEF OwnInv, SoleOK
  <2>3. CASE n = Len(stack) + 1
    <3>1. stack'[n] = f
      BY <1>1, <1>3, <1>4, <2>3, PushFacts
    <3> QED BY <1>4, <2>1, <3>1, LiveIs DEF Sole
  <2>4. n \in 1..Len(stack) \/ n = Len(stack) + 1
    <3>1. Len(stack) \in Nat /\ Len(stack') = Len(stack) + 1
      BY <1>1, <1>3, <1>4, PushFacts
    <3> QED BY <3>1
  <2> QED BY <2>2, <2>3, <2>4
<1> QED BY <1>10, <1>13, <1>15, <1>16, <1>17 DEF OwnInv

(* An assertion fails, memory is exhausted, make() throws or catches: the  *)
(* pool and the calls stay.                                                *)
LEMMA QuietStep ==
    ASSUME OwnInv, UNCHANGED <<pool, stack, crashes>>,
           exc' \in Exception \union {"none"}, reply' \in Exception \union {"none", "ok"},
           exc' # "none" => stack # <<>> /\ Top.stage = "make"
    PROVE  OwnInv'
<1>1. state' = state /\ made' = made /\ ptr' = ptr /\ stack' = stack /\ crashes' = crashes
  BY DEF pool
<1>2. Calls'
  BY <1>1 DEF OwnInv, Calls, Top
<1>3. /\ ChainOK(stack', state', ptr')
      /\ OwnOK(LiveOf(stack', state'), state', ptr')
      /\ SoleOK(stack', LiveOf(stack', state'), ptr')
      /\ ReleaseOK(stack', LiveOf(stack', state'), state', ptr')
  BY <1>1 DEF OwnInv
<1> QED BY <1>2, <1>3 DEF OwnInv

(* allocate or replace throws, in the program or in a make().              *)
LEMMA RaiseStep ==
    ASSUME OwnInv, NEW p \in Place, CanUse(p), NEW e \in Exception, Raise(e),
           UNCHANGED <<pool, stack, crashes>>
    PROVE  OwnInv'
<1>1. stack # <<>> => Top.stage = "make"
  BY Usable DEF Top
<1>2. exc \in Exception \union {"none"} /\ reply \in Exception \union {"none", "ok"}
      /\ (exc # "none" => stack # <<>> /\ Top.stage = "make")
  BY DEF OwnInv, Calls
<1>3. \/ Idle /\ reply' = e /\ exc' = exc
      \/ ~Idle /\ exc' = e /\ reply' = reply
  BY DEF Raise
<1> QED BY <1>1, <1>2, <1>3, QuietStep DEF Idle

(* free and nullify: the calls go on, the pointer becomes null, and the    *)
(* object it owned may go.                                                 *)
LEMMA DropStep ==
    ASSUME OwnInv, NEW p \in Place, Free(p) \/ Nullify(p)
    PROVE  OwnInv'
<1>0. /\ CanUse(p) /\ ptr[p] # Null
      /\ ptr' = [ptr EXCEPT ![p] = Null]
      /\ \/ state' = state /\ made' = made
         \/ /\ Sole(p)
            /\ state' = [state EXCEPT ![ptr[p]] = "free"] /\ made' = made \ {ptr[p]}
      /\ UNCHANGED <<stack, exc, reply, crashes>>
  BY DEF Free, Nullify
<1>1. /\ Calls /\ ChainOK(stack, state, ptr) /\ OwnOK(LiveOf(stack, state), state, ptr)
      /\ stack \in Seq(Frame) /\ Len(stack) \in Nat
      /\ stack' = stack /\ exc' = exc /\ reply' = reply /\ crashes' = crashes
  BY <1>0 DEF OwnInv, ChainOK
<1>2. /\ p \in LiveOf(stack, state)
      /\ \A n \in 1..Len(stack) : stack[n].place # p /\ stack[n].stage = "make"
      /\ stack # <<>> => stack[Len(stack)].stage = "make"
  BY <1>0, Usable
<1>3. ptr[p] \in Block /\ state[ptr[p]] = "used"
  BY <1>0, <1>1, <1>2 DEF Calls, OwnOK
<1>4. /\ state' \in [Block -> {"free", "reserved", "used"}]
      /\ ptr' \in [Place -> Block \union {Null}]
      /\ ptr'[p] = Null /\ \A x \in Place : x # p => ptr'[x] = ptr[x]
      /\ \A c \in Block : c # ptr[p] => state'[c] = state[c]
      /\ \A c \in Block : state'[c] = "used" => state[c] = "used"
  BY <1>0, <1>1, <1>3 DEF Calls
<1>5. made' = {c \in Block : state'[c] = "used"}
  BY <1>0, <1>1, <1>3, <1>4 DEF Calls
<1>6. Calls'
  BY <1>1, <1>4, <1>5 DEF Calls, Top
<1>7. \A n \in 1..Len(stack) : /\ state'[stack[n].blk] = state[stack[n].blk]
                               /\ ptr'[stack[n].place] = ptr[stack[n].place]
  <2>1. \A n \in 1..Len(stack) : stack[n] \in Frame
    BY <1>1, CallPlaces
  <2>2. \A n \in 1..Len(stack) : state[stack[n].blk] = "reserved"
    BY <1>1, <1>2 DEF ChainOK
  <2>3. \A n \in 1..Len(stack) : stack[n].place \in Place /\ stack[n].blk \in Block
    BY <2>1 DEF Frame
  <2> QED BY <1>2, <1>3, <1>4, <2>2, <2>3
<1>8. ChainOK(stack', state', ptr')
  <2>1. ChainOK(stack, state, ptr) /\ stack \in Seq(Frame) /\ Len(stack) <= Len(stack)
    BY <1>1
  <2>2. ChainOK(stack, state', ptr')
    BY <1>7, <2>1, ChainKeeps
  <2> QED BY <1>1, <2>2
<1>9. ASSUME NEW x \in LiveOf(stack', state')
      PROVE  \/ ptr'[x] = Null
             \/ /\ x \in LiveOf(stack, state) /\ ptr'[x] = ptr[x]
                /\ state[ptr[x]] = "used" => state'[ptr[x]] = "used"
  <2>1. x \in LiveOf(stack, state)
    BY <1>1, <1>4, LiveMember
  <2>2. x \in Place
    BY <2>1, LiveMember, PlacesApart, MakingReserved
  <2>3. CASE x = p
    BY <1>4, <2>3
  <2>4. CASE x # p /\ ptr[x] # Null
    <3>1. ptr[x] \in Block
      BY <1>1, <2>2, <2>4 DEF Calls
    <3>2. state' = state \/ ptr[x] # ptr[p]
      BY <1>0, <2>1, <2>4, LiveIs DEF Sole
    <3> QED BY <1>4, <2>1, <2>2, <2>4, <3>1, <3>2
  <2>5. CASE x # p /\ ptr[x] = Null
    BY <1>4, <2>2, <2>5
  <2> QED BY <2>3, <2>4, <2>5
<1>10. OwnOK(LiveOf(stack', state'), state', ptr')
  <2>1. OwnOK(LiveOf(stack, state), state, ptr)
    BY <1>1
  <2> QED BY <1>9, <2>1, OwnFewer
<1>11. ReleaseOK(stack', LiveOf(stack', state'), state', ptr')
  BY <1>1, <1>2 DEF ReleaseOK
<1>12. SoleOK(stack', LiveOf(stack', state'), ptr')
  BY <1>1, <1>9, SoleKeeps
<1> QED BY <1>6, <1>8, <1>10, <1>11, <1>12 DEF OwnInv

(* setPersist, or a copy on the stack.                                     *)
LEMMA KeepStep ==
    ASSUME OwnInv, NEW p \in Place, NEW r \in Place, Keep(p, r)
    PROVE  OwnInv'
<1>1. /\ Calls /\ ChainOK(stack, state, ptr) /\ OwnOK(LiveOf(stack, state), state, ptr)
      /\ stack \in Seq(Frame) /\ stack = <<>> /\ p \in ProgramPlace /\ r \in ProgramPlace
      /\ ptr' = [ptr EXCEPT ![p] = ptr[r]]
      /\ state' = state /\ made' = made /\ stack' = stack
      /\ exc' = exc /\ reply' = reply /\ crashes' = crashes
  BY DEF OwnInv, ChainOK, Keep, Idle
<1>2. p \in LiveOf(stack, state) /\ r \in LiveOf(stack, state)
      /\ LiveOf(stack', state') = LiveOf(stack, state)
  BY <1>1, LiveMember
<1>3. /\ ptr' \in [Place -> Block \union {Null}]
      /\ ptr'[p] = ptr[r]
      /\ \A x \in Place : x # p => ptr'[x] = ptr[x]
  BY <1>1 DEF Calls
<1>4. Calls'
  BY <1>1, <1>3 DEF Calls, Top
<1>5. Len(stack') = 0
  BY <1>1
<1>6. ChainOK(stack', state', ptr')
  BY <1>1, <1>5 DEF ChainOK
<1>7. OwnOK(LiveOf(stack', state'), state', ptr')
  <2> SUFFICES OwnOK(LiveOf(stack, state), state, ptr')
    BY <1>1, <1>2
  <2> SUFFICES ASSUME NEW x \in LiveOf(stack, state), NEW y \in LiveOf(stack, state),
                      ptr'[x] # Null
               PROVE  /\ state[ptr'[x]] = "used"
                      /\ (x # y /\ ptr'[x] = ptr'[y]
                            => x \in ProgramPlace /\ y \in ProgramPlace)
    BY DEF OwnOK
  <2>1. x \in Place /\ y \in Place
    BY LiveMember, PlacesApart, MakingReserved
  <2>2. PICK u \in LiveOf(stack, state) : ptr'[x] = ptr[u] /\ (IF x = p THEN u = r ELSE u = x)
    BY <1>2, <1>3, <2>1
  <2>3. PICK v \in LiveOf(stack, state) : ptr'[y] = ptr[v] /\ (IF y = p THEN v = r ELSE v = y)
    BY <1>2, <1>3, <2>1
  <2>4. state[ptr'[x]] = "used"
    BY <1>1, <2>2 DEF OwnOK
  <2>5. ASSUME x # y, ptr'[x] = ptr'[y] PROVE x \in ProgramPlace /\ y \in ProgramPlace
    <3>1. u # v => u \in ProgramPlace /\ v \in ProgramPlace
      BY <1>1, <2>2, <2>3, <2>5 DEF OwnOK
    <3>2. u = v => x = p \/ y = p
      BY <2>2, <2>3, <2>5
    <3> QED BY <1>1, <2>2, <2>3, <3>1, <3>2
  <2> QED BY <2>4, <2>5
<1>8. ReleaseOK(stack', LiveOf(stack', state'), state', ptr')
  BY <1>1 DEF ReleaseOK
<1>9. SoleOK(stack', LiveOf(stack', state'), ptr')
  BY <1>5 DEF SoleOK
<1> QED BY <1>4, <1>6, <1>7, <1>8, <1>9 DEF OwnInv

(* What a call that is left leaves: the ones around it, each in its make().*)
LEMMA Popped ==
    ASSUME OwnInv, stack # <<>>, stack' = Pop
    PROVE  /\ Top = stack[Len(stack)] /\ Top \in Frame /\ Len(stack) \in 1..Len(stack)
           /\ stack' \in Seq(Frame) /\ Len(stack') = Len(stack) - 1 /\ Len(stack') <= Len(stack)
           /\ \A n \in 1..Len(stack') :
                 /\ n \in 1..Len(stack)
                 /\ stack'[n] = stack[n] /\ stack[n].stage = "make"
                 /\ stack[n].blk \in Block /\ stack[n].place \in Place
                 /\ stack[n].blk # Top.blk /\ state[stack[n].blk] = "reserved"
           /\ stack' = <<>> <=> Len(stack) = 1
           /\ stack' # <<>> => stack'[Len(stack')].stage = "make"
           /\ MakingOf(stack') = MakingOf(stack) \ {Top.blk}
<1>1. ChainOK(stack, state, ptr) /\ stack \in Seq(Frame)
      /\ stack' = SubSeq(stack, 1, Len(stack) - 1)
  BY DEF OwnInv, ChainOK, Pop
<1>2. /\ Len(stack) \in Nat /\ Len(stack) >= 1
      /\ stack' \in Seq(Frame) /\ Len(stack') = Len(stack) - 1
      /\ \A n \in 1..(Len(stack) - 1) : stack'[n] = stack[n]
      /\ stack' = <<>> <=> Len(stack) = 1
  BY <1>1, PopFacts
<1>3. /\ Len(stack) \in 1..Len(stack) /\ Len(stack') <= Len(stack)
      /\ \A n \in 1..Len(stack') : n \in 1..(Len(stack) - 1) /\ n \in 1..Len(stack)
                                   /\ n < Len(stack) /\ n # Len(stack)
      /\ stack' # <<>> => Len(stack') \in 1..Len(stack')
  BY <1>2
<1>4. \A n \in 1..Len(stack) : stack[n] \in Frame
  BY <1>1, CallPlaces
<1>5. Top = stack[Len(stack)] /\ Top \in Frame
  BY <1>3, <1>4 DEF Top
<1>6. ASSUME NEW n \in 1..Len(stack')
      PROVE  /\ n \in 1..Len(stack)
             /\ stack'[n] = stack[n] /\ stack[n].stage = "make"
             /\ stack[n].blk \in Block /\ stack[n].place \in Place
             /\ stack[n].blk # Top.blk /\ state[stack[n].blk] = "reserved"
  <2>1. n \in 1..Len(stack) /\ n < Len(stack) /\ n # Len(stack) /\ stack'[n] = stack[n]
    BY <1>2, <1>3
  <2>2. stack[n].stage = "make"
    BY <1>1, <2>1 DEF ChainOK
  <2>3. state[stack[n].blk] = "reserved"
    BY <1>1, <2>1, <2>2 DEF ChainOK
  <2>4. stack[n].blk # stack[Len(stack)].blk
    BY <1>1, <1>3, <2>1 DEF ChainOK
  <2>5. stack[n].blk \in Block /\ stack[n].place \in Place
    BY <1>4, <2>1 DEF Frame
  <2> QED BY <1>5, <2>1, <2>2, <2>3, <2>4, <2>5
<1>7. MakingOf(stack') = MakingOf(stack) \ {Top.blk}
  BY <1>1, <1>5, MakingPopped
<1>8. stack' # <<>> => stack'[Len(stack')].stage = "make"
  BY <1>3, <1>6
<1> QED BY <1>2, <1>3, <1>5, <1>6, <1>7, <1>8

(* The chain that is left.                                                 *)
LEMMA PoppedChain ==
    ASSUME OwnInv, stack # <<>>, stack' = Pop,
           \A n \in 1..Len(stack') : /\ state'[stack[n].blk] = state[stack[n].blk]
                                     /\ ptr'[stack[n].place] = ptr[stack[n].place]
    PROVE  /\ ChainOK(stack', state', ptr')
           /\ ReleaseOK(stack', LiveOf(stack', state'), state', ptr')
<1>1. ChainOK(stack, state, ptr)
  BY DEF OwnInv
<1>2. /\ stack' \in Seq(Frame) /\ Len(stack') <= Len(stack)
      /\ \A n \in 1..Len(stack') : stack'[n] = stack[n]
      /\ stack' # <<>> => stack'[Len(stack')].stage = "make"
  BY Popped
<1>3. \A n \in 1..Len(stack') : stack[n].stage = "make"
          => /\ state'[stack[n].blk] = state[stack[n].blk]
             /\ ptr'[stack[n].place] = ptr[stack[n].place]
  OBVIOUS
<1>4. ChainOK(stack', state', ptr')
  BY <1>1, <1>2, <1>3, ChainKeeps
<1>5. ReleaseOK(stack', LiveOf(stack', state'), state', ptr')
  BY <1>2 DEF ReleaseOK
<1> QED BY <1>4, <1>5

(* A call is left by an exception.                                         *)
LEMMA UnwindStep ==
    ASSUME OwnInv, BuildFails \/ ForeignUnwinds
    PROVE  OwnInv'
<1>1. /\ stack # <<>> /\ exc # "none" /\ stack' = Pop /\ exc \in Exception
      /\ made' = made /\ ptr' = ptr /\ crashes' = crashes
      /\ \/ state' = state
         \/ state' = [state EXCEPT ![Top.blk] = "free"]
      /\ IF Len(stack) = 1 THEN reply' = exc /\ exc' = "none"
                           ELSE exc' = exc /\ reply' = reply
  BY DEF BuildFails, ForeignUnwinds, Unwind, Idle, pool, Exception
<1>2. /\ Calls /\ ChainOK(stack, state, ptr) /\ OwnOK(LiveOf(stack, state), state, ptr)
      /\ Top.stage = "make"
  BY <1>1 DEF OwnInv, Calls
<1>3. /\ Top = stack[Len(stack)] /\ Top \in Frame /\ Len(stack) \in 1..Len(stack)
      /\ \A n \in 1..Len(stack') : stack[n].blk \in Block /\ stack[n].blk # Top.blk
      /\ stack' = <<>> <=> Len(stack) = 1
      /\ stack' # <<>> => stack'[Len(stack')].stage = "make"
      /\ MakingOf(stack') = MakingOf(stack) \ {Top.blk}
  BY <1>1, Popped
<1>4. Top.blk \in Block /\ state[Top.blk] = "reserved"
  BY <1>2, <1>3 DEF Frame, ChainOK
<1>5. /\ state' \in [Block -> {"free", "reserved", "used"}]
      /\ \A c \in Block : c # Top.blk => state'[c] = state[c]
      /\ \A c \in Block : state'[c] = "used" <=> state[c] = "used"
  BY <1>1, <1>2, <1>4 DEF Calls
<1>6. Calls'
  <2>1. made' = {c \in Block : state'[c] = "used"}
    BY <1>1, <1>2, <1>5 DEF Calls
  <2>2. exc' # "none" => stack' # <<>> /\ Top'.stage = "make"
    BY <1>1, <1>3 DEF Top
  <2>3. exc' \in Exception \union {"none"} /\ reply' \in Exception \union {"none", "ok"}
    BY <1>1, <1>2 DEF Calls
  <2> QED BY <1>1, <1>2, <1>5, <2>1, <2>2, <2>3 DEF Calls
<1>7. /\ ChainOK(stack', state', ptr')
      /\ ReleaseOK(stack', LiveOf(stack', state'), state', ptr')
  <2>1. \A n \in 1..Len(stack') : /\ state'[stack[n].blk] = state[stack[n].blk]
                                  /\ ptr'[stack[n].place] = ptr[stack[n].place]
    BY <1>1, <1>3, <1>5
  <2> QED BY <1>1, <2>1, PoppedChain
<1>8. \A x \in LiveOf(stack', state') : x \in LiveOf(stack, state)
  BY <1>3, <1>5, LiveMember
<1>9. ASSUME NEW x \in LiveOf(stack, state), ptr[x] # Null
      PROVE  state'[ptr[x]] = "used"
  <2>1. x \in Place
    BY LiveMember, PlacesApart, MakingReserved
  <2>2. ptr[x] \in Block /\ state[ptr[x]] = "used"
    BY <1>2, <1>9, <2>1 DEF Calls, OwnOK
  <2> QED BY <1>5, <2>2
<1>10. OwnOK(LiveOf(stack', state'), state', ptr')
  <2>1. OwnOK(LiveOf(stack, state), state, ptr)
    BY <1>2
  <2>2. \A x \in LiveOf(stack', state') :
           \/ ptr'[x] = Null
           \/ /\ x \in LiveOf(stack, state) /\ ptr'[x] = ptr[x]
              /\ state[ptr[x]] = "used" => state'[ptr[x]] = "used"
    BY <1>1, <1>8, <1>9
  <2> QED BY <2>1, <2>2, OwnFewer
<1>11. SoleOK(stack', LiveOf(stack', state'), ptr')
  BY <1>1, <1>8, Popped, SoleKeeps
<1> QED BY <1>6, <1>7, <1>10, <1>11 DEF OwnInv

(* make() returns, and the block is published: in the pointer that the     *)
(* call was given, which held what it held when the call began.            *)
LEMMA Published ==
    ASSUME OwnInv, MakeReturns
    PROVE  /\ Calls /\ ChainOK(stack, state, ptr) /\ OwnOK(LiveOf(stack, state), state, ptr)
           /\ stack # <<>> /\ stack \in Seq(Frame) /\ Len(stack) \in 1..Len(stack)
           /\ Top = stack[Len(stack)] /\ Top \in Frame /\ Top.stage = "make"
           /\ Top.place \in LiveOf(stack, state) /\ ptr[Top.place] = Top.old
           /\ state[Top.blk] = "reserved" /\ Top.blk \in MakingOf(stack)
           /\ state'[Top.blk] = "used" /\ ptr'[Top.place] = Top.blk
           /\ \A c \in Block : c # Top.blk => state'[c] = state[c]
           /\ \A x \in Place : x # Top.place => ptr'[x] = ptr[x]
           /\ state' \in [Block -> {"free", "reserved", "used"}]
           /\ ptr' \in [Place -> Block \union {Null}]
           /\ made' = {c \in Block : state'[c] = "used"}
           /\ exc = "none" /\ exc' = exc /\ crashes' = crashes
<1>1. Calls /\ ChainOK(stack, state, ptr) /\ OwnOK(LiveOf(stack, state), state, ptr)
      /\ stack # <<>> /\ stack \in Seq(Frame) /\ Top.stage = "make" /\ exc = "none"
  BY DEF OwnInv, ChainOK, MakeReturns, Making, Idle
<1>2. /\ state' = [state EXCEPT ![Top.blk] = "used"] /\ made' = made \union {Top.blk}
      /\ ptr' = [ptr EXCEPT ![Top.place] = Top.blk] /\ exc' = exc /\ crashes' = crashes
  BY DEF MakeReturns
<1>3. Len(stack) \in 1..Len(stack) /\ Top = stack[Len(stack)]
  BY <1>1 DEF Top
<1>4. Top \in Frame /\ Top.place \in LiveOf(stack, state)
  BY <1>1, <1>3, CallPlaces
<1>5. state[Top.blk] = "reserved" /\ ptr[Top.place] = Top.old
  BY <1>1, <1>3 DEF ChainOK
<1>6. Top.blk \in MakingOf(stack)
  BY <1>1, <1>3 DEF MakingOf
<1>7. Top.blk \in Block /\ Top.place \in Place
  BY <1>4 DEF Frame
<1>8. /\ state'[Top.blk] = "used" /\ ptr'[Top.place] = Top.blk
      /\ \A c \in Block : c # Top.blk => state'[c] = state[c]
      /\ \A x \in Place : x # Top.place => ptr'[x] = ptr[x]
      /\ state' \in [Block -> {"free", "reserved", "used"}]
      /\ ptr' \in [Place -> Block \union {Null}]
  BY <1>1, <1>2, <1>7 DEF Calls
<1>9. made' = {c \in Block : state'[c] = "used"}
  BY <1>1, <1>2, <1>7, <1>8 DEF Calls
<1> QED BY <1>1, <1>2, <1>3, <1>4, <1>5, <1>6, <1>8, <1>9

(* Published, the object is still followed, and so are its members: they   *)
(* were the members of an object being made, and are those of one in use.  *)
LEMMA PublishedLive ==
    ASSUME OwnInv, MakeReturns, MakingOf(stack') = MakingOf(stack) \ {Top.blk}
    PROVE  /\ LiveOf(stack', state') \subseteq LiveOf(stack, state)
           /\ OwnOK(LiveOf(stack', state'), state', ptr')
           /\ \A x \in LiveOf(stack', state') :
                 \/ ptr'[x] = Null
                 \/ x \in LiveOf(stack, state) /\ ptr'[x] = ptr[x]
                 \/ state[ptr'[x]] # "used"
<1>1. /\ state[Top.blk] = "reserved" /\ Top.blk \in MakingOf(stack)
      /\ state'[Top.blk] = "used" /\ ptr'[Top.place] = Top.blk
      /\ \A c \in Block : c # Top.blk => state'[c] = state[c]
      /\ \A x \in Place : x # Top.place => ptr'[x] = ptr[x]
  BY Published
<1>2. OwnOK(LiveOf(stack, state), state, ptr) /\ Calls
  BY DEF OwnInv
<1>3. \A x \in LiveOf(stack', state') : x \in LiveOf(stack, state)
  BY <1>1, LiveMember
<1>4. \A x \in LiveOf(stack', state') : x \in Place
  BY <1>3, LiveMember, PlacesApart, MakingReserved
<1>5. ASSUME NEW x \in LiveOf(stack', state'), ptr'[x] # Null, x # Top.place
      PROVE  ptr'[x] = ptr[x] /\ state'[ptr'[x]] = "used" /\ ptr'[x] # Top.blk
  <2>1. ptr'[x] = ptr[x] /\ x \in Place /\ x \in LiveOf(stack, state)
    BY <1>1, <1>3, <1>4, <1>5
  <2>2. ptr[x] \in Block /\ state[ptr[x]] = "used"
    BY <1>2, <1>5, <2>1 DEF Calls, OwnOK
  <2>3. ptr[x] # Top.blk
    BY <1>1, <2>2
  <2> QED BY <1>1, <2>1, <2>2, <2>3
<1>6. ASSUME NEW x \in LiveOf(stack', state'), NEW y \in LiveOf(stack', state'),
             ptr'[x] # Null, x # y, ptr'[x] = ptr'[y]
      PROVE  x \in ProgramPlace /\ y \in ProgramPlace
  <2>1. x # Top.place /\ y # Top.place
    BY <1>1, <1>5, <1>6
  <2>2. ptr'[x] = ptr[x] /\ ptr'[y] = ptr[y]
    BY <1>5, <1>6, <2>1
  <2>3. x \in LiveOf(stack, state) /\ y \in LiveOf(stack, state)
    BY <1>3
  <2> QED BY <1>2, <1>6, <2>2, <2>3 DEF OwnOK
<1>7. \A x \in LiveOf(stack', state') : ptr'[x] # Null => state'[ptr'[x]] = "used"
  BY <1>1, <1>5
<1>8. OwnOK(LiveOf(stack', state'), state', ptr')
  BY <1>6, <1>7 DEF OwnOK
<1>9. \A x \in LiveOf(stack', state') :
         \/ ptr'[x] = Null
         \/ x \in LiveOf(stack, state) /\ ptr'[x] = ptr[x]
         \/ state[ptr'[x]] # "used"
  BY <1>1, <1>3, <1>5
<1> QED BY <1>3, <1>8, <1>9

(* Nothing was there before: the call returns.                             *)
LEMMA ReturnStep ==
    ASSUME OwnInv, MakeReturns, Top.old = Null
    PROVE  OwnInv'
<1>1. stack' = Pop /\ stack # <<>> /\ reply' = IF Len(stack) = 1 THEN "ok" ELSE reply
  BY DEF MakeReturns, Making, Idle
<1>2. /\ Calls /\ ChainOK(stack, state, ptr) /\ OwnOK(LiveOf(stack, state), state, ptr)
      /\ Len(stack) \in 1..Len(stack) /\ Top = stack[Len(stack)]
      /\ \A c \in Block : c # Top.blk => state'[c] = state[c]
      /\ \A x \in Place : x # Top.place => ptr'[x] = ptr[x]
      /\ state' \in [Block -> {"free", "reserved", "used"}]
      /\ ptr' \in [Place -> Block \union {Null}]
      /\ made' = {c \in Block : state'[c] = "used"}
      /\ exc = "none" /\ exc' = exc /\ crashes' = crashes
  BY Published
<1>3. /\ \A n \in 1..Len(stack') : /\ n \in 1..Len(stack) /\ n # Len(stack)
                                   /\ stack[n].blk \in Block /\ stack[n].blk # Top.blk
                                   /\ stack[n].place \in Place
      /\ MakingOf(stack') = MakingOf(stack) \ {Top.blk}
  <2>1. Len(stack') = Len(stack) - 1 /\ Len(stack) \in Nat
    BY <1>1, <1>2, Popped
  <2>2. \A n \in 1..Len(stack') : n # Len(stack)
    BY <2>1
  <2> QED BY <1>1, <2>2, Popped
<1>4. Calls'
  BY <1>1, <1>2 DEF Calls
<1>5. \A n \in 1..Len(stack') : stack[n].place # Top.place
  BY <1>2, <1>3, CallPlacesDiffer
<1>6. \A n \in 1..Len(stack') : /\ state'[stack[n].blk] = state[stack[n].blk]
                                /\ ptr'[stack[n].place] = ptr[stack[n].place]
  BY <1>2, <1>3, <1>5
<1>7. /\ ChainOK(stack', state', ptr')
      /\ ReleaseOK(stack', LiveOf(stack', state'), state', ptr')
  BY <1>1, <1>6, PoppedChain
<1>8. OwnOK(LiveOf(stack', state'), state', ptr')
  BY <1>3, PublishedLive
<1>9. SoleOK(stack', LiveOf(stack', state'), ptr')
  <2>1. \A n \in 1..Len(stack') : n \in 1..Len(stack) /\ stack'[n] = stack[n]
    BY <1>1, Popped
  <2>2. \A x \in LiveOf(stack', state') :
           \/ ptr'[x] = Null
           \/ x \in LiveOf(stack, state) /\ ptr'[x] = ptr[x]
           \/ state[ptr'[x]] # "used"
    BY <1>3, PublishedLive
  <2> QED BY <2>1, <2>2, SoleKeeps
<1> QED BY <1>4, <1>7, <1>8, <1>9 DEF OwnInv

(* Something was there before: replace_ctr will free it, and it is allocated*)
(* and not pointed to any more.                                            *)
LEMMA ReplacedStep ==
    ASSUME OwnInv, MakeReturns, Top.old # Null
    PROVE  OwnInv'
<1>1. stack' = [stack EXCEPT ![Len(stack)].stage = "release"] /\ reply' = reply
  BY DEF MakeReturns
<1>2. /\ Calls /\ ChainOK(stack, state, ptr) /\ OwnOK(LiveOf(stack, state), state, ptr)
      /\ stack # <<>> /\ stack \in Seq(Frame) /\ Len(stack) \in 1..Len(stack)
      /\ Top = stack[Len(stack)] /\ Top \in Frame
      /\ Top.place \in LiveOf(stack, state) /\ ptr[Top.place] = Top.old
      /\ state[Top.blk] = "reserved"
      /\ \A c \in Block : c # Top.blk => state'[c] = state[c]
      /\ \A x \in Place : x # Top.place => ptr'[x] = ptr[x]
      /\ state' \in [Block -> {"free", "reserved", "used"}]
      /\ ptr' \in [Place -> Block \union {Null}]
      /\ made' = {c \in Block : state'[c] = "used"}
      /\ exc = "none" /\ exc' = exc /\ crashes' = crashes
      /\ ptr'[Top.place] = Top.blk
  BY Published
<1>3. /\ Len(stack) \in Nat /\ stack' \in Seq(Frame) /\ Len(stack') = Len(stack)
      /\ \A n \in 1..(Len(stack) - 1) : stack'[n] = stack[n]
      /\ stack'[Len(stack)].blk = Top.blk /\ stack'[Len(stack)].place = Top.place
      /\ stack'[Len(stack)].old = Top.old /\ stack'[Len(stack)].stage = "release"
      /\ stack' # <<>>
  <2>1. stack \in Seq(Frame) /\ stack # <<>> /\ Top = stack[Len(stack)]
    BY <1>2
  <2> QED BY <1>1, <2>1, StageFacts
<1>4. Calls'
  BY <1>1, <1>2 DEF Calls
<1>5. /\ \A n \in 1..Len(stack) : n = Len(stack) \/ n \in 1..(Len(stack) - 1)
      /\ \A n \in 1..(Len(stack) - 1) : n \in 1..Len(stack) /\ n # Len(stack) /\ n < Len(stack)
      /\ Len(stack) \notin 1..(Len(stack) - 1)
  BY <1>2, <1>3
<1>6. \A n \in 1..(Len(stack) - 1) :
         /\ stack[n].blk \in Block /\ stack[n].place \in Place /\ stack[n].stage = "make"
         /\ stack[n].blk # Top.blk /\ stack[n].place # Top.place
         /\ state[stack[n].blk] = "reserved" /\ ptr[stack[n].place] = stack[n].old
  <2>1. ASSUME NEW n \in 1..(Len(stack) - 1)
        PROVE  /\ stack[n].stage = "make" /\ stack[n].blk # Top.blk
               /\ state[stack[n].blk] = "reserved" /\ ptr[stack[n].place] = stack[n].old
    BY <1>2, <1>5 DEF ChainOK
  <2>2. ASSUME NEW n \in 1..(Len(stack) - 1)
        PROVE  stack[n].blk \in Block /\ stack[n].place \in Place
    <3>1. stack[n] \in Frame
      BY <1>2, <1>5, CallPlaces
    <3> QED BY <3>1 DEF Frame
  <2>3. ASSUME NEW n \in 1..(Len(stack) - 1) PROVE stack[n].place # Top.place
    <3>1. n \in 1..Len(stack) /\ Len(stack) \in 1..Len(stack) /\ n # Len(stack)
          /\ ChainOK(stack, state, ptr)
      BY <1>2, <1>5
    <3>2. stack[n].place # stack[Len(stack)].place
      BY <3>1, CallPlacesDiffer
    <3> QED BY <1>2, <3>2
  <2> QED BY <2>1, <2>2, <2>3
<1>7. ChainOK(stack', state', ptr')
  <2>1. \A n \in 1..Len(stack) : stack'[n].blk = stack[n].blk /\ stack'[n].place = stack[n].place
    BY <1>2, <1>3, <1>5
  <2>2. ASSUME NEW n \in 1..Len(stack) PROVE stack'[n].place \in PlacesOf(stack', n)
    <3>1. stack[n].place \in PlacesOf(stack, n)
      BY <1>2 DEF ChainOK
    <3>2. n # 1 => n - 1 \in 1..Len(stack)
      BY <1>3, Before
    <3> QED BY <2>1, <3>1, <3>2 DEF PlacesOf
  <2>3. ASSUME NEW n \in 1..Len(stack), NEW m \in 1..Len(stack), m # n
        PROVE  stack'[m].blk # stack'[n].blk
    BY <1>2, <2>1, <2>3 DEF ChainOK
  <2>4. ASSUME NEW n \in 1..Len(stack), n < Len(stack) \/ stack'[n].stage = "make"
        PROVE  /\ stack'[n].stage = "make" /\ state'[stack'[n].blk] = "reserved"
               /\ ptr'[stack'[n].place] = stack'[n].old
    <3>1. n \in 1..(Len(stack) - 1)
      BY <1>3, <1>5, <2>4
    <3>2. stack'[n] = stack[n]
      BY <1>3, <3>1
    <3> QED BY <1>2, <1>6, <3>1, <3>2
  <2> QED BY <1>3, <2>2, <2>3, <2>4 DEF ChainOK
<1>8. MakingOf(stack') = MakingOf(stack) \ {Top.blk}
  <2>1. \A b : b \in MakingOf(stack')
           <=> \E n \in 1..Len(stack) : stack'[n].stage = "make" /\ b = stack'[n].blk
    BY <1>3 DEF MakingOf
  <2>2. \A b : b \in MakingOf(stack)
           <=> \E n \in 1..Len(stack) : stack[n].stage = "make" /\ b = stack[n].blk
    BY DEF MakingOf
  <2>3. \A b : b \in MakingOf(stack')
           <=> \E n \in 1..(Len(stack) - 1) : stack[n].stage = "make" /\ b = stack[n].blk
    <3>1. ASSUME NEW b \in MakingOf(stack')
          PROVE  \E n \in 1..(Len(stack) - 1) : stack[n].stage = "make" /\ b = stack[n].blk
      <4>1. PICK n \in 1..Len(stack) : stack'[n].stage = "make" /\ b = stack'[n].blk
        BY <2>1, <3>1
      <4>2. n \in 1..(Len(stack) - 1)
        BY <1>3, <1>5, <4>1
      <4>3. stack'[n] = stack[n]
        BY <1>3, <4>2
      <4> QED BY <4>1, <4>2, <4>3
    <3>2. ASSUME NEW b, NEW n \in 1..(Len(stack) - 1),
                 stack[n].stage = "make", b = stack[n].blk
          PROVE  b \in MakingOf(stack')
      <4>1. stack'[n] = stack[n] /\ n \in 1..Len(stack)
        BY <1>3, <1>5
      <4> QED BY <2>1, <3>2, <4>1
    <3> QED BY <3>1, <3>2
  <2>4. \A b : b \in MakingOf(stack) /\ b # Top.blk
           <=> \E n \in 1..(Len(stack) - 1) : stack[n].stage = "make" /\ b = stack[n].blk
    <3>1. ASSUME NEW b \in MakingOf(stack), b # Top.blk
          PROVE  \E n \in 1..(Len(stack) - 1) : stack[n].stage = "make" /\ b = stack[n].blk
      BY <1>2, <1>5, <2>2, <3>1
    <3>2. ASSUME NEW n \in 1..(Len(stack) - 1)
          PROVE  stack[n].blk \in MakingOf(stack) /\ stack[n].blk # Top.blk
      BY <1>5, <1>6, <2>2
    <3> QED BY <3>1, <3>2
  <2> QED BY <2>3, <2>4
<1>9. /\ LiveOf(stack', state') \subseteq LiveOf(stack, state)
      /\ OwnOK(LiveOf(stack', state'), state', ptr')
  BY <1>8, PublishedLive
<1>10. Top.old \in Block /\ state[Top.old] = "used"
  BY <1>2 DEF Frame, OwnOK
<1>11. Top.old # Top.blk /\ state'[Top.old] = "used"
  BY <1>2, <1>10
<1>12. ASSUME NEW x \in LiveOf(stack', state') PROVE ptr'[x] # Top.old
  <2>1. x \in LiveOf(stack, state) /\ x \in Place
    BY <1>9, LiveMember, PlacesApart, MakingReserved
  <2>2. CASE x = Top.place
    BY <1>2, <1>11, <2>2
  <2>3. CASE x # Top.place
    <3>1. SoleOK(stack, LiveOf(stack, state), ptr) /\ Top.stage = "make"
      BY Published DEF OwnInv
    <3>2. ptr[x] # Top.old
      BY <1>2, <2>1, <2>3, <3>1 DEF SoleOK
    <3> QED BY <1>2, <2>1, <2>3, <3>2
  <2> QED BY <2>2, <2>3
<1>13. ReleaseOK(stack', LiveOf(stack', state'), state', ptr')
  BY <1>2, <1>3, <1>10, <1>11, <1>12 DEF ReleaseOK
<1>14. SoleOK(stack', LiveOf(stack', state'), ptr')
  <2>1. \A n \in 1..Len(stack') :
           stack'[n].stage = "make" => n \in 1..Len(stack) /\ stack'[n] = stack[n]
    BY <1>3, <1>5
  <2>2. \A x \in LiveOf(stack', state') :
           \/ ptr'[x] = Null
           \/ x \in LiveOf(stack, state) /\ ptr'[x] = ptr[x]
           \/ state[ptr'[x]] # "used"
    BY <1>8, PublishedLive
  <2> QED BY <2>1, <2>2, SoleKeeps
<1> QED BY <1>4, <1>7, <1>9, <1>13, <1>14 DEF OwnInv

(* replace_ctr frees what it replaced.                                     *)
LEMMA ReleaseStep ==
    ASSUME OwnInv, Release
    PROVE  OwnInv'
<1>1. /\ stack # <<>> /\ Top.stage = "release" /\ stack' = Pop
      /\ state' = [state EXCEPT ![Top.old] = "free"] /\ made' = made \ {Top.old}
      /\ reply' = IF Len(stack) = 1 THEN "ok" ELSE reply
      /\ ptr' = ptr /\ exc' = exc /\ crashes' = crashes
  BY DEF Release, Idle
<1>2. /\ Calls /\ OwnOK(LiveOf(stack, state), state, ptr)
      /\ ReleaseOK(stack, LiveOf(stack, state), state, ptr)
  BY DEF OwnInv
<1>3. /\ Top = stack[Len(stack)]
      /\ \A n \in 1..Len(stack') : /\ stack[n].blk \in Block
                                   /\ state[stack[n].blk] = "reserved"
      /\ MakingOf(stack') = MakingOf(stack) \ {Top.blk}
  BY <1>1, Popped
<1>4. /\ Top.old \in Block /\ state[Top.old] = "used"
      /\ \A x \in LiveOf(stack, state) : ptr[x] # Top.old
  BY <1>1, <1>2, <1>3 DEF ReleaseOK
<1>5. /\ state' \in [Block -> {"free", "reserved", "used"}]
      /\ state'[Top.old] = "free"
      /\ \A c \in Block : c # Top.old => state'[c] = state[c]
  BY <1>1, <1>2, <1>4 DEF Calls
<1>6. Calls'
  <2>1. made' = {c \in Block : state'[c] = "used"}
    BY <1>1, <1>2, <1>5 DEF Calls
  <2>2. exc = "none"
    BY <1>1, <1>2 DEF Calls
  <2> QED BY <1>1, <1>2, <1>5, <2>1, <2>2 DEF Calls
<1>7. /\ ChainOK(stack', state', ptr')
      /\ ReleaseOK(stack', LiveOf(stack', state'), state', ptr')
  <2>1. \A n \in 1..Len(stack') : /\ state'[stack[n].blk] = state[stack[n].blk]
                                  /\ ptr'[stack[n].place] = ptr[stack[n].place]
    BY <1>1, <1>3, <1>4, <1>5
  <2> QED BY <1>1, <2>1, PoppedChain
<1>8. \A x \in LiveOf(stack', state') : x \in LiveOf(stack, state)
  BY <1>3, <1>5, LiveMember
<1>9. OwnOK(LiveOf(stack', state'), state', ptr')
  <2>1. OwnOK(LiveOf(stack, state), state, ptr)
    BY <1>2
  <2>2. ASSUME NEW x \in LiveOf(stack', state'), ptr[x] # Null
        PROVE  state'[ptr[x]] = "used"
    <3>1. x \in LiveOf(stack, state) /\ x \in Place
      BY <1>8, LiveMember, PlacesApart, MakingReserved
    <3>2. ptr[x] \in Block /\ state[ptr[x]] = "used" /\ ptr[x] # Top.old
      BY <1>2, <1>4, <2>2, <3>1 DEF Calls, OwnOK
    <3> QED BY <1>5, <3>2
  <2>3. \A x \in LiveOf(stack', state') :
           \/ ptr'[x] = Null
           \/ /\ x \in LiveOf(stack, state) /\ ptr'[x] = ptr[x]
              /\ state[ptr[x]] = "used" => state'[ptr[x]] = "used"
    BY <1>1, <1>8, <2>2
  <2> QED BY <2>1, <2>3, OwnFewer
<1>10. SoleOK(stack', LiveOf(stack', state'), ptr')
  BY <1>1, <1>8, Popped, SoleKeeps
<1> QED BY <1>6, <1>7, <1>9, <1>10 DEF OwnInv

(* The process dies: the calls end, and with them the reservations.        *)
LEMMA RestartStep ==
    ASSUME OwnInv, Restart
    PROVE  OwnInv'
<1>1. /\ Calls /\ OwnOK(LiveOf(stack, state), state, ptr)
      /\ crashes < MaxCrashes /\ crashes' = crashes + 1
      /\ state' = [b \in Block |-> IF state[b] = "used" THEN "used" ELSE "free"]
      /\ ptr' = [ptr EXCEPT ![Ret] = Null]
      /\ stack' = <<>> /\ exc' = "none" /\ reply' = "none" /\ made' = made
  BY DEF OwnInv, Restart
<1>2. Ret \in Place
  BY PlacesApart
<1>3. /\ state' \in [Block -> {"free", "reserved", "used"}]
      /\ \A c \in Block : state'[c] = "used" <=> state[c] = "used"
      /\ ptr' \in [Place -> Block \union {Null}]
      /\ \A x \in Place : ptr'[x] = Null \/ ptr'[x] = ptr[x]
  BY <1>1, <1>2 DEF Calls
<1>4. Calls'
  <2>1. made' = {c \in Block : state'[c] = "used"}
    BY <1>1, <1>3 DEF Calls
  <2>2. crashes' \in 0..MaxCrashes
    BY <1>1, BoundAssumption DEF Calls
  <2> QED BY <1>1, <1>3, <2>1, <2>2 DEF Calls
<1>5. Len(stack') = 0 /\ stack' \in Seq(Frame)
  BY <1>1
<1>6. ChainOK(stack', state', ptr')
  BY <1>5 DEF ChainOK
<1>7. MakingOf(stack') = {}
  BY <1>5 DEF MakingOf
<1>8. \A x \in LiveOf(stack', state') : x \in LiveOf(stack, state) /\ x \in Place
  BY <1>3, <1>7, LiveMember, PlacesApart
<1>9. OwnOK(LiveOf(stack', state'), state', ptr')
  <2>1. OwnOK(LiveOf(stack, state), state, ptr)
    BY <1>1
  <2>2. ASSUME NEW x \in LiveOf(stack', state'), ptr'[x] # Null
        PROVE  ptr'[x] = ptr[x] /\ state'[ptr[x]] = "used"
    <3>1. x \in LiveOf(stack, state) /\ x \in Place
      BY <1>8
    <3>2. ptr'[x] = ptr[x] /\ ptr[x] # Null
      BY <1>3, <2>2, <3>1
    <3>3. ptr[x] \in Block /\ state[ptr[x]] = "used"
      BY <1>1, <3>1, <3>2 DEF Calls, OwnOK
    <3> QED BY <1>3, <3>2, <3>3
  <2>3. \A x \in LiveOf(stack', state') :
           \/ ptr'[x] = Null
           \/ /\ x \in LiveOf(stack, state) /\ ptr'[x] = ptr[x]
              /\ state[ptr[x]] = "used" => state'[ptr[x]] = "used"
    BY <1>8, <2>2
  <2> QED BY <2>1, <2>3, OwnFewer
<1>10. ReleaseOK(stack', LiveOf(stack', state'), state', ptr')
  BY <1>1 DEF ReleaseOK
<1>11. SoleOK(stack', LiveOf(stack', state'), ptr')
  BY <1>5 DEF SoleOK
<1> QED BY <1>4, <1>6, <1>9, <1>10, <1>11 DEF OwnInv

(* A pool without objects.                                                 *)
LEMMA InitOwns ==
    ASSUME Init
    PROVE  OwnInv
<1>1. /\ state = [b \in Block |-> "free"] /\ made = {} /\ ptr = [p \in Place |-> Null]
      /\ stack = <<>> /\ exc = "none" /\ reply = "none" /\ crashes = 0
  BY DEF Init
<1>2. Calls
  BY <1>1, BoundAssumption DEF Calls
<1>3. Len(stack) = 0 /\ stack \in Seq(Frame)
  BY <1>1
<1>4. ChainOK(stack, state, ptr) /\ ReleaseOK(stack, LiveOf(stack, state), state, ptr)
  BY <1>1, <1>3 DEF ChainOK, ReleaseOK
<1>5. MakingOf(stack) = {}
  BY <1>3 DEF MakingOf
<1>6. \A x \in LiveOf(stack, state) : x \in Place
  BY <1>1, <1>5, LiveMember, PlacesApart
<1>7. OwnOK(LiveOf(stack, state), state, ptr)
  BY <1>1, <1>6 DEF OwnOK
<1>8. SoleOK(stack, LiveOf(stack, state), ptr)
  BY <1>3 DEF SoleOK
<1> QED BY <1>2, <1>4, <1>7, <1>8 DEF OwnInv

(* Whatever step is taken.                                                 *)
LEMMA StepOwns ==
    ASSUME OwnInv, [Next]_vars
    PROVE  OwnInv'
<1>1. ASSUME NEW p \in Place, NEW b \in Block, Allocate(p, b) \/ Replace(p, b) PROVE OwnInv'
  BY <1>1, ReserveStep DEF Allocate, Replace
<1>2. ASSUME NEW p \in Place, Refused(p) \/ Exhausted(p) PROVE OwnInv'
  BY <1>2, RaiseStep DEF Refused, Exhausted, Exception
<1>3. ASSUME NEW p \in Place, Free(p) \/ Nullify(p) PROVE OwnInv'
  BY <1>3, DropStep
<1>4. ASSUME NEW p \in Place, NEW r \in Place, Keep(p, r) PROVE OwnInv'
  BY <1>4, KeepStep
<1>5. ASSUME NEW e \in Exception, MakeThrows(e) PROVE OwnInv'
  <2>1. Making /\ exc' = e /\ UNCHANGED <<pool, stack, crashes>> /\ reply' = reply
    BY <1>5 DEF MakeThrows
  <2>2. stack # <<>> /\ Top.stage = "make" /\ reply \in Exception \union {"none", "ok"}
    BY <2>1 DEF Making, Idle, OwnInv, Calls
  <2> QED BY <2>1, <2>2, QuietStep
<1>6. ASSUME MakeCatches PROVE OwnInv'
  <2>1. exc' = "none" /\ UNCHANGED <<pool, stack, crashes>> /\ reply' = reply
    BY <1>6 DEF MakeCatches
  <2>2. reply \in Exception \union {"none", "ok"}
    BY DEF OwnInv, Calls
  <2> QED BY <2>1, <2>2, QuietStep
<1>7. ASSUME MakeReturns PROVE OwnInv'
  BY <1>7, ReturnStep, ReplacedStep
<1>8. ASSUME UNCHANGED vars PROVE OwnInv'
  <2>1. UNCHANGED <<pool, stack, crashes>> /\ exc' = exc /\ reply' = reply
    BY <1>8 DEF vars, pool
  <2>2. exc \in Exception \union {"none"} /\ reply \in Exception \union {"none", "ok"}
        /\ (exc # "none" => stack # <<>> /\ Top.stage = "make")
    BY DEF OwnInv, Calls
  <2> QED BY <2>1, <2>2, QuietStep
<1> QED BY <1>1, <1>2, <1>3, <1>4, <1>5, <1>6, <1>7, <1>8, UnwindStep, ReleaseStep, RestartStep
        DEF Next, Exception

(* OwnInv holds in every reachable state: through every nesting, failure,  *)
(* replacement and death.                                                  *)
THEOREM OwnInvariant == Spec => []OwnInv
<1> QED BY InitOwns, StepOwns, PTL DEF Spec

(* The types of the module.                                                *)
LEMMA OwnTypes ==
    ASSUME OwnInv
    PROVE  TypeOK
<1>1. Calls /\ ChainOK(stack, state, ptr) /\ ReleaseOK(stack, LiveOf(stack, state), state, ptr)
  BY DEF OwnInv
<1>2. stack \in Seq([blk : Block, place : Place, old : Block \union {Null},
                     stage : {"make", "release"}])
  BY <1>1 DEF ChainOK, Frame
<1>3. ASSUME NEW n \in 1..Len(stack), stack[n].stage = "release" PROVE stack[n].old # Null
  <2>1. Len(stack) \in Nat /\ ~(n < Len(stack)) 
    BY <1>1, <1>3 DEF ChainOK
  <2>2. n = Len(stack) /\ stack # <<>>
    BY <2>1
  <2> QED BY <1>1, <1>3, <2>2, PlacesAssumption DEF ReleaseOK
<1>4. \A f \in Frames : f.stage = "release" => f.old # Null
  BY <1>3 DEF Frames
<1> QED BY <1>1, <1>2, <1>4 DEF TypeOK, Calls

(* Through every nesting, failure, replacement and death, a pointer that   *)
(* can be followed leads to an allocated object, and only copies that the  *)
(* program made lead to the same (allocate_ctr, replace_ctr, free,         *)
(* setPersist).                                                            *)
THEOREM PointersAlwaysOwn == Spec => []PointersOwn
<1>1. OwnInv => PointersOwn
  BY OwnTypes, LiveIs DEF OwnInv, OwnOK, PointersOwn
<1> QED BY <1>1, OwnInvariant, PTL

-----------------------------------------------------------------------------
(***************************************************************************)
(* The reservations.                                                       *)
(***************************************************************************)

HeldOf(st, s) == {b \in Block : s[b] = "reserved"} \ MakingOf(st)

(* The blocks that are reserved for no call, before a step and after it.   *)
LEMMA HeldIs == Held = HeldOf(stack, state) /\ Held' = HeldOf(stack', state')
<1>1. InFrames = MakingOf(stack)
  BY DEF InFrames, Frames, MakingOf
<1>2. InFrames' = MakingOf(stack')
  BY DEF InFrames, Frames, MakingOf
<1>3. Held' = {b \in Block : state'[b] = "reserved"} \ InFrames'
  BY DEF Held
<1> QED BY <1>1, <1>2, <1>3 DEF Held, HeldOf

(* A step that reserves no block, and ends no call that holds one.         *)
LEMMA HeldNoMore ==
    ASSUME \A b \in Block : state'[b] = "reserved" /\ b \notin MakingOf(stack')
               => state[b] = "reserved" /\ b \notin MakingOf(stack)
    PROVE  Held' \subseteq Held
BY HeldIs DEF HeldOf

(* make() returns, or the call fails, or the replaced object is freed: no  *)
(* block stays reserved.                                                   *)
LEMMA EndingHoldsNothing ==
    ASSUME OwnInv, MakeReturns \/ BuildFails \/ Release
    PROVE  Held' \subseteq Held
<1>1. CASE MakeReturns /\ Top.old = Null
  <2>1. stack # <<>> /\ stack' = Pop
    BY <1>1, Published DEF MakeReturns
  <2>2. MakingOf(stack') = MakingOf(stack) \ {Top.blk}
    BY <2>1, Popped
  <2>3. state'[Top.blk] = "used" /\ \A c \in Block : c # Top.blk => state'[c] = state[c]
    BY <1>1, Published
  <2>4. \A b \in Block : state'[b] = "reserved" /\ b \notin MakingOf(stack')
            => state[b] = "reserved" /\ b \notin MakingOf(stack)
    BY <2>2, <2>3
  <2> QED BY <2>4, HeldNoMore
<1>2. CASE MakeReturns /\ Top.old # Null
  <2>1. /\ stack \in Seq(Frame) /\ stack # <<>> /\ Top = stack[Len(stack)]
        /\ state'[Top.blk] = "used" /\ \A c \in Block : c # Top.blk => state'[c] = state[c]
    BY <1>2, Published
  <2>2. stack' = [stack EXCEPT ![Len(stack)].stage = "release"]
    BY <1>2 DEF MakeReturns
  <2>3. /\ Len(stack) \in Nat /\ Len(stack') = Len(stack)
        /\ \A n \in 1..(Len(stack) - 1) : stack'[n] = stack[n]
    BY <2>1, <2>2, StageFacts
  <2>4. ASSUME NEW b \in MakingOf(stack), b # Top.blk PROVE b \in MakingOf(stack')
    <3>1. PICK n \in 1..Len(stack) : stack[n].stage = "make" /\ b = stack[n].blk
      BY DEF MakingOf
    <3>2. n # Len(stack)
      BY <2>1, <2>4, <3>1
    <3>3. n \in 1..(Len(stack) - 1) /\ n \in 1..Len(stack')
      BY <2>3, <3>2
    <3> QED BY <2>3, <3>1, <3>3 DEF MakingOf
  <2>5. \A b \in Block : state'[b] = "reserved" /\ b \notin MakingOf(stack')
            => state[b] = "reserved" /\ b \notin MakingOf(stack)
    BY <2>1, <2>4
  <2> QED BY <2>5, HeldNoMore
<1>3. CASE BuildFails
  <2>1. /\ stack # <<>> /\ stack' = Pop /\ exc # "none"
        /\ state' = [state EXCEPT ![Top.blk] = "free"]
    BY <1>3 DEF BuildFails, Unwind, Idle
  <2>2. MakingOf(stack') = MakingOf(stack) \ {Top.blk}
    BY <2>1, Popped
  <2>3. Top.blk \in Block
    BY <2>1, Popped DEF Frame
  <2>4. state'[Top.blk] = "free" /\ \A c \in Block : c # Top.blk => state'[c] = state[c]
    BY <2>1, <2>3 DEF OwnInv, Calls
  <2>5. \A b \in Block : state'[b] = "reserved" /\ b \notin MakingOf(stack')
            => state[b] = "reserved" /\ b \notin MakingOf(stack)
    BY <2>2, <2>4
  <2> QED BY <2>5, HeldNoMore
<1>4. CASE Release
  <2>1. /\ stack # <<>> /\ stack' = Pop /\ Top.stage = "release"
        /\ state' = [state EXCEPT ![Top.old] = "free"]
    BY <1>4 DEF Release, Idle
  <2>2. /\ MakingOf(stack') = MakingOf(stack) \ {Top.blk} /\ Top = stack[Len(stack)]
    BY <2>1, Popped
  <2>3. Top.blk \notin MakingOf(stack)
    <3> SUFFICES ASSUME NEW n \in 1..Len(stack), stack[n].stage = "make",
                        stack[n].blk = Top.blk
                 PROVE  FALSE
      BY DEF MakingOf
    <3>1. Len(stack) \in 1..Len(stack) /\ n # Len(stack)
      BY <2>1, <2>2, Popped
    <3>2. ChainOK(stack, state, ptr)
      BY DEF OwnInv
    <3>3. stack[n].blk # stack[Len(stack)].blk
      BY <3>1, <3>2 DEF ChainOK
    <3> QED BY <2>2, <3>3
  <2>4. Top.old \in Block
    BY <2>1, <2>2 DEF OwnInv, ReleaseOK
  <2>5. state'[Top.old] = "free" /\ \A c \in Block : c # Top.old => state'[c] = state[c]
    BY <2>1, <2>4 DEF OwnInv, Calls
  <2>6. \A b \in Block : state'[b] = "reserved" /\ b \notin MakingOf(stack')
            => state[b] = "reserved" /\ b \notin MakingOf(stack)
    BY <2>2, <2>3, <2>5
  <2> QED BY <2>6, HeldNoMore
<1> QED BY <1>1, <1>2, <1>3, <1>4

(* A block is held by a reservation nobody will end only by an exception   *)
(* that build() does not catch (AtomicConstructor.h:73-75).                *)
LEMMA StepHolds ==
    ASSUME OwnInv, [Next]_vars
    PROVE  Held' \subseteq Held \/ exc = "other"
<1>1. ASSUME NEW p \in Place, NEW b \in Block, Allocate(p, b) \/ Replace(p, b)
      PROVE  Held' \subseteq Held
  <2> DEFINE f == [blk |-> b, place |-> p, old |-> ptr[p], stage |-> "make"]
  <2>1. stack' = Append(stack, f) /\ state' = [state EXCEPT ![b] = "reserved"]
    BY <1>1 DEF Allocate, Replace, Reserve
  <2>2. stack \in Seq(Frame) /\ f \in Frame /\ f.blk = b /\ f.stage = "make"
        /\ \A c \in Block : c # b => state'[c] = state[c]
    BY <2>1 DEF OwnInv, ChainOK, Calls, Frame
  <2> HIDE DEF f
  <2>3. MakingOf(stack') = MakingOf(stack) \union {b}
    BY <2>1, <2>2, MakingPushed
  <2>4. \A c \in Block : state'[c] = "reserved" /\ c \notin MakingOf(stack')
            => state[c] = "reserved" /\ c \notin MakingOf(stack)
    BY <2>2, <2>3
  <2> QED BY <2>4, HeldNoMore
<1>2. ASSUME NEW p \in Place, Free(p) PROVE Held' \subseteq Held
  <2>1. CanUse(p) /\ ptr[p] # Null /\ stack' = stack
        /\ state' = [state EXCEPT ![ptr[p]] = "free"]
    BY <1>2 DEF Free
  <2>2. p \in LiveOf(stack, state) /\ p \in Place
    BY <2>1, Usable
  <2>3. ptr[p] \in Block
    BY <2>1, <2>2 DEF OwnInv, Calls
  <2>4. state'[ptr[p]] = "free" /\ \A c \in Block : c # ptr[p] => state'[c] = state[c]
    BY <2>1, <2>3 DEF OwnInv, Calls
  <2>5. \A c \in Block : state'[c] = "reserved" /\ c \notin MakingOf(stack')
            => state[c] = "reserved" /\ c \notin MakingOf(stack)
    BY <2>1, <2>4
  <2> QED BY <2>5, HeldNoMore
<1>3. ASSUME state' = state, stack' = stack PROVE Held' \subseteq Held
  BY <1>3, HeldIs
<1>4. ASSUME Restart PROVE Held' \subseteq Held
  <2>1. \A b \in Block : state'[b] # "reserved"
    BY <1>4 DEF Restart
  <2> QED BY <2>1, HeldNoMore
<1>5. ASSUME ForeignUnwinds PROVE exc = "other"
  BY <1>5 DEF ForeignUnwinds
<1>6. ASSUME NEW p \in Place,
             Refused(p) \/ Exhausted(p) \/ Nullify(p) \/ \E q \in Place : Keep(p, q)
      PROVE  state' = state /\ stack' = stack
  BY <1>6 DEF Refused, Exhausted, Nullify, Keep, pool
<1>7. ASSUME (\E e \in {"AllocationError", "other"} : MakeThrows(e)) \/ MakeCatches
             \/ UNCHANGED vars
      PROVE  state' = state /\ stack' = stack
  BY <1>7 DEF MakeThrows, MakeCatches, vars, pool
<1> QED BY <1>1, <1>2, <1>3, <1>4, <1>5, <1>6, <1>7, EndingHoldsNothing DEF Next

(* The same, of every step of every behaviour.                             *)
THEOREM OnlyForeignEverHolds == Spec => OnlyForeignHolds
<1>1. OwnInv /\ [Next]_vars => [Held' \subseteq Held \/ exc = "other"]_vars
  BY StepHolds
<1> QED BY <1>1, OwnInvariant, PTL DEF Spec, OnlyForeignHolds

-----------------------------------------------------------------------------
(***************************************************************************)
(* What can be reached.                                                    *)
(***************************************************************************)

(* The numbers up to n: those not in S would have a smallest one.          *)
LEMMA UpFromZero ==
    ASSUME NEW n \in Nat, NEW S, 0 \in S, \A k \in Nat : k \in S => k + 1 \in S
    PROVE  0..n \subseteq S
<1> DEFINE less == {ss \in Nat \X Nat : ss[1] < ss[2]}
           T == {k \in Nat : k \notin S}
<1>1. IsWellFoundedOn(less, Nat)
  BY NatLessThanWellFounded DEF OpToRel
<1> SUFFICES ASSUME T # {} PROVE FALSE
  OBVIOUS
<1>2. PICK x \in T : \A y \in T : ~(<<y, x>> \in less)
  <2>1. T \in SUBSET Nat
    OBVIOUS
  <2> HIDE DEF T, less
  <2> QED BY <1>1, <2>1, WFMin
<1>3. x \in Nat /\ x \notin S /\ x # 0
  BY <1>2
<1>4. x - 1 \in Nat /\ (x - 1) + 1 = x /\ x - 1 < x
  BY <1>3
<1>5. x - 1 \notin S
  BY <1>3, <1>4
<1>6. x - 1 \in T /\ <<x - 1, x>> \in less
  BY <1>3, <1>4, <1>5
<1> QED BY <1>2, <1>6

(* The blocks that the members of the objects of S lead to, and the levels *)
(* of Closure, for any values q of the pointers.                           *)
Leads(q, S) == {q[p] : p \in UNION {MemberPlaces(b) : b \in S}} \ {Null}
Grown(q, S) == S \union Leads(q, S)
LevelsOf(q, from) ==
    CHOOSE f : f = [n \in 0..Cardinality(Block) |->
                        IF n = 0 THEN from ELSE Grown(q, f[n - 1])]

(* Closure is the last of them, and so is Reachable after a step.          *)
LEMMA ClosureIs ==
    \A from : Closure(from) = LevelsOf(ptr, from)[Cardinality(Block)]
BY DEF Closure, LevelsOf, Grown, Leads, Targets

(* After a step, what the program can reach from its root is the last     *)
(* level of the pointers that the step left.                               *)
LEMMA ReachableNextIs ==
    Reachable' = LevelsOf(ptr', {ptr'[p] : p \in RootPlace} \ {Null})[Cardinality(Block)]
BY DEF Reachable, Closure, LevelsOf, Grown, Leads, Targets

(* The levels are what their recursive definition says.                    *)
LEMMA LevelsGrow ==
    ASSUME NEW q, NEW from
    PROVE  /\ Cardinality(Block) \in Nat
           /\ LevelsOf(q, from)[0] = from
           /\ \A n \in 1..Cardinality(Block) :
                 LevelsOf(q, from)[n] = Grown(q, LevelsOf(q, from)[n - 1])
<1>1. Cardinality(Block) \in Nat
  BY PlacesAssumption, FS_CardinalityType
<1> DEFINE Is(f, m) == f = [n \in 0..m |-> IF n = 0 THEN from ELSE Grown(q, f[n - 1])]
           S == {m \in Nat : \E f : Is(f, m)}
<1>2. 0 \in S
  <2>1. PICK f : f = [n \in 0..0 |-> from]
    OBVIOUS
  <2>2. f = [n \in 0..0 |-> IF n = 0 THEN from ELSE Grown(q, f[n - 1])]
    BY <2>1
  <2> QED BY <2>2
<1>3. ASSUME NEW m \in Nat, m \in S PROVE m + 1 \in S
  <2>1. PICK f : f = [n \in 0..m |-> IF n = 0 THEN from ELSE Grown(q, f[n - 1])]
    BY <1>3
  <2>2. PICK g : g = [n \in 0..(m + 1) |-> IF n = 0 THEN from ELSE Grown(q, f[n - 1])]
    OBVIOUS
  <2>3. \A n \in 0..m : g[n] = f[n]
    BY <2>1, <2>2
  <2>4. \A n \in 0..(m + 1) : n # 0 => n - 1 \in 0..m
    OBVIOUS
  <2>5. g = [n \in 0..(m + 1) |-> IF n = 0 THEN from ELSE Grown(q, g[n - 1])]
    BY <2>2, <2>3, <2>4
  <2>6. m + 1 \in Nat
    OBVIOUS
  <2> QED BY <2>5, <2>6
<1> HIDE DEF S
<1>4. 0..Cardinality(Block) \subseteq S
  BY <1>1, <1>2, <1>3, UpFromZero
<1>5. \E f : Is(f, Cardinality(Block))
  BY <1>1, <1>4 DEF S
<1>6. LevelsOf(q, from) = CHOOSE f : Is(f, Cardinality(Block))
  BY DEF LevelsOf
<1>7. Is(LevelsOf(q, from), Cardinality(Block))
  BY <1>5, <1>6
<1>8. LevelsOf(q, from) = [n \in 0..Cardinality(Block) |->
                              IF n = 0 THEN from ELSE Grown(q, LevelsOf(q, from)[n - 1])]
  BY <1>7
<1>9. 0 \in 0..Cardinality(Block)
      /\ \A n \in 1..Cardinality(Block) : n \in 0..Cardinality(Block) /\ n # 0
  BY <1>1
<1> HIDE DEF Is
<1> QED BY <1>1, <1>8, <1>9

(* The members of the objects of S lead into S, before a change of         *)
(* pointers and after it.                                                  *)
Within(q, q2, S) ==
    \A b \in S : \A x \in MemberPlaces(b) :
        /\ q[x] # Null => q[x] \in S
        /\ q2[x] = q[x]

(* From objects of S whose members lead into S, only S can be reached; and *)
(* if only pointers outside of S changed, what can be reached is the same. *)
LEMMA LevelsStay ==
    ASSUME NEW q, NEW q2, NEW S, NEW from \in SUBSET S, Within(q, q2, S)
    PROVE  /\ LevelsOf(q, from)[Cardinality(Block)] \subseteq S
           /\ LevelsOf(q2, from)[Cardinality(Block)] = LevelsOf(q, from)[Cardinality(Block)]
<1> DEFINE N == Cardinality(Block)
           L == LevelsOf(q, from)
           M == LevelsOf(q2, from)
           Good == {n \in Nat : n \in 0..N => L[n] \subseteq S /\ M[n] = L[n]}
<1>1. /\ N \in Nat /\ L[0] = from /\ M[0] = from
      /\ \A n \in 1..N : L[n] = Grown(q, L[n - 1]) /\ M[n] = Grown(q2, M[n - 1])
  BY LevelsGrow
<1>2. ASSUME NEW T \in SUBSET S PROVE Grown(q, T) \subseteq S /\ Grown(q2, T) = Grown(q, T)
  <2>0. \A b \in T : \A x \in MemberPlaces(b) : (q[x] # Null => q[x] \in S) /\ q2[x] = q[x]
    BY DEF Within
  <2>1. Leads(q, T) \subseteq S
    BY <2>0 DEF Leads
  <2>2. \A p \in UNION {MemberPlaces(b) : b \in T} : q2[p] = q[p]
    BY <2>0
  <2>3. Leads(q2, T) = Leads(q, T)
    BY <2>2 DEF Leads
  <2> QED BY <2>1, <2>3 DEF Grown
<1> HIDE DEF N, L, M
<1>3. 0 \in Good
  BY <1>1
<1>4. ASSUME NEW n \in Nat, n \in Good PROVE n + 1 \in Good
  <2> SUFFICES ASSUME n + 1 \in 0..N PROVE L[n + 1] \subseteq S /\ M[n + 1] = L[n + 1]
    OBVIOUS
  <2>1. n \in 0..N /\ n + 1 \in 1..N /\ (n + 1) - 1 = n
    BY <1>1
  <2>2. L[n] \subseteq S /\ M[n] = L[n]
    BY <1>4, <2>1
  <2>3. L[n + 1] = Grown(q, L[n]) /\ M[n + 1] = Grown(q2, M[n])
    BY <1>1, <2>1
  <2> QED BY <1>2, <2>2, <2>3
<1> HIDE DEF Good
<1>5. 0..N \subseteq Good
  BY <1>1, <1>3, <1>4, UpFromZero
<1>6. N \in Good /\ N \in 0..N
  BY <1>1, <1>5
<1>7. L[N] \subseteq S /\ M[N] = L[N]
  BY <1>6 DEF Good
<1> QED BY <1>7 DEF L, M, N

(* The members of a finished object lead to finished objects, and so do    *)
(* the program's pointers.                                                 *)
LEMMA LeadsToMade ==
    ASSUME OwnInv
    PROVE  /\ Targets(ProgramPlace) \subseteq made
           /\ Targets(RootPlace) \subseteq made
           /\ \A b \in made : \A x \in MemberPlaces(b) : ptr[x] # Null => ptr[x] \in made
<1>1. /\ made = {b \in Block : state[b] = "used"} /\ ptr \in [Place -> Block \union {Null}]
      /\ OwnOK(LiveOf(stack, state), state, ptr)
  BY DEF OwnInv, Calls
<1>2. ASSUME NEW x \in LiveOf(stack, state), ptr[x] # Null PROVE ptr[x] \in made
  <2>1. x \in Place
    BY LiveMember, PlacesApart, MakingReserved
  <2>2. ptr[x] \in Block /\ state[ptr[x]] = "used"
    BY <1>1, <1>2, <2>1 DEF OwnOK
  <2> QED BY <1>1, <2>2
<1>3. \A x \in ProgramPlace : x \in LiveOf(stack, state)
  BY LiveMember
<1>4. \A b \in made : \A x \in MemberPlaces(b) : x \in LiveOf(stack, state)
  BY <1>1, LiveMember
<1>5. \A x \in ProgramPlace : ptr[x] # Null => ptr[x] \in made
  BY <1>2, <1>3
<1>6. Targets(ProgramPlace) \subseteq made /\ Targets(RootPlace) \subseteq made
  BY <1>5, PlacesApart DEF Targets
<1> QED BY <1>2, <1>4, <1>6

(* README.md: publication is the last action of construction.  Nobody can  *)
(* get to an object whose make() has not returned.                         *)
THEOREM PublishedAlwaysComplete == Spec => []PublishedAreComplete
<1>1. ASSUME OwnInv PROVE PublishedAreComplete
  <2>1. PICK from : from = Targets(ProgramPlace)
    OBVIOUS
  <2>2. from \in SUBSET made /\ Within(ptr, ptr, made)
    BY <1>1, <2>1, LeadsToMade DEF Within
  <2>3. LevelsOf(ptr, from)[Cardinality(Block)] \subseteq made
    BY <2>2, LevelsStay
  <2> QED BY <2>1, <2>3, ClosureIs DEF PublishedAreComplete
<1> QED BY <1>1, OwnInvariant, PTL

(* A step that changes no pointer of the root object, nor one of a         *)
(* finished object, cannot be seen by a reader.                            *)
LEMMA NotSeen ==
    ASSUME OwnInv, \A x \in RootPlace : ptr'[x] = ptr[x],
           \A b \in made : \A x \in MemberPlaces(b) : ptr'[x] = ptr[x]
    PROVE  Visible' = Visible
<1>1. PICK from : from = Targets(RootPlace)
  OBVIOUS
<1>2. {ptr'[p] : p \in RootPlace} \ {Null} = from
  BY <1>1 DEF Targets
<1>3. from \in SUBSET made /\ Within(ptr, ptr', made)
  BY <1>1, LeadsToMade DEF Within
<1>4. /\ LevelsOf(ptr, from)[Cardinality(Block)] \subseteq made
      /\ LevelsOf(ptr', from)[Cardinality(Block)] = LevelsOf(ptr, from)[Cardinality(Block)]
  BY <1>3, LevelsStay
<1>5. Reachable = LevelsOf(ptr, from)[Cardinality(Block)]
  BY <1>1, ClosureIs DEF Reachable
<1>6. Reachable' = Reachable /\ Reachable \subseteq made
  BY <1>2, <1>4, <1>5, ReachableNextIs
<1>7. \A x \in RootPlace \union UNION {MemberPlaces(b) : b \in Reachable} : ptr'[x] = ptr[x]
  BY <1>6
<1>8. Visible' = [p \in RootPlace \union UNION {MemberPlaces(b) : b \in Reachable'} |-> ptr'[p]]
  BY DEF Visible, MemberPlaces
<1>9. Visible = [p \in RootPlace \union UNION {MemberPlaces(b) : b \in Reachable} |-> ptr[p]]
  BY DEF Visible
<1> QED BY <1>6, <1>7, <1>8, <1>9

(* What a nested call can work on, nobody can see: members of an object    *)
(* that is being made.                                                     *)
LEMMA MadeUnseen ==
    ASSUME OwnInv, NEW p, NEW b \in MakingOf(stack), p \in MemberPlaces(b)
    PROVE  p \notin RootPlace /\ \A c \in made : p \notin MemberPlaces(c)
<1>1. b \in Block /\ state[b] = "reserved"
  BY MakingReserved
<1>2. \A c \in made : c \in Block /\ c # b
  BY <1>1 DEF OwnInv, Calls
<1> QED BY <1>1, <1>2, PlacesApart

(* While a call is inside the allocator, a reader sees a change only when  *)
(* the outermost call succeeds.                                            *)
LEMMA StepShows ==
    ASSUME OwnInv, [Next]_vars, ~Idle
    PROVE  Visible' = Visible \/ (Len(stack) = 1 /\ (stack' = <<>> => reply' = "ok"))
<1>1. /\ \A x \in RootPlace : x \in Place
      /\ \A b \in made : \A x \in MemberPlaces(b) : x \in Place
      /\ \A b \in made : b \in Block /\ state[b] = "used"
  BY PlacesApart DEF OwnInv, Calls
<1>2. ASSUME NEW p, CanUse(p)
      PROVE  p \notin RootPlace /\ \A c \in made : p \notin MemberPlaces(c)
  <2>1. Making /\ p \in MemberPlaces(Top.blk)
    BY <1>2 DEF CanUse
  <2>2. Len(stack) \in 1..Len(stack) /\ stack[Len(stack)].stage = "make"
    BY <2>1 DEF OwnInv, ChainOK, Making, Idle, Top
  <2>3. Top.blk \in MakingOf(stack)
    BY <2>2 DEF MakingOf, Top
  <2> QED BY <2>1, <2>3, MadeUnseen
<1>3. ASSUME NEW p \in Place, NEW b \in Block, Allocate(p, b) \/ Replace(p, b)
      PROVE  Visible' = Visible
  <2>1. ptr' = Nullified(b) /\ state[b] = "free"
    BY <1>3 DEF Allocate, Replace, Reserve
  <2>2. \A x \in Place : x \notin MemberPlaces(b) => ptr'[x] = ptr[x]
    BY <2>1 DEF Nullified
  <2>3. /\ \A x \in RootPlace : x \notin MemberPlaces(b)
        /\ \A c \in made : \A x \in MemberPlaces(c) : x \notin MemberPlaces(b)
    BY <1>1, <2>1, PlacesApart
  <2>4. /\ \A x \in RootPlace : ptr'[x] = ptr[x]
        /\ \A c \in made : \A x \in MemberPlaces(c) : ptr'[x] = ptr[x]
    BY <1>1, <2>2, <2>3
  <2> QED BY <2>4, NotSeen
<1>4. ASSUME NEW p \in Place, Free(p) \/ Nullify(p) PROVE Visible' = Visible
  <2>1. CanUse(p) /\ ptr' = [ptr EXCEPT ![p] = Null] /\ ptr \in [Place -> Block \union {Null}]
    BY <1>4 DEF Free, Nullify, OwnInv, Calls
  <2>2. \A x \in Place : x # p => ptr'[x] = ptr[x]
    BY <2>1
  <2>3. /\ \A x \in RootPlace : ptr'[x] = ptr[x]
        /\ \A c \in made : \A x \in MemberPlaces(c) : ptr'[x] = ptr[x]
    BY <1>1, <1>2, <2>1, <2>2
  <2> QED BY <2>3, NotSeen
<1>5. ASSUME ptr' = ptr PROVE Visible' = Visible
  BY <1>5, NotSeen
<1>6. ASSUME MakeReturns, Len(stack) # 1 PROVE Visible' = Visible
  <2>1. /\ Len(stack) \in 1..Len(stack) /\ Top = stack[Len(stack)]
        /\ ChainOK(stack, state, ptr)
        /\ \A x \in Place : x # Top.place => ptr'[x] = ptr[x]
    BY <1>6, Published
  <2>2. Len(stack) - 1 \in 1..Len(stack) /\ Len(stack) - 1 < Len(stack)
    BY <1>6, <2>1, CallPlaces, Before
  <2>3. stack[Len(stack) - 1].blk \in MakingOf(stack)
    BY <2>1, <2>2 DEF ChainOK, MakingOf
  <2>4. Top.place \in MemberPlaces(stack[Len(stack) - 1].blk)
    BY <1>6, <2>1 DEF ChainOK, PlacesOf
  <2>5. Top.place \notin RootPlace /\ \A c \in made : Top.place \notin MemberPlaces(c)
    BY <2>3, <2>4, MadeUnseen
  <2>6. /\ \A x \in RootPlace : ptr'[x] = ptr[x]
        /\ \A c \in made : \A x \in MemberPlaces(c) : ptr'[x] = ptr[x]
    BY <1>1, <2>1, <2>5
  <2> QED BY <2>6, NotSeen
<1>7. ASSUME MakeReturns, Len(stack) = 1 PROVE stack' = <<>> => reply' = "ok"
  <2>1. CASE Top.old = Null
    BY <1>7, <2>1 DEF MakeReturns
  <2>2. CASE Top.old # Null
    <3>1. stack \in Seq(Frame) /\ stack # <<>>
      BY <1>7, Published
    <3>2. stack' = [stack EXCEPT ![Len(stack)].stage = "release"]
      BY <1>7, <2>2 DEF MakeReturns
    <3> QED BY <3>1, <3>2, StageFacts
  <2> QED BY <2>1, <2>2
<1>8. ASSUME Restart PROVE Visible' = Visible
  <2>1. ptr' = [ptr EXCEPT ![Ret] = Null] /\ ptr \in [Place -> Block \union {Null}]
    BY <1>8 DEF Restart, OwnInv, Calls
  <2>2. \A x \in Place : x # Ret => ptr'[x] = ptr[x]
    BY <2>1
  <2>3. /\ \A x \in RootPlace : ptr'[x] = ptr[x]
        /\ \A c \in made : \A x \in MemberPlaces(c) : ptr'[x] = ptr[x]
    BY <1>1, <2>2, PlacesApart
  <2> QED BY <2>3, NotSeen
<1>9. ASSUME \/ \E p \in Place : Refused(p) \/ Exhausted(p)
             \/ \E e \in {"AllocationError", "other"} : MakeThrows(e)
             \/ MakeCatches \/ BuildFails \/ ForeignUnwinds \/ Release \/ UNCHANGED vars
      PROVE  ptr' = ptr
  BY <1>9 DEF Refused, Exhausted, MakeThrows, MakeCatches, BuildFails, ForeignUnwinds,
              Release, vars, pool
<1>10. ASSUME NEW p \in Place, NEW r \in Place PROVE ~Keep(p, r)
  BY DEF Keep
<1> QED BY <1>3, <1>4, <1>5, <1>6, <1>7, <1>8, <1>9, <1>10 DEF Next

(* PersistentPtr.h: "if anything fails in the chain of construction, the   *)
(* original object is left unchanged".  While a call is inside the         *)
(* allocator, a reader of the pool sees a change only at the one step at   *)
(* which the outermost call succeeds, and none if the call throws.         *)
THEOREM OnlySuccessEverShows == Spec => OnlySuccessShows
<1>1. OwnInv /\ [Next]_vars
          => [~Idle /\ Visible' # Visible
                => /\ Len(stack) = 1
                   /\ (stack' = <<>> => reply' = "ok")]_vars
  BY StepShows
<1> QED BY <1>1, OwnInvariant, PTL DEF Spec, OnlySuccessShows

-----------------------------------------------------------------------------
(***************************************************************************)
(* What gets out of reach.                                                 *)
(***************************************************************************)

(* As many levels as there are blocks are enough: a level that is not the  *)
(* last one has a block more than the one before.                          *)
LEMMA LevelsEnd ==
    ASSUME NEW q \in [Place -> Block \union {Null}], NEW from \in SUBSET Block,
           NEW R, R = LevelsOf(q, from)[Cardinality(Block)]
    PROVE  /\ from \subseteq R /\ R \subseteq Block
           /\ \A b \in R : \A x \in MemberPlaces(b) : q[x] # Null => q[x] \in R
<1> DEFINE N == Cardinality(Block)
           L == LevelsOf(q, from)
           Good == {n \in Nat : n \in 0..N =>
                       /\ from \subseteq L[n] /\ L[n] \subseteq Block
                       /\ Grown(q, L[n]) = L[n] \/ Cardinality(L[n]) >= n}
<1>1. /\ N \in Nat /\ L[0] = from
      /\ \A n \in 1..N : L[n] = Grown(q, L[n - 1])
  BY LevelsGrow
<1>2. ASSUME NEW T \in SUBSET Block PROVE Grown(q, T) \in SUBSET Block /\ T \subseteq Grown(q, T)
  <2>1. \A b \in T : \A x \in MemberPlaces(b) : q[x] # Null => q[x] \in Block
    BY PlacesApart
  <2>2. Leads(q, T) \subseteq Block
    BY <2>1 DEF Leads
  <2> QED BY <2>2 DEF Grown
<1>3. ASSUME NEW T \in SUBSET Block PROVE IsFiniteSet(T) /\ Cardinality(T) \in Nat
  BY PlacesAssumption, FS_Subset, FS_CardinalityType
<1> HIDE DEF N, L
<1>4. 0 \in Good
  <2>1. Cardinality(from) \in Nat
    BY <1>3
  <2>2. Cardinality(from) >= 0
    BY <2>1
  <2> QED BY <1>1, <2>2
<1>5. ASSUME NEW n \in Nat, n \in Good PROVE n + 1 \in Good
  <2> SUFFICES ASSUME n + 1 \in 0..N
               PROVE  /\ from \subseteq L[n + 1] /\ L[n + 1] \subseteq Block
                      /\ Grown(q, L[n + 1]) = L[n + 1] \/ Cardinality(L[n + 1]) >= n + 1
    OBVIOUS
  <2>1. n \in 0..N /\ n + 1 \in 1..N /\ (n + 1) - 1 = n
    BY <1>1
  <2>2. /\ from \subseteq L[n] /\ L[n] \subseteq Block
        /\ Grown(q, L[n]) = L[n] \/ Cardinality(L[n]) >= n
    BY <1>5, <2>1
  <2>3. L[n + 1] = Grown(q, L[n])
    BY <1>1, <2>1
  <2>4. from \subseteq L[n + 1] /\ L[n + 1] \subseteq Block /\ L[n] \subseteq L[n + 1]
    BY <1>2, <2>2, <2>3
  <2>5. CASE Grown(q, L[n]) = L[n]
    BY <2>3, <2>4, <2>5
  <2>6. CASE Grown(q, L[n]) # L[n]
    <3>1. /\ Cardinality(L[n]) <= Cardinality(L[n + 1])
          /\ Cardinality(L[n]) # Cardinality(L[n + 1])
      <4>1. IsFiniteSet(L[n + 1])
        BY <1>3, <2>4
      <4>2. L[n] # L[n + 1]
        BY <2>3, <2>6
      <4> QED BY <2>4, <4>1, <4>2, FS_Subset
    <3>2. Cardinality(L[n]) \in Nat /\ Cardinality(L[n + 1]) \in Nat /\ Cardinality(L[n]) >= n
      BY <1>3, <2>2, <2>4, <2>6
    <3>3. \A a, c \in Nat : a >= n /\ a <= c /\ a # c => c >= n + 1
      OBVIOUS
    <3> QED BY <2>4, <3>1, <3>2, <3>3
  <2> QED BY <2>5, <2>6
<1> HIDE DEF Good
<1>6. 0..N \subseteq Good
  BY <1>1, <1>4, <1>5, UpFromZero
<1>7. N \in Good /\ N \in 0..N
  BY <1>1, <1>6
<1>8. /\ from \subseteq L[N] /\ L[N] \subseteq Block
      /\ Grown(q, L[N]) = L[N] \/ Cardinality(L[N]) >= N
  BY <1>7 DEF Good
<1>9. Grown(q, L[N]) = L[N]
  <2>1. CASE Cardinality(L[N]) >= N
    <3>1. Cardinality(L[N]) <= N /\ (Cardinality(L[N]) = N => L[N] = Block)
      BY <1>8, PlacesAssumption, FS_Subset DEF N
    <3>2. Cardinality(L[N]) \in Nat
      BY <1>3, <1>8
    <3>3. Cardinality(L[N]) = N
      BY <1>1, <2>1, <3>1, <3>2
    <3> QED BY <1>2, <1>8, <3>1, <3>3
  <2> QED BY <1>8, <2>1
<1>10. R = L[N]
  BY DEF L, N
<1>11. \A b \in R : \A x \in MemberPlaces(b) : q[x] # Null => q[x] \in R
  BY <1>9, <1>10 DEF Grown, Leads
<1> QED BY <1>8, <1>10, <1>11

(* The blocks that the program and the calls know of.                      *)
StartOf(st, q) == ({q[p] : p \in ProgramPlace} \ {Null})
                     \union {st[n].blk : n \in 1..Len(st)}
                     \union {st[n].old : n \in {m \in 1..Len(st) : st[m].stage = "release"}}

(* Found is what is reached from them, before a step and after it.         *)
LEMMA FoundIs == Found = LevelsOf(ptr, StartOf(stack, ptr))[Cardinality(Block)]
<1>1. Targets(ProgramPlace) \union {f.blk : f \in Frames} \union Released
          = StartOf(stack, ptr)
  BY DEF Targets, Frames, Released, StartOf
<1> QED BY <1>1, ClosureIs DEF Found

(* The same of what the program and its calls can find, after a step.      *)
LEMMA FoundNextIs == Found' = LevelsOf(ptr', StartOf(stack', ptr'))[Cardinality(Block)]
<1>1. (Targets(ProgramPlace) \union {f.blk : f \in Frames} \union Released)'
          = StartOf(stack', ptr')
  BY DEF Targets, Frames, Released, StartOf, ProgramPlace, RootPlace, Ret
<1>2. PICK from : from = StartOf(stack', ptr')
  OBVIOUS
<1>3. Found' = LevelsOf(ptr', (Targets(ProgramPlace)
                                  \union {f.blk : f \in Frames} \union Released)')[Cardinality(Block)]
  BY DEF Found, Closure, LevelsOf, Grown, Leads, Targets
<1> QED BY <1>1, <1>3

(* In a state that keeps the invariant the start is in the pool.           *)
LEMMA StartInPool ==
    ASSUME NEW st, NEW s, NEW q \in [Place -> Block \union {Null}], ChainOK(st, s, q),
           ReleaseOK(st, LiveOf(st, s), s, q)
    PROVE  StartOf(st, q) \in SUBSET Block
<1>1. \A n \in 1..Len(st) : st[n].blk \in Block
  BY CallPlaces DEF Frame
<1>2. ASSUME NEW n \in 1..Len(st), st[n].stage = "release" PROVE st[n].old \in Block
  <2>1. Len(st) \in Nat /\ ~(n < Len(st))
    BY <1>2 DEF ChainOK
  <2>2. n = Len(st) /\ st # <<>>
    BY <2>1
  <2> QED BY <1>2, <2>2 DEF ReleaseOK
<1>3. \A p \in ProgramPlace : q[p] # Null => q[p] \in Block
  BY PlacesApart
<1> QED BY <1>1, <1>2, <1>3 DEF StartOf

(* What can be found after a step: what the program's pointers lead to,    *)
(* the blocks of the calls, and what these lead to.                        *)
LEMMA FoundAfter ==
    ASSUME OwnInv, OwnInv'
    PROVE  /\ \A p \in ProgramPlace : ptr'[p] # Null => ptr'[p] \in Found'
           /\ \A n \in 1..Len(stack') :
                 /\ stack'[n].blk \in Found'
                 /\ stack'[n].stage = "release" => stack'[n].old \in Found'
           /\ \A c \in Found' : c \in Block
           /\ \A c \in Found' : \A x \in MemberPlaces(c) : ptr'[x] # Null => ptr'[x] \in Found'
<1>1. /\ ptr' \in [Place -> Block \union {Null}] /\ ChainOK(stack', state', ptr')
      /\ ReleaseOK(stack', LiveOf(stack', state'), state', ptr')
  BY DEF OwnInv, Calls
<1>2. StartOf(stack', ptr') \in SUBSET Block
  BY <1>1, StartInPool
<1>3. PICK q : q = ptr'
  OBVIOUS
<1>4. PICK from : from = StartOf(stack', ptr')
  OBVIOUS
<1>5. PICK R : R = LevelsOf(q, from)[Cardinality(Block)]
  OBVIOUS
<1>6. /\ from \subseteq R /\ R \subseteq Block
      /\ \A c \in R : \A x \in MemberPlaces(c) : q[x] # Null => q[x] \in R
  <2>1. q \in [Place -> Block \union {Null}] /\ from \in SUBSET Block
    BY <1>1, <1>2, <1>3, <1>4
  <2> QED BY <1>5, <2>1, LevelsEnd
<1>7. Found' = R
  BY <1>3, <1>4, <1>5, FoundNextIs
<1>8. /\ \A p \in ProgramPlace : ptr'[p] # Null => ptr'[p] \in from
      /\ \A n \in 1..Len(stack') :
            /\ stack'[n].blk \in from
            /\ stack'[n].stage = "release" => stack'[n].old \in from
  BY <1>4 DEF StartOf
<1> QED BY <1>3, <1>6, <1>7, <1>8

(* What a step may lose, X, apart: if what could be found before can be    *)
(* found after it, nothing else is lost.                                   *)
KeepsFound(F, X) ==
    /\ \A p \in ProgramPlace : ptr[p] # Null => ptr[p] \in F \union X
    /\ \A n \in 1..Len(stack) :
          /\ stack[n].blk \in F \union X
          /\ stack[n].stage = "release" => stack[n].old \in F \union X
    /\ \A c \in F \union X : \A x \in MemberPlaces(c) :
          (c \in Block /\ (state[c] = "used" \/ c \in MakingOf(stack)) /\ ptr[x] # Null)
              => ptr[x] \in F \union X

(* If what was found before a step is found after it, up to what the step  *)
(* freed, then no more is lost: nothing that stays allocated is forgotten. *)
LEMMA LostNoMore ==
    ASSUME OwnInv, NEW F, NEW X, KeepsFound(F, X), F = Found',
           \A b \in Block : state'[b] = "used" /\ b \notin F => state[b] = "used" /\ b \notin X
    PROVE  Lost' \subseteq Lost
<1> DEFINE S == {b \in F \union X : b \in Block
                                    /\ (state[b] = "used" \/ b \in MakingOf(stack))}
<1>1. /\ ptr \in [Place -> Block \union {Null}] /\ ChainOK(stack, state, ptr)
      /\ OwnOK(LiveOf(stack, state), state, ptr)
      /\ ReleaseOK(stack, LiveOf(stack, state), state, ptr)
  BY DEF OwnInv, Calls
<1>2. ASSUME NEW x \in LiveOf(stack, state), ptr[x] # Null
      PROVE  ptr[x] \in Block /\ state[ptr[x]] = "used"
  <2>1. x \in Place
    BY LiveMember, PlacesApart, MakingReserved
  <2> QED BY <1>1, <1>2, <2>1 DEF OwnOK
<1>3. ASSUME NEW c \in S, NEW x \in MemberPlaces(c), ptr[x] # Null PROVE ptr[x] \in S
  <2>1. x \in LiveOf(stack, state)
    BY LiveMember
  <2>2. ptr[x] \in F \union X
    BY <1>3 DEF KeepsFound
  <2> QED BY <1>2, <1>3, <2>1, <2>2
<1>4. ASSUME NEW p \in ProgramPlace, ptr[p] # Null PROVE ptr[p] \in S
  <2>1. p \in LiveOf(stack, state) /\ ptr[p] \in F \union X
    BY <1>4, LiveMember DEF KeepsFound
  <2> QED BY <1>2, <1>4, <2>1
<1>5. ASSUME NEW n \in 1..Len(stack)
      PROVE  stack[n].blk \in S /\ (stack[n].stage = "release" => stack[n].old \in S)
  <2>1. stack[n] \in Frame /\ stack[n].place \in LiveOf(stack, state)
    BY <1>1, CallPlaces
  <2>2. stack[n].blk \in Block /\ stack[n].blk \in F \union X
    BY <2>1 DEF KeepsFound, Frame
  <2>3. CASE stack[n].stage = "make"
    BY <2>2, <2>3 DEF MakingOf
  <2>4. CASE stack[n].stage = "release"
    <3>1. Len(stack) \in Nat /\ ~(n < Len(stack))
      BY <1>1, <2>4 DEF ChainOK
    <3>2. n = Len(stack) /\ stack # <<>>
      BY <3>1
    <3>3. /\ stack[n].old \in Block /\ state[stack[n].old] = "used"
          /\ ptr[stack[n].place] = stack[n].blk
      BY <1>1, <2>4, <3>2 DEF ReleaseOK
    <3>4. state[stack[n].blk] = "used"
      BY <1>2, <2>1, <2>2, <3>3, PlacesAssumption
    <3>5. stack[n].old \in F \union X
      BY <2>4 DEF KeepsFound
    <3> QED BY <2>2, <3>3, <3>4, <3>5
  <2> QED BY <2>1, <2>3, <2>4 DEF Frame
<1> HIDE DEF S
<1>6. StartOf(stack, ptr) \in SUBSET S
  BY <1>4, <1>5 DEF StartOf
<1>7. Within(ptr, ptr, S)
  BY <1>3 DEF Within
<1>8. Found \subseteq S
  BY <1>6, <1>7, FoundIs, LevelsStay
<1>9. S \subseteq F \union X
  BY DEF S
<1>10. Lost' = {b \in Block : state'[b] = "used"} \ F
  BY DEF Lost
<1> QED BY <1>8, <1>9, <1>10 DEF Lost

(* A call begins, in a block that was free.                                *)
LEMMA ReserveLosesNothing ==
    ASSUME OwnInv, OwnInv', NEW p \in Place, NEW b \in Block, CanUse(p), Reserve(b, p)
    PROVE  Lost' \subseteq Lost
<1> DEFINE f == [blk |-> b, place |-> p, old |-> ptr[p], stage |-> "make"]
<1>1. PICK F : F = Found'
  OBVIOUS
<1>2. /\ state[b] = "free" /\ state' = [state EXCEPT ![b] = "reserved"]
      /\ ptr' = Nullified(b) /\ stack' = Append(stack, f)
  BY DEF Reserve
<1>3. stack \in Seq(Frame) /\ f \in Frame
  BY DEF OwnInv, Calls, ChainOK, Frame
<1> HIDE DEF f
<1>4. \A n \in 1..Len(stack) : /\ n \in 1..Len(stack') /\ stack'[n] = stack[n]
                               /\ stack[n].stage = "make"
  <2>1. Len(stack) \in Nat /\ Len(stack') = Len(stack) + 1
        /\ \A n \in 1..Len(stack) : stack'[n] = stack[n]
    BY <1>2, <1>3, PushFacts
  <2>2. \A n \in 1..Len(stack) : stack[n].stage = "make"
    BY Usable
  <2> QED BY <2>1, <2>2
<1>5. /\ \A x \in Place : x \notin MemberPlaces(b) => ptr'[x] = ptr[x]
      /\ \A c \in Block : c # b => state'[c] = state[c]
      /\ state'[b] = "reserved"
  BY <1>2 DEF Nullified, OwnInv, Calls
<1>6. /\ \A x \in ProgramPlace : x \in Place /\ x \notin MemberPlaces(b)
      /\ \A c \in Block : c # b => \A x \in MemberPlaces(c) : x \in Place /\ x \notin MemberPlaces(b)
  BY PlacesApart
<1>7. \A c \in Block : state[c] = "used" \/ c \in MakingOf(stack) => c # b
  BY <1>2, MakingReserved
<1>8. /\ \A x \in ProgramPlace : ptr'[x] # Null => ptr'[x] \in F
      /\ \A n \in 1..Len(stack') : stack'[n].blk \in F
      /\ \A c \in F : \A x \in MemberPlaces(c) : ptr'[x] # Null => ptr'[x] \in F
  BY <1>1, FoundAfter
<1>9. KeepsFound(F, {})
  BY <1>4, <1>5, <1>6, <1>7, <1>8 DEF KeepsFound
<1>10. \A c \in Block : state'[c] = "used" /\ c \notin F => state[c] = "used" /\ c \notin {}
  BY <1>5
<1> QED BY <1>1, <1>9, <1>10, LostNoMore

(* What a call has published is found: it is in its pointer, and that is   *)
(* the program's, or a member of an object that is found.                  *)
LEMMA PublishedIsFound ==
    ASSUME OwnInv, OwnInv', stack # <<>>, stack' = Pop, ptr'[Top.place] = Top.blk
    PROVE  Top.blk \in Found'
<1>1. /\ Top = stack[Len(stack)] /\ Top \in Frame /\ Len(stack) \in 1..Len(stack)
      /\ Len(stack') = Len(stack) - 1
      /\ \A n \in 1..Len(stack') : stack'[n] = stack[n]
  BY Popped
<1>2. ChainOK(stack, state, ptr) /\ Len(stack) \in Nat
  BY <1>1 DEF OwnInv, ChainOK
<1>3. Top.blk # Null
  BY <1>1, PlacesAssumption DEF Frame
<1>4. PICK F : F = Found'
  OBVIOUS
<1>5. /\ \A x \in ProgramPlace : ptr'[x] # Null => ptr'[x] \in F
      /\ \A n \in 1..Len(stack') : stack'[n].blk \in F
      /\ \A c \in F : \A x \in MemberPlaces(c) : ptr'[x] # Null => ptr'[x] \in F
  BY <1>4, FoundAfter
<1>6. Top.place \in PlacesOf(stack, Len(stack))
  BY <1>1, <1>2 DEF ChainOK
<1>7. CASE Len(stack) = 1
  <2>1. Top.place \in ProgramPlace
    BY <1>6, <1>7 DEF PlacesOf
  <2> QED BY <1>3, <1>4, <1>5, <2>1
<1>8. CASE Len(stack) # 1
  <2>1. Len(stack) - 1 \in 1..Len(stack')
    BY <1>1, <1>2, <1>8
  <2>2. Top.place \in MemberPlaces(stack[Len(stack) - 1].blk)
    BY <1>6, <1>8 DEF PlacesOf
  <2>3. stack[Len(stack) - 1].blk \in F
    BY <1>1, <1>5, <2>1
  <2> QED BY <1>3, <1>4, <1>5, <2>2, <2>3
<1> QED BY <1>7, <1>8

(* The other calls and their blocks, when the innermost one ends.          *)
LEMMA OthersAreFound ==
    ASSUME OwnInv, OwnInv', stack # <<>>, stack' = Pop
    PROVE  \A n \in 1..Len(stack) : n # Len(stack)
              => stack[n].blk \in Found' /\ stack[n].stage = "make"
<1>1. /\ Len(stack) \in 1..Len(stack) /\ Len(stack') = Len(stack) - 1
      /\ \A n \in 1..Len(stack') : stack'[n] = stack[n] /\ stack[n].stage = "make"
  BY Popped
<1>2. \A n \in 1..Len(stack) : n # Len(stack) => n \in 1..Len(stack')
  BY <1>1
<1>3. PICK F : F = Found'
  OBVIOUS
<1>4. \A n \in 1..Len(stack') : stack'[n].blk \in F
  BY <1>3, FoundAfter
<1> QED BY <1>1, <1>2, <1>3, <1>4

(* make() returns: what was replaced is still known to the call.           *)
LEMMA PublishingLosesNothing ==
    ASSUME OwnInv, OwnInv', MakeReturns
    PROVE  Lost' \subseteq Lost
<1>1. PICK F : F = Found'
  OBVIOUS
<1>2. /\ stack # <<>> /\ stack \in Seq(Frame) /\ Len(stack) \in 1..Len(stack)
      /\ ChainOK(stack, state, ptr)
      /\ Top = stack[Len(stack)] /\ Top.stage = "make" /\ ptr[Top.place] = Top.old
      /\ ptr'[Top.place] = Top.blk
      /\ \A c \in Block : c # Top.blk => state'[c] = state[c]
      /\ \A x \in Place : x # Top.place => ptr'[x] = ptr[x]
  BY Published
<1>3. /\ \A x \in ProgramPlace : ptr'[x] # Null => ptr'[x] \in F
      /\ \A n \in 1..Len(stack') :
            /\ stack'[n].blk \in F
            /\ stack'[n].stage = "release" => stack'[n].old \in F
      /\ \A c \in F : \A x \in MemberPlaces(c) : ptr'[x] # Null => ptr'[x] \in F
  BY <1>1, FoundAfter
<1>4. Top.blk \in F /\ (Top.old # Null => Top.old \in F)
      /\ \A n \in 1..Len(stack) : n # Len(stack) => stack[n].blk \in F /\ stack[n].stage = "make"
  <2>1. CASE Top.old = Null
    <3>1. stack' = Pop
      BY <2>1 DEF MakeReturns
    <3> QED BY <1>1, <1>2, <2>1, <3>1, PublishedIsFound, OthersAreFound
  <2>2. CASE Top.old # Null
    <3>1. stack' = [stack EXCEPT ![Len(stack)].stage = "release"]
      BY <2>2 DEF MakeReturns
    <3>2. /\ Len(stack) \in Nat /\ Len(stack') = Len(stack)
          /\ \A n \in 1..(Len(stack) - 1) : stack'[n] = stack[n]
          /\ stack'[Len(stack)].blk = Top.blk /\ stack'[Len(stack)].old = Top.old
          /\ stack'[Len(stack)].stage = "release"
      <4>1. stack \in Seq(Frame) /\ stack # <<>> /\ Top = stack[Len(stack)]
        BY <1>2
      <4> QED BY <3>1, <4>1, StageFacts
    <3>3. Top.blk \in F /\ Top.old \in F
      BY <1>2, <1>3, <3>2
    <3>4. ASSUME NEW n \in 1..Len(stack), n # Len(stack)
          PROVE  stack[n].blk \in F /\ stack[n].stage = "make"
      <4>1. n \in 1..(Len(stack) - 1) /\ n \in 1..Len(stack') /\ n < Len(stack)
        BY <3>2, <3>4
      <4>2. stack[n].blk \in F
        BY <1>3, <3>2, <4>1
      <4> QED BY <1>2, <4>1, <4>2 DEF ChainOK
    <3> QED BY <3>3, <3>4
  <2> QED BY <2>1, <2>2
<1>5. /\ \A x \in ProgramPlace : x \in Place
      /\ \A c \in Block : \A x \in MemberPlaces(c) : x \in Place
  BY PlacesApart
<1>6. /\ \A x \in ProgramPlace : ptr[x] # Null => ptr[x] \in F
      /\ \A c \in F : c \in Block => \A x \in MemberPlaces(c) : ptr[x] # Null => ptr[x] \in F
  BY <1>2, <1>3, <1>4, <1>5
<1>7. \A n \in 1..Len(stack) : stack[n].blk \in F /\ stack[n].stage = "make"
  BY <1>2, <1>4
<1>8. KeepsFound(F, {})
  BY <1>6, <1>7 DEF KeepsFound
<1>9. \A c \in Block : state'[c] = "used" /\ c \notin F => state[c] = "used" /\ c \notin {}
  BY <1>2, <1>4
<1> QED BY <1>1, <1>8, <1>9, LostNoMore

(* A call ends by an exception, and its object has no members; or the      *)
(* object that was replaced is freed, and has none.                        *)
LEMMA EndingLosesNothing ==
    ASSUME OwnInv, OwnInv',
           \/ (BuildFails \/ ForeignUnwinds) /\ ~HasMembers(Top.blk)
           \/ Release /\ ~HasMembers(Top.old)
    PROVE  Lost' \subseteq Lost
<1>1. PICK F : F = Found'
  OBVIOUS
<1>2. stack # <<>> /\ stack' = Pop /\ ptr' = ptr
  BY DEF BuildFails, ForeignUnwinds, Release, Unwind, Idle, pool
<1>3. /\ \A x \in ProgramPlace : ptr[x] # Null => ptr[x] \in F
      /\ \A c \in F : \A x \in MemberPlaces(c) : ptr[x] # Null => ptr[x] \in F
  BY <1>1, <1>2, FoundAfter
<1>4. \A n \in 1..Len(stack) : n # Len(stack) => stack[n].blk \in F /\ stack[n].stage = "make"
  BY <1>1, <1>2, OthersAreFound
<1>5. /\ Top = stack[Len(stack)] /\ Top \in Frame /\ Len(stack) \in 1..Len(stack)
      /\ ChainOK(stack, state, ptr) /\ ReleaseOK(stack, LiveOf(stack, state), state, ptr)
      /\ state \in [Block -> {"free", "reserved", "used"}]
  BY <1>2, Popped DEF OwnInv, Calls
<1>6. CASE (BuildFails \/ ForeignUnwinds) /\ ~HasMembers(Top.blk)
  <2>1. Top.stage = "make" /\ (state' = state \/ state' = [state EXCEPT ![Top.blk] = "free"])
    BY <1>6 DEF BuildFails, ForeignUnwinds, pool, OwnInv, Calls
  <2>2. state[Top.blk] = "reserved" /\ Top.blk \in Block
    BY <1>5, <2>1 DEF ChainOK, Frame
  <2>3. \A x \in MemberPlaces(Top.blk) : ptr[x] = Null
    BY <1>6 DEF HasMembers
  <2>4. \A n \in 1..Len(stack) : stack[n].blk \in F \union {Top.blk} /\ stack[n].stage = "make"
    BY <1>4, <1>5, <2>1
  <2>5. KeepsFound(F, {Top.blk})
    BY <1>3, <2>3, <2>4 DEF KeepsFound
  <2>6. \A c \in Block : state'[c] = "used" /\ c \notin F
            => state[c] = "used" /\ c \notin {Top.blk}
    BY <1>5, <2>1, <2>2
  <2> QED BY <1>1, <2>5, <2>6, LostNoMore
<1>7. CASE Release /\ ~HasMembers(Top.old)
  <2>1. Top.stage = "release" /\ state' = [state EXCEPT ![Top.old] = "free"]
    BY <1>7 DEF Release
  <2>2. /\ Top.old \in Block /\ ptr[Top.place] = Top.blk
    BY <1>2, <1>5, <2>1 DEF ReleaseOK
  <2>3. Top.blk \in F
    BY <1>1, <1>2, <2>2, PublishedIsFound
  <2>4. \A x \in MemberPlaces(Top.old) : ptr[x] = Null
    BY <1>7 DEF HasMembers
  <2>5. \A n \in 1..Len(stack) :
           /\ stack[n].blk \in F
           /\ stack[n].stage = "release" => stack[n].old \in {Top.old}
    BY <1>4, <1>5, <2>3
  <2>6. KeepsFound(F, {Top.old})
    BY <1>3, <2>4, <2>5 DEF KeepsFound
  <2>7. \A c \in Block : state'[c] = "used" /\ c \notin F
            => state[c] = "used" /\ c \notin {Top.old}
    BY <1>5, <2>1, <2>2
  <2> QED BY <1>1, <2>6, <2>7, LostNoMore
<1> QED BY <1>6, <1>7

(* free of an object that has no members.                                  *)
LEMMA FreeLosesNothing ==
    ASSUME OwnInv, OwnInv', NEW p \in Place, Free(p), ~HasMembers(ptr[p])
    PROVE  Lost' \subseteq Lost
<1>1. PICK F : F = Found'
  OBVIOUS
<1>2. PICK b : b = ptr[p]
  OBVIOUS
<1>3. /\ CanUse(p) /\ b # Null /\ stack' = stack
      /\ state' = [state EXCEPT ![b] = "free"] /\ ptr' = [ptr EXCEPT ![p] = Null]
  BY <1>2 DEF Free
<1>4. b \in Block /\ \A x \in MemberPlaces(b) : ptr[x] = Null
  BY <1>2, <1>3 DEF HasMembers, OwnInv, Calls
<1>5. /\ \A x \in Place : x # p => ptr'[x] = ptr[x]
      /\ state'[b] = "free" /\ \A c \in Block : c # b => state'[c] = state[c]
  BY <1>3, <1>4 DEF OwnInv, Calls
<1>6. /\ \A x \in ProgramPlace : ptr'[x] # Null => ptr'[x] \in F
      /\ \A n \in 1..Len(stack) : stack[n].blk \in F
      /\ \A c \in F : c \in Block
      /\ \A c \in F : \A x \in MemberPlaces(c) : ptr'[x] # Null => ptr'[x] \in F
  BY <1>1, <1>3, FoundAfter
<1>7. /\ \A x \in ProgramPlace : x \in Place
      /\ \A c \in Block : \A x \in MemberPlaces(c) : x \in Place
  BY PlacesApart
<1>8. \A n \in 1..Len(stack) : stack[n].stage = "make"
  BY <1>3, Usable
<1>9. KeepsFound(F, {b})
  <2>1. \A x \in ProgramPlace : ptr[x] # Null => ptr[x] \in F \union {b}
    BY <1>2, <1>5, <1>6, <1>7
  <2>2. \A c \in F \union {b} : \A x \in MemberPlaces(c) :
           c \in Block /\ ptr[x] # Null => ptr[x] \in F \union {b}
    BY <1>2, <1>4, <1>5, <1>6, <1>7
  <2> QED BY <1>6, <1>8, <2>1, <2>2 DEF KeepsFound
<1>10. \A c \in Block : state'[c] = "used" /\ c \notin F => state[c] = "used" /\ c \notin {b}
  BY <1>5
<1> QED BY <1>1, <1>9, <1>10, LostNoMore

(* A pointer is overwritten that was null, or one of several copies.       *)
LEMMA OverwritingLosesNothing ==
    ASSUME OwnInv, OwnInv', NEW p \in Place, CanUse(p), state' = state, stack' = stack,
           \A x \in Place : x # p => ptr'[x] = ptr[x],
           ptr[p] = Null \/ ~Sole(p)
    PROVE  Lost' \subseteq Lost
<1>1. PICK F : F = Found'
  OBVIOUS
<1>2. p \in LiveOf(stack, state) /\ OwnOK(LiveOf(stack, state), state, ptr)
  BY Usable DEF OwnInv
<1>3. /\ \A x \in ProgramPlace : ptr'[x] # Null => ptr'[x] \in F
      /\ \A n \in 1..Len(stack) : stack[n].blk \in F
      /\ \A c \in F : c \in Block
      /\ \A c \in F : \A x \in MemberPlaces(c) : ptr'[x] # Null => ptr'[x] \in F
  BY <1>1, FoundAfter
<1>4. /\ \A x \in ProgramPlace : x \in Place
      /\ \A c \in Block : \A x \in MemberPlaces(c) : x \in Place /\ x \notin ProgramPlace
  BY PlacesApart
<1>5. ASSUME ptr[p] # Null PROVE p \in ProgramPlace /\ ptr[p] \in F
  <2>1. PICK y \in LiveOf(stack, state) : y # p /\ ptr[y] = ptr[p]
    BY <1>5, LiveIs DEF Sole
  <2>2. p \in ProgramPlace /\ y \in ProgramPlace
    BY <1>2, <1>5, <2>1 DEF OwnOK
  <2>3. ptr'[y] = ptr[y]
    BY <1>4, <2>1, <2>2
  <2> QED BY <1>3, <1>5, <2>1, <2>2, <2>3
<1>6. \A n \in 1..Len(stack) : stack[n].stage = "make"
  BY Usable
<1>7. \A x \in ProgramPlace : ptr[x] # Null => ptr[x] \in F
  BY <1>3, <1>4, <1>5
<1>8. \A c \in F : \A x \in MemberPlaces(c) : ptr[x] # Null => ptr[x] \in F
  BY <1>3, <1>4, <1>5
<1>9. KeepsFound(F, {})
  BY <1>3, <1>6, <1>7, <1>8 DEF KeepsFound
<1>10. \A c \in Block : state'[c] = "used" /\ c \notin F => state[c] = "used" /\ c \notin {}
  OBVIOUS
<1> QED BY <1>1, <1>9, <1>10, LostNoMore

(* The pool and the calls stay.                                            *)
LEMMA QuietLosesNothing ==
    ASSUME UNCHANGED <<pool, stack>>
    PROVE  Lost' \subseteq Lost
<1>1. state' = state /\ ptr' = ptr /\ stack' = stack
  BY DEF pool
<1>2. Found' = Found
  BY <1>1, FoundIs, FoundNextIs
<1>3. Lost' = {b \in Block : state'[b] = "used"} \ Found'
  BY DEF Lost
<1> QED BY <1>1, <1>2, <1>3 DEF Lost

(* What a step may strand.                                                 *)
LapseOrDeath ==
    \/ Restart
    \/ (BuildFails \/ ForeignUnwinds) /\ HasMembers(Top.blk)
    \/ Release /\ HasMembers(Top.old)
    \/ \E p \in Place : /\ ptr[p] # Null /\ Sole(p)
                        /\ \/ Nullify(p)
                           \/ \E q \in Place : Keep(p, q)
                           \/ Free(p) /\ HasMembers(ptr[p])

(* No step of allocate_ctr, replace_ctr, free or a constructor loses an    *)
(* object, apart from those lapses and a death of the process.             *)
LEMMA StepStrands ==
    ASSUME OwnInv, OwnInv', [Next]_vars
    PROVE  Lost' \subseteq Lost \/ LapseOrDeath
<1>1. ASSUME NEW p \in Place, NEW b \in Block, Allocate(p, b) \/ Replace(p, b)
      PROVE  Lost' \subseteq Lost
  BY <1>1, ReserveLosesNothing DEF Allocate, Replace
<1>2. ASSUME \/ \E p \in Place : Refused(p) \/ Exhausted(p)
             \/ \E e \in {"AllocationError", "other"} : MakeThrows(e)
             \/ MakeCatches \/ UNCHANGED vars
      PROVE  Lost' \subseteq Lost
  <2>1. UNCHANGED <<pool, stack>>
    BY <1>2 DEF Refused, Exhausted, MakeThrows, MakeCatches, vars
  <2> QED BY <2>1, QuietLosesNothing
<1>3. ASSUME NEW p \in Place, Free(p) PROVE Lost' \subseteq Lost \/ LapseOrDeath
  BY <1>3, FreeLosesNothing DEF LapseOrDeath, Free
<1>4. ASSUME NEW p \in Place, NEW r \in Place, Keep(p, r)
      PROVE  Lost' \subseteq Lost \/ LapseOrDeath
  <2>1. CASE ptr[p] # Null /\ Sole(p)
    BY <1>4, <2>1 DEF LapseOrDeath
  <2>2. CASE ptr[p] = Null \/ ~Sole(p)
    <3>1. /\ CanUse(p) /\ state' = state /\ stack' = stack
          /\ \A x \in Place : x # p => ptr'[x] = ptr[x]
      BY <1>4 DEF Keep, CanUse, OwnInv, Calls
    <3> QED BY <2>2, <3>1, OverwritingLosesNothing
  <2> QED BY <2>1, <2>2
<1>5. ASSUME NEW p \in Place, Nullify(p) PROVE Lost' \subseteq Lost \/ LapseOrDeath
  <2>1. CASE ptr[p] # Null /\ Sole(p)
    BY <1>5, <2>1 DEF LapseOrDeath
  <2>2. CASE ptr[p] = Null \/ ~Sole(p)
    <3>1. /\ CanUse(p) /\ state' = state /\ stack' = stack
          /\ \A x \in Place : x # p => ptr'[x] = ptr[x]
      BY <1>5 DEF Nullify, OwnInv, Calls
    <3> QED BY <2>2, <3>1, OverwritingLosesNothing
  <2> QED BY <2>1, <2>2
<1>6. ASSUME BuildFails \/ ForeignUnwinds \/ Release
      PROVE  Lost' \subseteq Lost \/ LapseOrDeath
  BY <1>6, EndingLosesNothing DEF LapseOrDeath
<1>7. ASSUME MakeReturns PROVE Lost' \subseteq Lost
  BY <1>7, PublishingLosesNothing
<1>8. ASSUME Restart PROVE LapseOrDeath
  BY <1>8 DEF LapseOrDeath
<1> QED BY <1>1, <1>2, <1>3, <1>4, <1>5, <1>6, <1>7, <1>8 DEF Next

(* AtomicConstructor.h:61-63: an AllocationError that is allowed to escape *)
(* unwinds the chain of allocations.  It leaves nothing behind, unless a   *)
(* make() fails after it has allocated members.  Apart from that, objects  *)
(* get out of reach only by a death, and by a program that overwrites the  *)
(* last pointer to one, or frees the owner of a pointer that is not null.  *)
THEOREM OnlyLapsesEverStrand == Spec => OnlyLapsesStrand
<1>1. OwnInv /\ OwnInv' /\ [Next]_vars
          => [\/ Lost' \subseteq Lost
              \/ Restart
              \/ (BuildFails \/ ForeignUnwinds) /\ HasMembers(Top.blk)
              \/ Release /\ HasMembers(Top.old)
              \/ \E p \in Place : /\ ptr[p] # Null /\ Sole(p)
                                  /\ \/ Nullify(p)
                                     \/ \E q \in Place : Keep(p, q)
                                     \/ Free(p) /\ HasMembers(ptr[p])]_vars
  BY StepStrands DEF LapseOrDeath
<1> QED BY <1>1, OwnInvariant, PTL DEF Spec, OnlyLapsesStrand
=============================================================================
