-------------------------- MODULE UserAnswersProofs --------------------------
(* What the user at the other end can rely on, for every number of tasks,  *)
(* loops, questions and answers; tabs, domains and tool calls; events on   *)
(* their way to the command line; browsers, runs and commands.             *)
(*                                                                         *)
(* In order: the answers to questions, leave to act in the browser, the    *)
(* command line, the bridge to the browsers.                               *)
EXTENDS MCUserAnswers, MCBrowserBridge, SequenceTheorems, FiniteSetTheorems,
        WellFoundedInduction, TLAPS

\* A loop that is inside execute asks a question of its own.
AsksOwnQuestion ==
    \A l \in Loops : phase[l] # "idle" => question[l] \in Questions /\ question[l].loop = l

\* f holds v only if v was proposed for f and let through.
LetThrough(f, v) == v # Nothing => v.field = f /\ \E s \in spent : s.by = v

\* The copies the loops have loaded hold what the charter held.
CopiesLetThrough == \A l \in Loops, f \in Fields : LetThrough(f, copy[l][f])

Channels == Tasks \X Kinds

\* Answers wait in a queue of the task they were given to, and are numbered by
\* the count of answers posted so far.
QueuedAnswers ==
    \A x \in Channels : \A i \in 1 .. Len(queues[x]) :
        Task(queues[x][i].to) = x[1] /\ queues[x][i].id <= posted

\* Every answer is in one place of one queue, or was taken out of it.
QueuedOnce ==
    \A x \in Channels, y \in Channels :
        \A i \in 1 .. Len(queues[x]), j \in 1 .. Len(queues[y]) :
            queues[x][i].id = queues[y][j].id => x = y /\ i = j

SpentAnswers ==
    \A s \in spent :
        /\ s.post.id <= posted
        /\ \A x \in Channels : \A i \in 1 .. Len(queues[x]) : queues[x][i].id # s.post.id

AnswersInv ==
    /\ TypeOK
    /\ AsksOwnQuestion /\ NoGhostProposal
    /\ EveryChangeWasLetThrough /\ CopiesLetThrough
    /\ QueuedAnswers /\ QueuedOnce /\ SpentAnswers /\ ApprovalSpentOnce

-----------------------------------------------------------------------------
(* Types.                                                                  *)

LEMMA QuestionFacts ==
  ASSUME NEW q \in Questions
  PROVE  /\ q.loop \in Loops /\ q.n \in 1 .. MaxAsks /\ q.kind \in Kinds
         /\ Task(q) \in Tasks /\ q # Nothing
         /\ q.kind = "charter" => q.field \in Fields
  BY AnswersAssumption DEF AnswersAssumption, Questions, Loops, Kinds, Task

LEMMA InitInv == Init => AnswersInv
<1> SUFFICES ASSUME Init PROVE AnswersInv
  OBVIOUS
<1>1. TypeOK
  BY AnswersAssumption, EmptySeq DEF Init, TypeOK, Original, AnswersAssumption
<1>2. \A x \in Channels : Len(queues[x]) = 0
  BY DEF Init, Channels
<1>3. QueuedAnswers /\ QueuedOnce /\ SpentAnswers /\ ApprovalSpentOnce
  BY <1>2 DEF QueuedAnswers, QueuedOnce, SpentAnswers, ApprovalSpentOnce, Init
<1>4. AsksOwnQuestion /\ NoGhostProposal /\ EveryChangeWasLetThrough /\ CopiesLetThrough
  BY DEF Init, AsksOwnQuestion, NoGhostProposal, EveryChangeWasLetThrough, CopiesLetThrough,
         LetThrough, Original
<1> QED
  BY <1>1, <1>3, <1>4 DEF AnswersInv

-----------------------------------------------------------------------------
(* The queues: what a post adds and what a taken answer leaves.            *)

QueueInv == QueuedAnswers /\ QueuedOnce /\ SpentAnswers /\ ApprovalSpentOnce

LEMMA PostKeepsQueues ==
  ASSUME TypeOK, QueueInv, NEW q \in Questions, NEW k \in Kinds, NEW yes \in BOOLEAN,
         Post(q, k, yes)
  PROVE  TypeOK' /\ QueueInv'
<1> DEFINE x == <<Task(q), k>>
           p == [id |-> posted + 1, to |-> q, yes |-> yes]
<1>1. x \in Channels /\ Task(q) = x[1]
  BY QuestionFacts DEF Channels
<1>2. posted \in Nat /\ posted' = posted + 1 /\ posted' \in 0 .. MaxPosts /\ p \in Posts
  BY AnswersAssumption DEF Post, TypeOK, Posts, AnswersAssumption
<1>3. queues[x] \in Seq(Posts) /\ queues' = [queues EXCEPT ![x] = Append(@, p)]
  BY <1>1 DEF TypeOK, Post, Channels
<1>4. /\ queues'[x] = Append(queues[x], p) /\ queues'[x] \in Seq(Posts)
      /\ \A y \in Channels \ {x} : queues'[y] = queues[y]
  BY <1>1, <1>2, <1>3 DEF TypeOK, Channels
<1>p. p.id = posted + 1 /\ Task(p.to) = x[1]
  BY DEF Task
<1> HIDE DEF x, p
<1>5. /\ Len(queues[x]) \in Nat
      /\ Len(queues'[x]) = Len(queues[x]) + 1
      /\ \A i \in 1 .. Len(queues[x]) : queues'[x][i] = queues[x][i]
      /\ queues'[x][Len(queues[x]) + 1] = p
  BY <1>2, <1>3, <1>4, LenProperties, AppendProperties
\* What is queued after the step was queued before it, or is the new answer.
<1>6. \A y \in Channels : \A i \in 1 .. Len(queues'[y]) :
        \/ i \in 1 .. Len(queues[y]) /\ queues'[y][i] = queues[y][i]
        \/ y = x /\ i = Len(queues[x]) + 1 /\ queues'[y][i] = p
  BY <1>4, <1>5
<1>7. \A y \in Channels : \A i \in 1 .. Len(queues[y]) : queues[y][i].id \in Nat
  <2> TAKE y \in Channels
  <2> TAKE i \in 1 .. Len(queues[y])
  <2>1. queues[y][i] \in Posts
    BY ElementOfSeq DEF TypeOK, Channels
  <2> QED
    BY <2>1 DEF Posts
<1>8. TypeOK'
  <2>1. queues' \in [Tasks \X Kinds -> Seq(Posts)]
    BY <1>3, <1>4 DEF TypeOK, Channels
  <2> QED
    BY <1>2, <2>1 DEF TypeOK, Post, loopVars, slotVars
<1>9. spent' = spent /\ \A s \in spent : s.post.id \in Nat
  BY DEF Post, TypeOK, Posts
<1>10. QueuedAnswers'
  BY <1>1, <1>2, <1>p, <1>6, <1>7 DEF QueueInv, QueuedAnswers
<1>11. QueuedOnce'
  <2>1. \A y \in Channels : \A i \in 1 .. Len(queues[y]) : queues[y][i].id # p.id
    BY <1>2, <1>p, <1>7 DEF QueueInv, QueuedAnswers
  <2>2. QueuedOnce
    BY DEF QueueInv
  <2> SUFFICES ASSUME NEW y \in Channels, NEW z \in Channels,
                      NEW i \in 1 .. Len(queues'[y]), NEW j \in 1 .. Len(queues'[z]),
                      queues'[y][i].id = queues'[z][j].id
               PROVE  y = z /\ i = j
    BY DEF QueuedOnce
  <2>3. CASE i \in 1 .. Len(queues[y]) /\ queues'[y][i] = queues[y][i]
    BY <1>6, <2>1, <2>2, <2>3 DEF QueuedOnce
  <2>4. CASE y = x /\ i = Len(queues[x]) + 1 /\ queues'[y][i] = p
    BY <1>6, <2>1, <2>4
  <2> QED
    BY <1>6, <2>3, <2>4
<1>12. SpentAnswers'
  <2> SUFFICES ASSUME NEW s \in spent
               PROVE  /\ s.post.id <= posted'
                      /\ \A y \in Channels : \A i \in 1 .. Len(queues'[y]) :
                            queues'[y][i].id # s.post.id
    BY <1>9 DEF SpentAnswers
  <2>1. s.post.id \in Nat /\ s.post.id <= posted
    BY <1>9 DEF QueueInv, SpentAnswers
  <2>2. \A y \in Channels : \A i \in 1 .. Len(queues[y]) : queues[y][i].id # s.post.id
    BY DEF QueueInv, SpentAnswers
  <2> QED
    BY <1>2, <1>p, <1>6, <2>1, <2>2
<1>13. ApprovalSpentOnce'
  BY <1>9 DEF QueueInv, ApprovalSpentOnce
<1> QED
  BY <1>8, <1>10, <1>11, <1>12, <1>13 DEF QueueInv

\* The answer a loop takes: it leaves the queue, and no trace of its number is
\* left there.
LEMMA TakenFacts ==
  ASSUME TypeOK, QueueInv, NEW l \in Loops, question[l] \in Questions,
         Queue(l) # <<>>, Taken(l)
  PROVE  /\ queues' \in [Tasks \X Kinds -> Seq(Posts)]
         /\ Head(Queue(l)) \in Posts
         /\ Head(Queue(l)).id <= posted /\ Task(Head(Queue(l)).to) = l[1]
         /\ \A s \in spent : s.post.id # Head(Queue(l)).id
         /\ \A y \in Channels : \A i \in 1 .. Len(queues'[y]) :
               /\ queues'[y][i].id # Head(Queue(l)).id
               /\ \/ /\ y # <<l[1], question[l].kind>>
                     /\ i \in 1 .. Len(queues[y]) /\ queues'[y][i] = queues[y][i]
                  \/ /\ y = <<l[1], question[l].kind>>
                     /\ i + 1 \in 1 .. Len(queues[y])
                     /\ queues'[y][i] = queues[y][i + 1]
<1> DEFINE x == <<l[1], question[l].kind>>
<1>1. x \in Channels /\ x[1] = l[1]
  BY QuestionFacts DEF Channels, Loops
<1>2. queues[x] \in Seq(Posts) /\ queues[x] # <<>> /\ Queue(l) = queues[x]
  BY <1>1 DEF TypeOK, Queue, Channels
<1>3. /\ Head(queues[x]) = queues[x][1] /\ Head(queues[x]) \in Posts
      /\ Len(queues[x]) \in Nat \ {0} /\ 1 \in 1 .. Len(queues[x])
      /\ Tail(queues[x]) \in Seq(Posts) /\ Len(Tail(queues[x])) = Len(queues[x]) - 1
      /\ \A i \in 1 .. Len(Tail(queues[x])) : Tail(queues[x])[i] = queues[x][i + 1]
  BY <1>2, HeadTailProperties, EmptySeq
<1>4. /\ queues'[x] = Tail(queues[x]) /\ queues' \in [Tasks \X Kinds -> Seq(Posts)]
      /\ \A y \in Channels \ {x} : queues'[y] = queues[y]
  BY <1>1, <1>3 DEF TypeOK, Taken, Channels
<1> HIDE DEF x
<1>5. \A y \in Channels : \A i \in 1 .. Len(queues'[y]) :
         \/ y # x /\ i \in 1 .. Len(queues[y]) /\ queues'[y][i] = queues[y][i]
         \/ y = x /\ i + 1 \in 1 .. Len(queues[y]) /\ i + 1 # 1
                  /\ queues'[y][i] = queues[y][i + 1]
  <2> TAKE y \in Channels
  <2>1. CASE y # x
    BY <1>4, <2>1
  <2>2. CASE y = x
    <3>1. Len(queues'[x]) = Len(queues[x]) - 1
      BY <1>3, <1>4
    <3>2. \A i \in 1 .. Len(queues'[x]) :
             /\ i + 1 \in 1 .. Len(queues[x]) /\ i + 1 # 1
             /\ queues'[x][i] = queues[x][i + 1]
      BY <1>3, <1>4, <3>1
    <3> QED
      BY <2>2, <3>2
  <2> QED
    BY <2>1, <2>2
<1>6. \A y \in Channels : \A i \in 1 .. Len(queues'[y]) :
         queues'[y][i].id # queues[x][1].id
  <2> TAKE y \in Channels
  <2> TAKE i \in 1 .. Len(queues'[y])
  <2>1. CASE y # x
    BY <1>1, <1>3, <1>5, <2>1 DEF QueueInv, QueuedOnce
  <2>2. CASE y = x
    <3>1. i + 1 \in 1 .. Len(queues[x]) /\ i + 1 # 1 /\ queues'[y][i] = queues[x][i + 1]
      BY <1>5, <2>2
    <3>2. queues[x][i + 1].id # queues[x][1].id
      BY <1>1, <1>3, <3>1 DEF QueueInv, QueuedOnce
    <3> QED
      BY <3>1, <3>2
  <2> QED
    BY <2>1, <2>2
<1>7. /\ queues[x][1].id <= posted /\ Task(queues[x][1].to) = l[1]
      /\ \A s \in spent : s.post.id # queues[x][1].id
  BY <1>1, <1>3 DEF QueueInv, QueuedAnswers, SpentAnswers
<1> QED
  BY <1>2, <1>3, <1>4, <1>5, <1>6, <1>7 DEF x

\* A taken answer keeps the queues in order, and may be spent.
LEMMA TakenKeepsQueues ==
  ASSUME TypeOK, QueueInv, NEW l \in Loops, question[l] \in Questions, question[l].loop = l,
         Queue(l) # <<>>, Taken(l), UNCHANGED posted,
         \/ spent' = spent
         \/ /\ Head(Queue(l)).yes
            /\ spent' = spent \cup {[by |-> question[l], post |-> Head(Queue(l))]}
  PROVE  QueueInv' /\ spent' \in SUBSET [by : Questions, post : Posts]
<1> DEFINE a == Head(Queue(l))
           x == <<l[1], question[l].kind>>
<1>1. /\ a \in Posts /\ a.id <= posted /\ Task(a.to) = l[1]
      /\ \A s \in spent : s.post.id # a.id
      /\ \A y \in Channels : \A i \in 1 .. Len(queues'[y]) :
            /\ queues'[y][i].id # a.id
            /\ \/ y # x /\ i \in 1 .. Len(queues[y]) /\ queues'[y][i] = queues[y][i]
               \/ /\ y = x /\ i + 1 \in 1 .. Len(queues[y])
                  /\ queues'[y][i] = queues[y][i + 1]
  BY TakenFacts
<1>2. \A s \in spent' : s \in spent \/ (s = [by |-> question[l], post |-> a] /\ a.yes)
  <2>1. CASE spent' = spent
    BY <2>1
  <2>2. CASE a.yes /\ spent' = spent \cup {[by |-> question[l], post |-> a]}
    BY <2>2
  <2> QED
    BY <2>1, <2>2
<1>3. Task(question[l]) = l[1] /\ spent \in SUBSET [by : Questions, post : Posts]
  BY DEF TypeOK, Task
<1>4. spent' \in SUBSET [by : Questions, post : Posts]
  BY <1>1, <1>2, <1>3
<1> HIDE DEF a, x
<1>5. QueuedAnswers'
  BY <1>1 DEF QueueInv, QueuedAnswers
<1>6. SpentAnswers'
  <2> SUFFICES ASSUME NEW s \in spent'
               PROVE  /\ s.post.id <= posted
                      /\ \A y \in Channels : \A i \in 1 .. Len(queues'[y]) :
                            queues'[y][i].id # s.post.id
    BY DEF SpentAnswers
  <2>1. CASE s \in spent
    <3>1. /\ s.post.id <= posted
          /\ \A y \in Channels : \A i \in 1 .. Len(queues[y]) : queues[y][i].id # s.post.id
      BY <2>1 DEF QueueInv, SpentAnswers
    <3> QED
      BY <1>1, <3>1
  <2>2. CASE s = [by |-> question[l], post |-> a]
    BY <1>1, <2>2
  <2> QED
    BY <1>2, <2>1, <2>2
<1>7. ApprovalSpentOnce'
  <2> SUFFICES ASSUME NEW s \in spent'
               PROVE  /\ s.post.yes /\ Task(s.post.to) = Task(s.by)
                      /\ \A r \in spent' : r.post.id = s.post.id => r = s
    BY DEF ApprovalSpentOnce
  <2>1. CASE s \in spent
    BY <1>1, <1>2, <2>1 DEF QueueInv, ApprovalSpentOnce
  <2>2. CASE s = [by |-> question[l], post |-> a] /\ a.yes
    BY <1>1, <1>2, <1>3, <2>2
  <2> QED
    BY <1>2, <2>1, <2>2
<1>8. QueuedOnce'
  <2> SUFFICES ASSUME NEW y \in Channels, NEW z \in Channels,
                      NEW i \in 1 .. Len(queues'[y]), NEW j \in 1 .. Len(queues'[z]),
                      queues'[y][i].id = queues'[z][j].id
               PROVE  y = z /\ i = j
    BY DEF QueuedOnce
  <2> DEFINE i0 == IF y = x THEN i + 1 ELSE i
             j0 == IF z = x THEN j + 1 ELSE j
  <2>1. i0 \in 1 .. Len(queues[y]) /\ queues'[y][i] = queues[y][i0]
    BY <1>1
  <2>2. j0 \in 1 .. Len(queues[z]) /\ queues'[z][j] = queues[z][j0]
    BY <1>1
  <2>3. y = z /\ i0 = j0
    BY <2>1, <2>2 DEF QueueInv, QueuedOnce
  <2> QED
    BY <2>3
<1> QED
  BY <1>4, <1>5, <1>6, <1>7, <1>8 DEF QueueInv

-----------------------------------------------------------------------------
(* The questions: asking, waiting and ending.                              *)

\* The state of the loops and the slots has its type.
AskTypes ==
    /\ phase \in [Loops -> {"idle", "announcing", "waiting"}]
    /\ question \in [Loops -> Questions \cup {Nothing}]
    /\ copy \in [Loops -> [Fields -> Questions \cup {Nothing}]]
    /\ asks \in [Loops -> 0 .. MaxAsks]
    /\ discussions \in [Tasks -> Questions \cup {Nothing}]
    /\ pending \in [Tasks -> Questions \cup {Nothing}]

AskInv == AsksOwnQuestion /\ NoGhostProposal

\* A question ends.  The slot of the task is cleared, or it was never filled by
\* this loop; no other task's slot shows it.
LEMMA EndKeepsQuestions ==
  ASSUME TypeOK, AskInv, NEW l \in Loops, phase[l] # "idle", Stopped(l),
         \/ ClearSlots(l)
         \/ phase[l] = "announcing" /\ UNCHANGED slotVars
  PROVE  /\ AskTypes' /\ AskInv'
         /\ \A k \in Loops, f \in Fields : copy'[k][f] \in {copy[k][f], Nothing}
<1>1. l[1] \in Tasks /\ question[l] \in Questions
  BY DEF Loops, AskInv, AsksOwnQuestion
<1>2. Original \in [Fields -> Questions \cup {Nothing}]
  BY DEF Original
<1>3. discussions' \in [Tasks -> Questions \cup {Nothing}]
  BY <1>1 DEF TypeOK, ClearSlots, slotVars
<1>4. pending' \in [Tasks -> Questions \cup {Nothing}]
  BY <1>1 DEF TypeOK, ClearSlots, slotVars
<1>5. AskTypes'
  BY <1>2, <1>3, <1>4 DEF TypeOK, AskTypes, Stopped
<1>6. AsksOwnQuestion'
  BY DEF TypeOK, Stopped, AskInv, AsksOwnQuestion
<1>7. NoGhostProposal'
  <2> SUFFICES ASSUME NEW t \in Tasks, discussions'[t] # Nothing
               PROVE  /\ Task(discussions'[t]) = t
                      /\ phase'[discussions'[t].loop] = "waiting"
                      /\ question'[discussions'[t].loop] = discussions'[t]
    BY DEF NoGhostProposal, Task
  <2>1. discussions'[t] = discussions[t]
    BY DEF TypeOK, ClearSlots, slotVars
  <2>2. /\ discussions[t] \in Questions /\ discussions[t].loop \in Loops
        /\ Task(discussions[t]) = t
        /\ phase[discussions[t].loop] = "waiting"
        /\ question[discussions[t].loop] = discussions[t]
    BY <2>1, QuestionFacts DEF TypeOK, AskInv, NoGhostProposal
  <2>3. discussions[t].loop # l
    <3>1. CASE ClearSlots(l)
      <4>1. t # l[1]
        BY <3>1, <1>1 DEF ClearSlots, TypeOK
      <4> QED
        BY <4>1, <2>2 DEF Task
    <3>2. CASE phase[l] = "announcing"
      BY <3>2, <2>2
    <3> QED
      BY <3>1, <3>2
  <2> QED
    BY <2>1, <2>2, <2>3 DEF TypeOK, Stopped
<1>8. \A k \in Loops, f \in Fields : copy'[k][f] \in {copy[k][f], Nothing}
  BY DEF TypeOK, Stopped, Original
<1> QED
  BY <1>5, <1>6, <1>7, <1>8 DEF AskInv

LEMMA AnnounceKeepsQuestions ==
  ASSUME TypeOK, AskInv, NEW q \in Questions, Announce(q)
  PROVE  AskTypes' /\ AskInv'
<1>1. q.loop \in Loops /\ q.loop[1] \in Tasks /\ q.n \in 0 .. MaxAsks /\ q # Nothing
  BY QuestionFacts, AnswersAssumption DEF Loops, AnswersAssumption
<1>2. AskTypes'
  BY <1>1 DEF TypeOK, AskTypes, Announce
<1>3. AsksOwnQuestion'
  BY <1>1 DEF TypeOK, Announce, AskInv, AsksOwnQuestion
<1>4. NoGhostProposal'
  <2> SUFFICES ASSUME NEW t \in Tasks, discussions[t] # Nothing
               PROVE  /\ Task(discussions[t]) = t
                      /\ phase'[discussions[t].loop] = "waiting"
                      /\ question'[discussions[t].loop] = discussions[t]
    BY DEF NoGhostProposal, Announce, Task
  <2>1. /\ discussions[t].loop \in Loops /\ Task(discussions[t]) = t
        /\ phase[discussions[t].loop] = "waiting"
        /\ question[discussions[t].loop] = discussions[t]
    BY QuestionFacts DEF TypeOK, AskInv, NoGhostProposal
  <2>2. discussions[t].loop # q.loop
    BY <2>1 DEF Announce
  <2> QED
    BY <1>1, <2>1, <2>2 DEF TypeOK, Announce
<1> QED
  BY <1>2, <1>3, <1>4 DEF AskInv

LEMMA WaitKeepsQuestions ==
  ASSUME TypeOK, AskInv, NEW l \in Loops, Wait(l)
  PROVE  AskTypes' /\ AskInv'
<1>1. /\ l[1] \in Tasks /\ question[l] \in Questions /\ question[l].loop = l
      /\ question[l] # Nothing /\ Task(question[l]) = l[1]
  BY QuestionFacts DEF Wait, Loops, AskInv, AsksOwnQuestion, Task
<1>2. AskTypes'
  BY <1>1 DEF TypeOK, AskTypes, Wait
<1>3. AsksOwnQuestion'
  BY <1>1 DEF TypeOK, Wait, AskInv, AsksOwnQuestion
<1>4. NoGhostProposal'
  <2> SUFFICES ASSUME NEW t \in Tasks, discussions'[t] # Nothing
               PROVE  /\ Task(discussions'[t]) = t
                      /\ phase'[discussions'[t].loop] = "waiting"
                      /\ question[discussions'[t].loop] = discussions'[t]
    BY DEF NoGhostProposal, Wait, Task
  <2>1. CASE t = l[1] /\ question[l].kind # "coredump"
    <3>1. discussions'[t] = question[l]
      BY <2>1, <1>1 DEF TypeOK, Wait
    <3> QED
      BY <3>1, <2>1, <1>1 DEF TypeOK, Wait
  <2>2. CASE ~(t = l[1] /\ question[l].kind # "coredump")
    <3>1. discussions'[t] = discussions[t]
      BY <2>2, <1>1 DEF TypeOK, Wait
    <3>2. /\ discussions[t].loop \in Loops /\ Task(discussions[t]) = t
          /\ phase[discussions[t].loop] = "waiting"
          /\ question[discussions[t].loop] = discussions[t]
      BY <3>1, QuestionFacts DEF TypeOK, AskInv, NoGhostProposal
    <3> QED
      BY <3>1, <3>2 DEF TypeOK, Wait
  <2> QED
    BY <2>1, <2>2
<1> QED
  BY <1>2, <1>3, <1>4 DEF AskInv

-----------------------------------------------------------------------------
(* The charter.                                                            *)

CharterInv == EveryChangeWasLetThrough /\ CopiesLetThrough

\* A value moves between the file and the loaded copies of its own field, and
\* only an answer brings a new one in.
LEMMA CharterKept ==
  ASSUME CharterInv, spent \subseteq spent',
         \A f \in Fields :
            \/ charter'[f] = charter[f]
            \/ \E k \in Loops : charter'[f] = copy[k][f]
            \/ charter'[f].field = f /\ \E s \in spent' : s.by = charter'[f],
         \A k \in Loops, f \in Fields : copy'[k][f] \in {copy[k][f], charter[f], Nothing}
  PROVE  CharterInv'
<1>1. \A f \in Fields : charter[f] # Nothing =>
         charter[f].field = f /\ \E s \in spent' : s.by = charter[f]
  BY DEF CharterInv, EveryChangeWasLetThrough
<1>2. \A k \in Loops, f \in Fields : copy[k][f] # Nothing =>
         copy[k][f].field = f /\ \E s \in spent' : s.by = copy[k][f]
  BY DEF CharterInv, CopiesLetThrough, LetThrough
<1>3. EveryChangeWasLetThrough'
  BY <1>1, <1>2 DEF EveryChangeWasLetThrough
<1>4. CopiesLetThrough'
  BY <1>1, <1>2 DEF CopiesLetThrough, LetThrough
<1> QED
  BY <1>3, <1>4 DEF CharterInv

-----------------------------------------------------------------------------
(* The steps.                                                              *)

\* What is left of TypeOK besides AskTypes.
OtherTypes ==
    /\ queues \in [Tasks \X Kinds -> Seq(Posts)]
    /\ charter \in [Fields -> Questions \cup {Nothing}]
    /\ announced \in SUBSET Questions
    /\ posted \in 0 .. MaxPosts
    /\ spent \in SUBSET [by : Questions, post : Posts]

LEMMA InvParts ==
  /\ AnswersInv <=> (AskTypes /\ OtherTypes /\ AskInv /\ CharterInv /\ QueueInv)
  /\ AnswersInv' <=> (AskTypes' /\ OtherTypes' /\ AskInv' /\ CharterInv' /\ QueueInv')
BY DEF AnswersInv, TypeOK, AskTypes, OtherTypes, AskInv, CharterInv, QueueInv

LEMMA AnnounceStep ==
  ASSUME AnswersInv, NEW q \in Questions, Announce(q)
  PROVE  AnswersInv'
<1>1. TypeOK /\ AskInv /\ CharterInv /\ QueueInv
  BY InvParts DEF AnswersInv
<1>2. AskTypes' /\ AskInv'
  BY <1>1, AnnounceKeepsQuestions
<1>3. CharterInv'
  <2>1. \A k \in Loops, f \in Fields : copy'[k][f] \in {copy[k][f], charter[f], Nothing}
    BY <1>1 DEF TypeOK, Announce
  <2>2. charter' = charter /\ spent' = spent
    BY DEF Announce
  <2> QED
    BY <1>1, <2>1, <2>2, CharterKept
<1>4. OtherTypes' /\ QueueInv'
  BY <1>1 DEF Announce, TypeOK, OtherTypes, QueueInv, QueuedAnswers, QueuedOnce, SpentAnswers,
              ApprovalSpentOnce
<1> QED
  BY <1>2, <1>3, <1>4, InvParts

LEMMA WaitStep ==
  ASSUME AnswersInv, NEW l \in Loops, Wait(l)
  PROVE  AnswersInv'
<1>1. TypeOK /\ AskInv /\ CharterInv /\ QueueInv
  BY InvParts DEF AnswersInv
<1>2. AskTypes' /\ AskInv'
  BY <1>1, WaitKeepsQuestions
<1>3. CharterInv'
  BY <1>1 DEF Wait, CharterInv, EveryChangeWasLetThrough, CopiesLetThrough, LetThrough
<1>4. OtherTypes' /\ QueueInv'
  BY <1>1 DEF Wait, userVars, TypeOK, OtherTypes, QueueInv, QueuedAnswers, QueuedOnce,
              SpentAnswers, ApprovalSpentOnce
<1> QED
  BY <1>2, <1>3, <1>4, InvParts

\* TakeAnswer and Decide: an answer is taken and the question ends.
LEMMA AnswerStep ==
  ASSUME AnswersInv, NEW l \in Loops, TakeAnswer(l) \/ Decide(l)
  PROVE  AnswersInv'
<1>1. TypeOK /\ AskInv /\ CharterInv /\ QueueInv
  BY InvParts DEF AnswersInv
<1>2. /\ phase[l] # "idle" /\ Queue(l) # <<>> /\ Taken(l) /\ ClearSlots(l) /\ Stopped(l)
      /\ question[l] \in Questions /\ question[l].loop = l
      /\ UNCHANGED userVars
  BY <1>1 DEF TakeAnswer, Decide, AskInv, AsksOwnQuestion
<1>3. /\ AskTypes' /\ AskInv'
      /\ \A k \in Loops, f \in Fields : copy'[k][f] \in {copy[k][f], Nothing}
  BY <1>1, <1>2, EndKeepsQuestions
<1>4. \/ UNCHANGED <<charter, spent>>
      \/ /\ question[l].kind = "charter" /\ Head(Queue(l)).yes
         /\ charter' = [copy[l] EXCEPT ![question[l].field] = question[l]]
         /\ spent' = spent \cup {[by |-> question[l], post |-> Head(Queue(l))]}
  BY DEF TakeAnswer, Decide
<1>5. QueueInv' /\ spent' \in SUBSET [by : Questions, post : Posts]
  BY <1>1, <1>2, <1>4, TakenKeepsQueues DEF userVars
<1>6. queues' \in [Tasks \X Kinds -> Seq(Posts)]
  BY <1>1, <1>2, TakenFacts
<1>7. CASE UNCHANGED <<charter, spent>>
  <2>1. CharterInv'
    BY <1>1, <1>3, <1>7, CharterKept
  <2>2. OtherTypes'
    BY <1>1, <1>2, <1>5, <1>6, <1>7 DEF TypeOK, OtherTypes, userVars
  <2> QED
    BY <1>3, <1>5, <2>1, <2>2, InvParts
<1>8. CASE /\ question[l].kind = "charter" /\ Head(Queue(l)).yes
           /\ charter' = [copy[l] EXCEPT ![question[l].field] = question[l]]
           /\ spent' = spent \cup {[by |-> question[l], post |-> Head(Queue(l))]}
  <2>1. copy[l] \in [Fields -> Questions \cup {Nothing}] /\ question[l].field \in Fields
    BY <1>1, <1>2, <1>8, QuestionFacts DEF TypeOK
  <2>2. /\ charter' \in [Fields -> Questions \cup {Nothing}]
        /\ \A f \in Fields : charter'[f] = copy[l][f]
                             \/ (f = question[l].field /\ charter'[f] = question[l])
    BY <1>2, <1>8, <2>1
  <2>3. \E s \in spent' : s.by = question[l]
    <3>1. [by |-> question[l], post |-> Head(Queue(l))] \in spent'
      BY <1>8
    <3> QED
      BY <3>1
  <2>4. CharterInv'
    BY <1>1, <1>3, <1>8, <2>2, <2>3, CharterKept
  <2>5. OtherTypes'
    BY <1>1, <1>2, <1>5, <1>6, <2>2 DEF TypeOK, OtherTypes, userVars
  <2> QED
    BY <1>3, <1>5, <2>4, <2>5, InvParts
<1> QED
  BY <1>4, <1>7, <1>8

\* TimeOut and Cancelled: the question ends without an answer.
LEMMA EndStep ==
  ASSUME AnswersInv, NEW l \in Loops, TimeOut(l) \/ Cancelled(l)
  PROVE  AnswersInv'
<1>1. TypeOK /\ AskInv /\ CharterInv /\ QueueInv
  BY InvParts DEF AnswersInv
<1>2. /\ phase[l] # "idle" /\ Stopped(l)
      /\ ClearSlots(l) \/ (phase[l] = "announcing" /\ UNCHANGED slotVars)
      /\ UNCHANGED <<queues, charter, userVars, spent>>
  BY DEF TimeOut, Cancelled
<1>3. /\ AskTypes' /\ AskInv'
      /\ \A k \in Loops, f \in Fields : copy'[k][f] \in {copy[k][f], Nothing}
  BY <1>1, <1>2, EndKeepsQuestions
<1>4. CharterInv'
  BY <1>1, <1>2, <1>3, CharterKept
<1>5. OtherTypes' /\ QueueInv'
  BY <1>1, <1>2 DEF userVars, TypeOK, OtherTypes, QueueInv, QueuedAnswers, QueuedOnce,
                    SpentAnswers, ApprovalSpentOnce
<1> QED
  BY <1>3, <1>4, <1>5, InvParts

LEMMA PostStep ==
  ASSUME AnswersInv, NEW q \in Questions, AnswerOwnRoute(q) \/ AnswerInPanel(q)
  PROVE  AnswersInv'
<1>1. TypeOK /\ AskInv /\ CharterInv /\ QueueInv
  BY InvParts DEF AnswersInv
<1>2. PICK k \in Kinds, yes \in BOOLEAN : Post(q, k, yes)
  BY QuestionFacts DEF AnswerOwnRoute, AnswerInPanel, Kinds
<1>3. TypeOK' /\ QueueInv'
  BY <1>1, <1>2, PostKeepsQueues
<1>4. AskInv' /\ CharterInv'
  BY <1>1, <1>2 DEF Post, loopVars, slotVars, AskInv, AsksOwnQuestion, NoGhostProposal,
                    CharterInv, EveryChangeWasLetThrough, CopiesLetThrough, LetThrough
<1> QED
  BY <1>3, <1>4 DEF AnswersInv, AskInv, CharterInv, QueueInv

LEMMA RestartStep ==
  ASSUME AnswersInv, Restart
  PROVE  AnswersInv'
<1>1. TypeOK /\ AskInv /\ CharterInv /\ QueueInv
  BY InvParts DEF AnswersInv
<1>2. AskTypes' /\ OtherTypes'
  BY <1>1, EmptySeq DEF Restart, userVars, TypeOK, AskTypes, OtherTypes, Original
<1>3. AskInv'
  BY DEF Restart, AskInv, AsksOwnQuestion, NoGhostProposal
<1>4. CharterInv'
  <2>1. \A k \in Loops, f \in Fields : copy'[k][f] = Nothing
    BY DEF Restart, Original
  <2> QED
    BY <1>1, <2>1, CharterKept DEF Restart
<1>5. QueueInv'
  <2>1. \A x \in Channels : Len(queues'[x]) = 0
    BY DEF Restart, Channels
  <2> QED
    BY <1>1, <2>1 DEF Restart, userVars, QueueInv, QueuedAnswers, QueuedOnce, SpentAnswers,
                      ApprovalSpentOnce
<1> QED
  BY <1>2, <1>3, <1>4, <1>5, InvParts

LEMMA NextKeepsInv == AnswersInv /\ [Next]_vars => AnswersInv'
<1> SUFFICES ASSUME AnswersInv, [Next]_vars PROVE AnswersInv'
  OBVIOUS
<1>1. CASE \E q \in Questions : Announce(q) \/ AnswerOwnRoute(q) \/ AnswerInPanel(q)
  BY <1>1, AnnounceStep, PostStep
<1>2. CASE \E l \in Loops : \/ Wait(l) \/ TakeAnswer(l) \/ Decide(l)
                            \/ TimeOut(l) \/ Cancelled(l)
  BY <1>2, WaitStep, AnswerStep, EndStep
<1>3. CASE Restart
  BY <1>3, RestartStep
<1>4. CASE UNCHANGED vars
  <2>1. UNCHANGED <<phase, question, copy, asks, queues, discussions, pending, charter,
                    announced, posted, spent>>
    BY <1>4 DEF vars, loopVars, slotVars, userVars
  <2>2. TypeOK'
    BY <2>1 DEF AnswersInv, TypeOK
  <2>3. AskInv'
    BY <2>1 DEF AnswersInv, AskInv, AsksOwnQuestion, NoGhostProposal
  <2>4. CharterInv'
    BY <2>1 DEF AnswersInv, CharterInv, EveryChangeWasLetThrough, CopiesLetThrough, LetThrough
  <2>5. QueueInv'
    BY <2>1 DEF AnswersInv, QueueInv, QueuedAnswers, QueuedOnce, SpentAnswers,
                ApprovalSpentOnce
  <2> QED BY <2>2, <2>3, <2>4, <2>5 DEF AnswersInv, AskInv, CharterInv, QueueInv
<1> QED
  BY <1>1, <1>2, <1>3, <1>4 DEF Next

-----------------------------------------------------------------------------
(* The theorems.                                                           *)

\* The strengthened invariant of the three asking tools holds in every
\* reachable state: answers are numbered, sit in one place of one queue of
\* their task, and leave no trace there once they are spent.
THEOREM AnswersInvariance == Spec => []AnswersInv
BY InitInv, NextKeepsInv, PTL DEF Spec

\* Every variable of the model has its type, for any number of tasks, loops,
\* questions and answers.
THEOREM AnswersTypeCorrect == Spec => []TypeOK
<1>1. AnswersInv => TypeOK
  BY DEF AnswersInv
<1> QED
  BY <1>1, AnswersInvariance, PTL

\* The discussion slot of the StateManager never shows a proposal nobody waits
\* on, although every waiter clears the slot whoever filled it.
THEOREM NoZombieProposal == Spec => []NoGhostProposal
<1>1. AnswersInv => NoGhostProposal
  BY DEF AnswersInv
<1> QED
  BY <1>1, AnswersInvariance, PTL

\* No answer lets two charter changes through, and none lets through a change
\* of another task.
THEOREM OneChangePerApproval == Spec => []ApprovalSpentOnce
<1>1. AnswersInv => ApprovalSpentOnce
  BY DEF AnswersInv
<1> QED
  BY <1>1, AnswersInvariance, PTL

\* Whole-file write-back of stale copies never invents a charter value.
THEOREM CharterValuesLetThrough == Spec => []EveryChangeWasLetThrough
<1>1. AnswersInv => EveryChangeWasLetThrough
  BY DEF AnswersInv
<1> QED
  BY <1>1, AnswersInvariance, PTL

-----------------------------------------------------------------------------
(* Each behaviour of the whole is one of each of its parts.                *)

LEMMA StepsOfParts ==
  ASSUME [UserNext]_<<side, vars, replVars, permissionVars>>
  PROVE  [Next]_vars /\ [Repl!Next]_(Repl!vars) /\ [Permission!Next]_(Permission!vars)
<1> USE DEF replVars, permissionVars, vars, loopVars, slotVars, userVars, Repl!vars,
            Permission!vars, Permission!browser, Permission!trust
<1>1. CASE AnswersStep
  BY <1>1 DEF AnswersStep
<1>2. CASE PermissionStep
  BY <1>2 DEF PermissionStep
<1>3. CASE ReplStep
  BY <1>3 DEF ReplStep
<1>4. CASE UNCHANGED <<side, vars, replVars, permissionVars>>
  BY <1>4
<1> QED
  BY <1>1, <1>2, <1>3, <1>4 DEF UserNext

\* What a part promises of its own steps holds of the whole.
THEOREM PartsAreImplemented == UserSpec => Spec /\ Repl!Spec /\ Permission!Spec
<1>1. UserInit => Init /\ Repl!Init /\ Permission!Init
  BY DEF UserInit
<1> QED
  BY <1>1, StepsOfParts, PTL DEF UserSpec, Spec, Repl!Spec, Permission!Spec

-----------------------------------------------------------------------------
(* Leave to act: the states of a call.                                     *)

\* The parts of Permission!IInv.
TrustPart == Permission!AsksInOrder /\ Permission!FileIsMemory /\ Permission!TrustLasts

\* What ActsWhereAllowed says of one call.
Placed(c) ==
    LET k == call[c]
    IN  k.at = "done" /\ k.url # Nothing /\ k.where # k.url
        => \/ "page" \in moved[c]
           \/ k.tab = Nothing /\ (k.used # Nothing \/ "active" \in moved[c])

ActPart == \A c \in Acts : Permission!SeenOrMoved(c) /\ Placed(c)

LEMMA PermissionConstants ==
  /\ Default \subseteq Domains /\ Navigations \cap Acts = {}
  /\ Nothing \notin Tabs /\ Nothing \notin Domains
  /\ Nothing \notin {"allow_once", "allow_30min", "trust_persist", "deny"}
  /\ \A D \in SUBSET Domains : D # Nothing
BY UserAssumption DEF UserAssumption, Permission!ConstantsOK, Permission!Answers

LEMMA PermissionParts ==
  /\ Permission!IInv <=> (Permission!TypeOK /\ TrustPart /\ ActPart)
  /\ Permission!IInv' <=> (Permission!TypeOK' /\ TrustPart' /\ ActPart')
BY DEF Permission!IInv, TrustPart, ActPart, Placed, Permission!ActsWhereAllowed

LEMMA IdleState ==
  /\ Permission!Idle \in Permission!CallStates
  /\ Permission!Idle.at = "off" /\ Permission!Idle.tab = Nothing
  /\ Permission!Idle.seen = Nothing /\ Permission!Idle.url = Nothing
BY DEF Permission!Idle, Permission!CallStates

\* The command is addressed: to the tab of the call if it has one.
LEMMA AddressedFacts ==
  ASSUME Permission!TypeOK, NEW c, NEW k \in Permission!CallStates
  PROVE  LET a == Permission!Addressed(c, k) IN
         /\ a \in Permission!CallStates
         /\ a.at = "sent" /\ a.tab = k.tab /\ a.seen = k.seen /\ a.url = k.url
         /\ k.tab # Nothing => a.used = k.tab
<1> DEFINE u == IF k.tab # Nothing \/ c \in Navigations THEN k.tab ELSE sticky
           k1 == [k EXCEPT !.at = "sent"]
           k2 == [k1 EXCEPT !.used = u]
<1>1. Permission!Addressed(c, k) = k2
  BY DEF Permission!Addressed
<1>2. u \in Tabs \cup {Nothing} /\ (k.tab # Nothing => u = k.tab)
  BY DEF Permission!TypeOK, Permission!CallStates
<1> HIDE DEF u
<1>3. /\ k1 \in Permission!CallStates /\ k1.at = "sent"
      /\ k1.tab = k.tab /\ k1.seen = k.seen /\ k1.url = k.url
  BY DEF Permission!CallStates
<1> HIDE DEF k1
<1>4. /\ k2 \in Permission!CallStates /\ k2.at = "sent" /\ k2.used = u
      /\ k2.tab = k.tab /\ k2.seen = k.seen /\ k2.url = k.url
  BY <1>2, <1>3 DEF Permission!CallStates
<1> QED
  BY <1>1, <1>2, <1>4

LEMMA CheckedFacts ==
  ASSUME Permission!TypeOK, NEW c, NEW k \in Permission!CallStates
  PROVE  LET a == Permission!Checked(c, k) IN
         /\ a \in Permission!CallStates
         /\ a.at \in {"waiting", "sent"}
         /\ a.tab = k.tab /\ a.seen = k.seen /\ a.url = k.url
         /\ a.at = "waiting" => k.url \notin allow
         /\ a.at = "sent" /\ k.tab # Nothing => a.used = k.tab
<1>1. CASE k.url \in allow \cup window
  BY <1>1, AddressedFacts DEF Permission!Checked
<1>2. CASE k.url \notin allow \cup window
  <2> DEFINE k1 == [k EXCEPT !.at = "waiting"]
  <2>1. /\ k1 \in Permission!CallStates /\ k1.at = "waiting"
        /\ k1.tab = k.tab /\ k1.seen = k.seen /\ k1.url = k.url
    BY DEF Permission!CallStates
  <2> QED
    BY <1>2, <2>1 DEF Permission!Checked
<1> QED
  BY <1>1, <1>2

-----------------------------------------------------------------------------
(* What a step keeps of the calls it is not about, and of the trust.       *)

\* What was seen by a call that does not step still holds, or has moved.
LEMMA OthersActPart ==
  ASSUME Permission!TypeOK, Permission!TypeOK', ActPart, Permission!NoteMoves,
         NEW x \in Acts, call'[x] = call[x]
  PROVE  Permission!SeenOrMoved(x)' /\ Placed(x)'
<1> DEFINE k == call[x]
<1>1. x \in Permission!Calls /\ Permission!SeenOrMoved(x) /\ Placed(x)
  BY DEF ActPart, Permission!Calls
<1>2. k \in Permission!CallStates
  BY <1>1 DEF Permission!TypeOK
<1>3. CASE k.at \in {"off", "resolving"}
  BY <1>1, <1>3 DEF Permission!SeenOrMoved, Placed
<1>4. CASE k.at = "done"
  <2>1. moved'[x] = moved[x]
    BY <1>1, <1>4 DEF Permission!NoteMoves, Permission!SeenOrMoved
  <2> QED
    BY <1>1, <1>4, <2>1 DEF Permission!SeenOrMoved, Placed
<1>5. CASE k.at \in {"waiting", "sent"}
  <2>1. /\ moved[x] \subseteq moved'[x]
        /\ page'[k.seen] # page[k.seen] => "page" \in moved'[x]
        /\ k.tab = Nothing /\ active' # active => "active" \in moved'[x]
    BY <1>1, <1>5 DEF Permission!NoteMoves, Permission!SeenOrMoved
  <2> QED
    BY <1>1, <1>5, <2>1 DEF Permission!SeenOrMoved, Placed
<1> QED
  BY <1>2, <1>3, <1>4, <1>5 DEF Permission!CallStates

\* A step of a call that was not asking changes no trust.
LEMMA OthersTrustPart ==
  ASSUME Permission!TypeOK, Permission!TypeOK', TrustPart,
         NEW c \in Permission!Calls, NEW k, call' = [call EXCEPT ![c] = k],
         call[c].at # "waiting", k.at = "waiting" => k.url \notin Default,
         c \in Navigations => k.at = "off" \/ (k.at # "resolving" /\ k.url # Nothing),
         UNCHANGED <<allow, window, disk, answer, told>>
  PROVE  TrustPart'
<1>1. answer[c] = Nothing
  BY DEF TrustPart, Permission!AsksInOrder
<1>2. call'[c] = k /\ \A x \in Permission!Calls : x # c => call'[x] = call[x]
  BY DEF Permission!TypeOK
<1>3. Permission!AsksInOrder'
  BY <1>1, <1>2 DEF TrustPart, Permission!AsksInOrder
<1>4. Permission!FileIsMemory'
  BY DEF TrustPart, Permission!FileIsMemory, Permission!Torn
<1>5. Permission!TrustLasts'
  BY <1>1, <1>2, PermissionConstants DEF TrustPart, Permission!TrustLasts, Permission!Torn
<1> QED
  BY <1>3, <1>4, <1>5 DEF TrustPart

\* The types of what a step of one call writes.
LEMMA CallTypes ==
  ASSUME Permission!TypeOK, Permission!NoteMoves, NEW c \in Permission!Calls,
         NEW k \in Permission!CallStates, call' = [call EXCEPT ![c] = k]
  PROVE  /\ call' \in [Permission!Calls -> Permission!CallStates]
         /\ call'[c] = k /\ \A x \in Permission!Calls : x # c => call'[x] = call[x]
         /\ moved' \in [Permission!Calls -> SUBSET {"page", "active"}]
<1>1. moved' \in [Permission!Calls -> SUBSET {"page", "active"}]
  BY DEF Permission!TypeOK, Permission!NoteMoves
<1> QED
  BY <1>1 DEF Permission!TypeOK

\* A call that ends, or was none of Acts, needs no place.
LEMMA EndsActPart ==
  ASSUME Permission!TypeOK, Permission!TypeOK', ActPart, Permission!NoteMoves,
         NEW c \in Permission!Calls, NEW k, call' = [call EXCEPT ![c] = k],
         c \in Acts => Permission!SeenOrMoved(c)' /\ Placed(c)'
  PROVE  ActPart'
<1> SUFFICES ASSUME NEW x \in Acts
             PROVE  Permission!SeenOrMoved(x)' /\ Placed(x)'
  BY DEF ActPart
<1>1. x # c => call'[x] = call[x]
  BY DEF Permission!TypeOK, Permission!Calls
<1> QED
  BY <1>1, OthersActPart

\* A call that is off is nowhere.
LEMMA OffActs ==
  ASSUME NEW c \in Acts, call'[c] = Permission!Idle
  PROVE  Permission!SeenOrMoved(c)' /\ Placed(c)'
BY IdleState DEF Permission!SeenOrMoved, Placed

-----------------------------------------------------------------------------
(* The steps of a call.                                                    *)

LEMMA BeginKeeps ==
  ASSUME Permission!IInv, Permission!NoteMoves, NEW c \in Permission!Calls, Permission!Begin(c)
  PROVE  Permission!IInv'
<1>1. /\ Permission!TypeOK /\ TrustPart /\ ActPart /\ call[c] = Permission!Idle
      /\ UNCHANGED <<page, active, sticky, allow, window, disk, answer, told>>
  BY PermissionParts DEF Permission!Begin, Permission!browser, Permission!trust
<1>2. \E k \in Permission!CallStates :
        /\ call' = [call EXCEPT ![c] = k]
        /\ k.at = "waiting" => k.url \notin Default
        /\ c \in Acts => k.at = "resolving" /\ k.seen = Nothing
        /\ c \in Navigations => k.at # "resolving" /\ k.url # Nothing
  <2>1. CASE c \in Navigations
    <3>1. PICK d \in Domains : call' = [call EXCEPT ![c] =
                  Permission!Checked(c, [Permission!Idle EXCEPT !.url = d])]
      BY <2>1, PermissionConstants DEF Permission!Begin
    <3>2. /\ [Permission!Idle EXCEPT !.url = d] \in Permission!CallStates
          /\ [Permission!Idle EXCEPT !.url = d].url = d
      BY IdleState DEF Permission!CallStates
    <3> DEFINE k0 == [Permission!Idle EXCEPT !.url = d]
    <3> HIDE DEF k0
    <3>3. LET k == Permission!Checked(c, k0) IN
          /\ k \in Permission!CallStates /\ k.at \in {"waiting", "sent"} /\ k.url = d
          /\ k.at = "waiting" => k.url \notin allow
      BY <1>1, <3>2, CheckedFacts DEF k0
    <3> QED
      BY <1>1, <2>1, <3>1, <3>3, PermissionConstants
      DEF TrustPart, Permission!FileIsMemory, k0
  <2>2. CASE c \in Acts
    <3>1. PICK t \in Tabs \cup {Nothing} : call' = [call EXCEPT ![c] =
                  [Permission!Idle EXCEPT !.at = "resolving", !.tab = t]]
      BY <2>2, PermissionConstants DEF Permission!Begin
    <3> DEFINE k1 == [Permission!Idle EXCEPT !.at = "resolving"]
               k == [k1 EXCEPT !.tab = t]
    <3>2. [Permission!Idle EXCEPT !.at = "resolving", !.tab = t] = k
      OBVIOUS
    <3>3. k1 \in Permission!CallStates /\ k1.at = "resolving" /\ k1.seen = Nothing
      BY IdleState DEF Permission!CallStates
    <3> HIDE DEF k1
    <3>4. k \in Permission!CallStates /\ k.at = "resolving" /\ k.seen = Nothing
      BY <3>3 DEF Permission!CallStates
    <3> QED
      BY <2>2, <3>1, <3>2, <3>4, PermissionConstants
  <2> QED
    BY <2>1, <2>2 DEF Permission!Calls
<1>3. PICK k \in Permission!CallStates :
        /\ call' = [call EXCEPT ![c] = k]
        /\ k.at = "waiting" => k.url \notin Default
        /\ c \in Acts => k.at = "resolving" /\ k.seen = Nothing
        /\ c \in Navigations => k.at # "resolving" /\ k.url # Nothing
  BY <1>2
<1>4. /\ call' \in [Permission!Calls -> Permission!CallStates] /\ call'[c] = k
      /\ moved' \in [Permission!Calls -> SUBSET {"page", "active"}]
  BY <1>1, <1>3, CallTypes
<1>5. Permission!TypeOK'
  BY <1>1, <1>4 DEF Permission!TypeOK, Permission!Torn
<1>6. TrustPart'
  BY <1>1, <1>3, <1>5, IdleState, OthersTrustPart
<1>7. c \in Acts => Permission!SeenOrMoved(c)' /\ Placed(c)'
  BY <1>3, <1>4 DEF Permission!SeenOrMoved, Placed
<1>8. ActPart'
  BY <1>1, <1>3, <1>5, <1>7, EndsActPart
<1> QED
  BY <1>5, <1>6, <1>8, PermissionParts

\* The page that is seen is the one asked about, in the tab of the call.
LEMMA ResolveKeeps ==
  ASSUME Permission!IInv, Permission!NoteMoves, NEW c \in Permission!Calls,
         Permission!Resolve(c)
  PROVE  Permission!IInv'
<1> DEFINE t == Permission!Looked(call[c])
<1>1. /\ Permission!TypeOK /\ TrustPart /\ ActPart /\ call[c].at = "resolving"
      /\ call[c] \in Permission!CallStates
      /\ UNCHANGED <<page, active, sticky, allow, window, disk, answer, told>>
  BY PermissionParts
  DEF Permission!Resolve, Permission!browser, Permission!trust, Permission!TypeOK
<1>2. /\ t \in Tabs /\ (call[c].tab # Nothing => t = call[c].tab)
      /\ call[c].tab = Nothing => t = active
  BY <1>1 DEF Permission!Looked, Permission!TypeOK, Permission!CallStates
<1>3. PICK url \in {page[t], Nothing} :
        call' = [call EXCEPT ![c] =
                    Permission!Checked(c, [call[c] EXCEPT !.seen = t, !.url = url])]
  BY DEF Permission!Resolve
<1>4. url \in Domains \cup {Nothing}
  BY <1>1, <1>2 DEF Permission!TypeOK
<1> HIDE DEF t
<1> DEFINE k1 == [call[c] EXCEPT !.seen = t]
           k2 == [k1 EXCEPT !.url = url]
           k == Permission!Checked(c, [call[c] EXCEPT !.seen = t, !.url = url])
<1>5. [call[c] EXCEPT !.seen = t, !.url = url] = k2
  OBVIOUS
<1>6. k1 \in Permission!CallStates /\ k1.seen = t /\ k1.tab = call[c].tab
  BY <1>1, <1>2 DEF Permission!CallStates
<1> HIDE DEF k1
<1>7. /\ k2 \in Permission!CallStates /\ k2.seen = t /\ k2.tab = call[c].tab
      /\ k2.url = url
  BY <1>4, <1>6 DEF Permission!CallStates
<1> HIDE DEF k2
<1>8. /\ k \in Permission!CallStates /\ k.at \in {"waiting", "sent"}
      /\ k.seen = t /\ k.tab = call[c].tab /\ k.url = url
      /\ k.at = "waiting" => k.url \notin allow
      /\ k.at = "sent" /\ k.tab # Nothing => k.used = k.tab
  BY <1>1, <1>5, <1>7, CheckedFacts
<1>9. call' = [call EXCEPT ![c] = k]
  BY <1>3
<1> HIDE DEF k
<1>10. /\ call' \in [Permission!Calls -> Permission!CallStates] /\ call'[c] = k
       /\ moved' \in [Permission!Calls -> SUBSET {"page", "active"}]
  BY <1>1, <1>8, <1>9, CallTypes
<1>11. Permission!TypeOK'
  BY <1>1, <1>10 DEF Permission!TypeOK, Permission!Torn
<1>12. (k.at = "waiting" => k.url \notin Default) /\ c \notin Navigations
  BY <1>1, <1>8 DEF TrustPart, Permission!FileIsMemory, Permission!AsksInOrder
<1>13. TrustPart'
  BY <1>1, <1>9, <1>11, <1>12, OthersTrustPart
<1>14. c \in Acts => Permission!SeenOrMoved(c)' /\ Placed(c)'
  BY <1>1, <1>2, <1>3, <1>8, <1>10, PermissionConstants DEF Permission!SeenOrMoved, Placed
<1>15. ActPart'
  BY <1>1, <1>9, <1>11, <1>14, EndsActPart
<1> QED
  BY <1>11, <1>13, <1>15, PermissionParts

LEMMA AnswerKeeps ==
  ASSUME Permission!IInv, Permission!NoteMoves, NEW c \in Permission!Calls,
         Permission!Answer(c)
  PROVE  Permission!IInv'
<1>1. /\ Permission!TypeOK /\ TrustPart /\ ActPart
      /\ call[c].at = "waiting" /\ answer[c] = Nothing
      /\ UNCHANGED <<page, active, sticky, allow, window, disk, call>>
  BY PermissionParts DEF Permission!Answer, Permission!browser, Permission!trust
<1>2. PICK a \in Permission!Answers :
        /\ answer' = [answer EXCEPT ![c] = a]
        /\ told' = told \cup {d \in Domains : d = call[c].url /\ a = "trust_persist"}
  BY DEF Permission!Answer
<1>3. moved' \in [Permission!Calls -> SUBSET {"page", "active"}]
  BY <1>1 DEF Permission!NoteMoves, Permission!TypeOK
<1>4. Permission!TypeOK'
  BY <1>1, <1>2, <1>3 DEF Permission!TypeOK, Permission!Torn
<1>5. /\ answer'[c] = a /\ \A x \in Permission!Calls : x # c => answer'[x] = answer[x]
  BY <1>1, <1>2 DEF Permission!TypeOK
<1>6. Permission!AsksInOrder'
  BY <1>1, <1>5 DEF TrustPart, Permission!AsksInOrder
<1>7. Permission!FileIsMemory'
  BY <1>1, <1>2 DEF TrustPart, Permission!FileIsMemory, Permission!AsksInOrder, Permission!Torn
<1>8. Permission!TrustLasts'
  <2> SUFFICES ASSUME NEW d \in told'
               PROVE  \/ d \in allow /\ disk # Permission!Torn /\ d \in disk.allow
                      \/ \E x \in Permission!Calls :
                            call[x].url = d /\ answer'[x] = "trust_persist"
    BY <1>1 DEF Permission!TrustLasts, Permission!Torn
  <2>1. CASE d \in told
    BY <1>1, <1>5, <2>1, PermissionConstants DEF TrustPart, Permission!TrustLasts
  <2>2. CASE d = call[c].url /\ a = "trust_persist"
    BY <1>5, <2>2
  <2> QED
    BY <1>2, <2>1, <2>2
<1>9. ActPart'
  BY <1>1, <1>4, OthersActPart DEF ActPart
<1> QED
  BY <1>4, <1>6, <1>7, <1>8, <1>9, PermissionParts DEF TrustPart

\* The decision is applied to memory and file before the command is addressed.
LEMMA DecidedKeeps ==
  ASSUME Permission!IInv, Permission!NoteMoves, NEW c \in Permission!Calls,
         Permission!Decided(c)
  PROVE  Permission!IInv'
<1> DEFINE D == {call[c].url} \ {Nothing}
           k == IF answer[c] = "deny" THEN Permission!Idle
                ELSE Permission!Addressed(c, call[c])
<1>1. /\ Permission!TypeOK /\ TrustPart /\ ActPart
      /\ call[c].at = "waiting" /\ answer[c] # Nothing
      /\ call[c] \in Permission!CallStates
      /\ UNCHANGED <<page, active, sticky, told>>
      /\ answer' = [answer EXCEPT ![c] = Nothing]
  BY PermissionParts DEF Permission!Decided, Permission!browser, Permission!TypeOK
<1>2. /\ allow' = IF answer[c] = "trust_persist" THEN allow \cup D ELSE allow
      /\ window' = IF answer[c] = "allow_30min" THEN window \cup D ELSE window
      /\ disk' = IF D = {} THEN disk ELSE [allow |-> allow', window |-> window']
  BY DEF Permission!Decided, Permission!Apply
<1>3. D \subseteq Domains
  BY <1>1 DEF Permission!CallStates
<1>4. call' = [call EXCEPT ![c] = k]
  BY <1>1 DEF Permission!Decided, Permission!TypeOK
<1>5. /\ k \in Permission!CallStates /\ k.at \in {"off", "sent"}
      /\ k = Permission!Idle
         \/ /\ k.at = "sent" /\ k.tab = call[c].tab /\ k.seen = call[c].seen
            /\ k.url = call[c].url
            /\ k.tab # Nothing => k.used = k.tab
  BY <1>1, IdleState, AddressedFacts
<1>d. \A d \in Domains : d = call[c].url => d \in D
  BY PermissionConstants
<1> HIDE DEF k, D
<1>6. /\ call' \in [Permission!Calls -> Permission!CallStates] /\ call'[c] = k
      /\ \A x \in Permission!Calls : x # c => call'[x] = call[x]
      /\ moved' \in [Permission!Calls -> SUBSET {"page", "active"}]
  BY <1>1, <1>4, <1>5, CallTypes
<1>7. /\ answer' \in [Permission!Calls -> Permission!Answers \cup {Nothing}]
      /\ answer'[c] = Nothing
      /\ \A x \in Permission!Calls : x # c => answer'[x] = answer[x]
  BY <1>1 DEF Permission!TypeOK
<1>8. allow' \subseteq Domains /\ window' \subseteq Domains /\ allow \subseteq allow'
  BY <1>1, <1>2, <1>3 DEF Permission!TypeOK
<1>9. disk' = Permission!Torn
      \/ disk' \in [allow : SUBSET Domains, window : SUBSET Domains]
  BY <1>1, <1>2, <1>8 DEF Permission!TypeOK
<1>10. Permission!TypeOK'
  BY <1>1, <1>6, <1>7, <1>8, <1>9 DEF Permission!TypeOK, Permission!Torn
<1>11. Permission!AsksInOrder'
  <2>1. /\ k.at # "waiting" /\ k.at # "resolving"
        /\ c \in Navigations => k.at = "off" \/ k.url # Nothing
    BY <1>1, <1>5, IdleState DEF TrustPart, Permission!AsksInOrder
  <2> QED
    BY <1>1, <1>6, <1>7, <2>1 DEF TrustPart, Permission!AsksInOrder
<1>12. Permission!FileIsMemory'
  <2>1. CASE D = {}
    BY <1>1, <1>2, <2>1 DEF TrustPart, Permission!FileIsMemory, Permission!Torn
  <2>2. CASE D # {}
    BY <1>1, <1>2, <1>8, <2>2 DEF TrustPart, Permission!FileIsMemory, Permission!Torn
  <2> QED
    BY <2>1, <2>2
<1>13. Permission!TrustLasts'
  <2> SUFFICES ASSUME NEW d \in told
               PROVE  \/ d \in allow' /\ disk' # Permission!Torn /\ d \in disk'.allow
                      \/ \E x \in Permission!Calls :
                            call'[x].url = d /\ answer'[x] = "trust_persist"
    BY <1>1 DEF Permission!TrustLasts, Permission!Torn
  <2>0. d \in Domains
    BY <1>1 DEF Permission!TypeOK
  <2>1. CASE d \in allow /\ disk # Permission!Torn /\ d \in disk.allow
    <3>1. CASE D = {}
      BY <1>2, <1>8, <2>1, <3>1
    <3>2. CASE D # {}
      BY <1>2, <1>8, <2>1, <3>2, PermissionConstants DEF Permission!Torn
    <3> QED
      BY <3>1, <3>2
  <2>2. CASE call[c].url = d /\ answer[c] = "trust_persist"
    <3>1. d \in D
      BY <1>d, <2>0, <2>2
    <3> QED
      BY <1>2, <1>8, <2>2, <3>1, PermissionConstants DEF Permission!Torn
  <2>3. CASE \E x \in Permission!Calls :
               x # c /\ call[x].url = d /\ answer[x] = "trust_persist"
    BY <1>6, <1>7, <2>3
  <2> QED
    BY <1>1, <2>1, <2>2, <2>3 DEF TrustPart, Permission!TrustLasts
<1>14. c \in Acts => Permission!SeenOrMoved(c)' /\ Placed(c)'
  <2> SUFFICES ASSUME c \in Acts
               PROVE  Permission!SeenOrMoved(c)' /\ Placed(c)'
    OBVIOUS
  <2>1. Permission!SeenOrMoved(c)
    BY <1>1 DEF ActPart
  <2>2. CASE k = Permission!Idle
    BY <1>6, <2>2, OffActs
  <2>3. CASE /\ k.at = "sent" /\ k.tab = call[c].tab /\ k.seen = call[c].seen
             /\ k.url = call[c].url
             /\ k.tab # Nothing => k.used = k.tab
    <3>1. moved[c] \subseteq moved'[c]
      BY <1>1, <2>1 DEF Permission!NoteMoves, Permission!SeenOrMoved
    <3> QED
      BY <1>1, <1>6, <2>1, <2>3, <3>1 DEF Permission!SeenOrMoved, Placed
  <2> QED
    BY <1>5, <2>2, <2>3
<1>15. ActPart'
  BY <1>1, <1>4, <1>10, <1>14, EndsActPart
<1> QED
  BY <1>10, <1>11, <1>12, <1>13, <1>15, PermissionParts DEF TrustPart

\* TimesOut and Cancel: the answer of the call is lost, and what the user was
\* told of it is taken back unless another call has brought it about.
LEMMA ForgottenKeeps ==
  ASSUME Permission!IInv, Permission!NoteMoves, NEW c \in Permission!Calls,
         Permission!TimesOut(c) \/ Permission!Cancel(c)
  PROVE  Permission!IInv'
<1>1. /\ Permission!TypeOK /\ TrustPart /\ ActPart
      /\ call[c] \in Permission!CallStates
      /\ UNCHANGED <<page, active, sticky, allow, window>>
      /\ call' = [call EXCEPT ![c] = Permission!Idle]
      /\ answer' = [answer EXCEPT ![c] = Nothing]
      /\ told' = IF answer[c] = "trust_persist" THEN told \ ({call[c].url} \ allow) ELSE told
      /\ disk' = disk \/ disk' = [allow |-> allow, window |-> window]
  BY PermissionParts
  DEF Permission!TimesOut, Permission!Cancel, Permission!Forgotten, Permission!browser,
      Permission!trust, Permission!TypeOK
<1>2. /\ call' \in [Permission!Calls -> Permission!CallStates]
      /\ call'[c] = Permission!Idle
      /\ \A x \in Permission!Calls : x # c => call'[x] = call[x]
      /\ moved' \in [Permission!Calls -> SUBSET {"page", "active"}]
  BY <1>1, IdleState, CallTypes
<1>3. /\ answer' \in [Permission!Calls -> Permission!Answers \cup {Nothing}]
      /\ answer'[c] = Nothing
      /\ \A x \in Permission!Calls : x # c => answer'[x] = answer[x]
  BY <1>1 DEF Permission!TypeOK
<1>4. told' \subseteq told
  BY <1>1
<1>5. disk' = Permission!Torn
      \/ disk' \in [allow : SUBSET Domains, window : SUBSET Domains]
  BY <1>1 DEF Permission!TypeOK
<1>6. Permission!TypeOK'
  BY <1>1, <1>2, <1>3, <1>4, <1>5 DEF Permission!TypeOK, Permission!Torn
<1>7. Permission!AsksInOrder'
  BY <1>1, <1>2, <1>3, IdleState DEF TrustPart, Permission!AsksInOrder
<1>8. Permission!FileIsMemory'
  BY <1>1, <1>4 DEF TrustPart, Permission!FileIsMemory, Permission!Torn
<1>9. Permission!TrustLasts'
  <2> SUFFICES ASSUME NEW d \in told'
               PROVE  \/ d \in allow /\ disk' # Permission!Torn /\ d \in disk'.allow
                      \/ \E x \in Permission!Calls :
                            call'[x].url = d /\ answer'[x] = "trust_persist"
    BY <1>1 DEF Permission!TrustLasts, Permission!Torn
  <2>1. CASE d \in allow
    <3>1. d \notin Default /\ disk # Permission!Torn
      <4>1. disk = [allow |-> allow, window |-> window] => disk # Permission!Torn
        BY <1>1, PermissionConstants DEF Permission!Torn, Permission!TypeOK
      <4> QED
        BY <1>1, <1>4, <2>1, <4>1 DEF TrustPart, Permission!FileIsMemory
    <3> QED
      BY <1>1, <2>1, <3>1, PermissionConstants
      DEF Permission!Torn, TrustPart, Permission!FileIsMemory, Permission!TypeOK
  <2>2. CASE d \notin allow
    <3>1. PICK x \in Permission!Calls : call[x].url = d /\ answer[x] = "trust_persist"
      BY <1>1, <1>4, <2>2 DEF TrustPart, Permission!TrustLasts
    <3>2. x # c
      BY <1>1, <2>2, <3>1
    <3> QED
      BY <1>2, <1>3, <3>1, <3>2
  <2> QED
    BY <2>1, <2>2
<1>10. ActPart'
  BY <1>1, <1>2, <1>6, OffActs, EndsActPart
<1> QED
  BY <1>6, <1>7, <1>8, <1>9, <1>10, PermissionParts DEF TrustPart

\* What is acted on is the tab of the call, or else the one of the last
\* navigation, or else the active one.
LEMMA PerformKeeps ==
  ASSUME Permission!IInv, Permission!NoteMoves, NEW c \in Permission!Calls,
         Permission!Perform(c)
  PROVE  Permission!IInv'
<1> DEFINE target == IF call[c].used = Nothing THEN active ELSE call[c].used
<1>1. /\ Permission!TypeOK /\ TrustPart /\ ActPart /\ call[c].at = "sent"
      /\ call[c] \in Permission!CallStates
      /\ UNCHANGED <<sticky, allow, window, disk, answer, told>>
  BY PermissionParts DEF Permission!Perform, Permission!trust, Permission!TypeOK
<1>2. target \in Tabs
  BY <1>1 DEF Permission!TypeOK, Permission!CallStates
<1>3. CASE /\ c \in Acts
           /\ call' = [call EXCEPT ![c].at = "done", ![c].where = page[target]]
           /\ UNCHANGED <<page, active>>
  <2>0. page[target] \in Domains
    BY <1>1, <1>2 DEF Permission!TypeOK
  <2> HIDE DEF target
  <2> DEFINE k1 == [call[c] EXCEPT !.at = "done"]
             k == [k1 EXCEPT !.where = page[target]]
             call1 == [call EXCEPT ![c] = k1]
  <2>1. [call EXCEPT ![c].at = "done"] = call1
    OBVIOUS
  <2>2. [call EXCEPT ![c].at = "done", ![c].where = page[target]]
          = [call1 EXCEPT ![c].where = page[target]]
    BY <2>1
  <2>3. call1[c] = k1 /\ [call1 EXCEPT ![c].where = page[target]] = [call EXCEPT ![c] = k]
    BY <1>1 DEF Permission!TypeOK
  <2>4. call' = [call EXCEPT ![c] = k]
    BY <1>3, <2>2, <2>3
  <2> HIDE DEF call1
  <2>5. /\ k1 \in Permission!CallStates /\ k1.at = "done" /\ k1.seen = call[c].seen
        /\ k1.tab = call[c].tab /\ k1.url = call[c].url /\ k1.used = call[c].used
    BY <1>1 DEF Permission!CallStates
  <2> HIDE DEF k1
  <2>6. /\ k \in Permission!CallStates /\ k.at = "done" /\ k.seen = call[c].seen
        /\ k.tab = call[c].tab /\ k.url = call[c].url /\ k.used = call[c].used
        /\ k.where = page[target]
    BY <2>0, <2>5 DEF Permission!CallStates
  <2> HIDE DEF k
  <2>7. /\ call' \in [Permission!Calls -> Permission!CallStates] /\ call'[c] = k
        /\ moved' \in [Permission!Calls -> SUBSET {"page", "active"}]
    BY <1>1, <2>4, <2>6, CallTypes
  <2>8. Permission!TypeOK'
    BY <1>1, <1>3, <2>7 DEF Permission!TypeOK, Permission!Torn
  <2>9. TrustPart'
    BY <1>1, <1>3, <2>4, <2>6, <2>8, OthersTrustPart, PermissionConstants
  <2>10. Permission!SeenOrMoved(c) /\ moved[c] \subseteq moved'[c]
    BY <1>1, <1>3 DEF ActPart, Permission!NoteMoves, Permission!SeenOrMoved
  <2>11. Placed(c)'
    BY <1>1, <2>6, <2>7, <2>10 DEF Placed, Permission!SeenOrMoved, target
  <2>12. Permission!SeenOrMoved(c)'
    BY <1>1, <2>6, <2>7, <2>10 DEF Permission!SeenOrMoved
  <2>13. ActPart'
    BY <1>1, <2>4, <2>8, <2>11, <2>12, EndsActPart
  <2> QED
    BY <2>8, <2>9, <2>13, PermissionParts
<1>4. CASE /\ c \in Navigations
           /\ \E t \in Tabs :
                 /\ page' = [page EXCEPT ![t] = call[c].url]
                 /\ active' \in {active, t}
                 /\ call' = [call EXCEPT ![c].at = "done", ![c].used = t,
                                         ![c].where = call[c].url]
  <2>0. call[c].url \in Domains
    BY <1>1, <1>4 DEF TrustPart, Permission!AsksInOrder, Permission!CallStates
  <2>1. PICK t \in Tabs :
          /\ page' = [page EXCEPT ![t] = call[c].url]
          /\ active' \in {active, t}
          /\ call' = [call EXCEPT ![c].at = "done", ![c].used = t,
                                  ![c].where = call[c].url]
    BY <1>4
  <2> DEFINE k1 == [call[c] EXCEPT !.at = "done"]
             k2 == [k1 EXCEPT !.used = t]
             k == [k2 EXCEPT !.where = call[c].url]
             call1 == [call EXCEPT ![c] = k1]
             call2 == [call EXCEPT ![c] = k2]
  <2>2. [call EXCEPT ![c].at = "done"] = call1
    OBVIOUS
  <2>3. call1[c] = k1 /\ [call1 EXCEPT ![c].used = t] = call2
    BY <1>1 DEF Permission!TypeOK
  <2>4. call2[c] = k2 /\ [call2 EXCEPT ![c].where = call[c].url] = [call EXCEPT ![c] = k]
    BY <1>1 DEF Permission!TypeOK
  <2>5. [call EXCEPT ![c].at = "done", ![c].used = t, ![c].where = call[c].url]
          = [[[call EXCEPT ![c].at = "done"] EXCEPT ![c].used = t]
               EXCEPT ![c].where = call[c].url]
    OBVIOUS
  <2>6. call' = [call EXCEPT ![c] = k]
    BY <2>1, <2>2, <2>3, <2>4, <2>5
  <2> HIDE DEF call1, call2
  <2>7. k1 \in Permission!CallStates /\ k1.at = "done" /\ k1.url = call[c].url
    BY <1>1 DEF Permission!CallStates
  <2> HIDE DEF k1
  <2>8. k2 \in Permission!CallStates /\ k2.at = "done" /\ k2.url = call[c].url
    BY <2>7 DEF Permission!CallStates
  <2> HIDE DEF k2
  <2>9. k \in Permission!CallStates /\ k.at = "done" /\ k.url # Nothing
    BY <1>1, <2>0, <2>8, PermissionConstants DEF Permission!CallStates
  <2> HIDE DEF k
  <2>10. /\ call' \in [Permission!Calls -> Permission!CallStates] /\ call'[c] = k
         /\ moved' \in [Permission!Calls -> SUBSET {"page", "active"}]
    BY <1>1, <2>6, <2>9, CallTypes
  <2>11. page' \in [Tabs -> Domains] /\ active' \in Tabs
    BY <1>1, <2>0, <2>1 DEF Permission!TypeOK
  <2>12. Permission!TypeOK'
    BY <1>1, <2>10, <2>11 DEF Permission!TypeOK, Permission!Torn
  <2>13. TrustPart'
    BY <1>1, <2>6, <2>9, <2>12, OthersTrustPart
  <2>14. ActPart'
    BY <1>1, <1>4, <2>6, <2>12, EndsActPart, PermissionConstants
  <2> QED
    BY <2>12, <2>13, <2>14, PermissionParts
<1> QED
  BY <1>3, <1>4 DEF Permission!Perform

\* Reply and Fails: the call is over.
LEMMA OverKeeps ==
  ASSUME Permission!IInv, Permission!NoteMoves, NEW c \in Permission!Calls,
         Permission!Reply(c) \/ Permission!Fails(c)
  PROVE  Permission!IInv'
<1>1. /\ Permission!TypeOK /\ TrustPart /\ ActPart
      /\ call[c].at \in {"sent", "done"} /\ call[c] \in Permission!CallStates
      /\ call' = [call EXCEPT ![c] = Permission!Idle]
      /\ sticky' \in {sticky, call[c].used}
      /\ UNCHANGED <<page, active, allow, window, disk, answer, told>>
  BY PermissionParts
  DEF Permission!Reply, Permission!Fails, Permission!trust, Permission!browser,
      Permission!TypeOK
<1>2. /\ call' \in [Permission!Calls -> Permission!CallStates]
      /\ call'[c] = Permission!Idle
      /\ moved' \in [Permission!Calls -> SUBSET {"page", "active"}]
  BY <1>1, IdleState, CallTypes
<1>3. sticky' \in Tabs \cup {Nothing}
  BY <1>1 DEF Permission!TypeOK, Permission!CallStates
<1>4. Permission!TypeOK'
  BY <1>1, <1>2, <1>3 DEF Permission!TypeOK, Permission!Torn
<1>5. TrustPart'
  BY <1>1, <1>4, IdleState, OthersTrustPart
<1>6. ActPart'
  BY <1>1, <1>2, <1>4, OffActs, EndsActPart
<1> QED
  BY <1>4, <1>5, <1>6, PermissionParts

-----------------------------------------------------------------------------
(* The steps of time, of the user, and the restart.                        *)

LEMMA ExpireKeeps ==
  ASSUME Permission!IInv, Permission!NoteMoves, NEW d, Permission!Expire(d)
  PROVE  Permission!IInv'
<1>1. /\ Permission!TypeOK /\ TrustPart /\ ActPart
      /\ window' = window \ {d}
      /\ disk' = IF disk = Permission!Torn THEN disk ELSE [disk EXCEPT !.window = @ \ {d}]
      /\ UNCHANGED <<page, active, sticky, allow, call, answer, told>>
  BY PermissionParts DEF Permission!Expire, Permission!browser
<1>2. moved' \in [Permission!Calls -> SUBSET {"page", "active"}]
  BY <1>1 DEF Permission!NoteMoves, Permission!TypeOK
<1>3. \/ disk = Permission!Torn /\ disk' = Permission!Torn
      \/ /\ disk # Permission!Torn
         /\ disk' \in [allow : SUBSET Domains, window : SUBSET Domains]
         /\ disk'.allow = disk.allow /\ disk'.window = disk.window \ {d}
  BY <1>1 DEF Permission!TypeOK
<1>4. Permission!TypeOK'
  BY <1>1, <1>2, <1>3 DEF Permission!TypeOK, Permission!Torn
<1>5. disk # Permission!Torn => disk' = [allow |-> allow', window |-> window']
  BY <1>1, <1>3 DEF TrustPart, Permission!FileIsMemory
<1>6. Permission!FileIsMemory'
  <2>1. CASE disk = Permission!Torn
    <3>1. disk # [allow |-> allow, window |-> window]
      BY <1>1, <2>1, PermissionConstants DEF Permission!Torn, Permission!TypeOK
    <3> QED
      BY <1>1, <2>1, <3>1 DEF TrustPart, Permission!FileIsMemory, Permission!Torn
  <2>2. CASE disk # Permission!Torn
    BY <1>1, <1>5, <2>2 DEF TrustPart, Permission!FileIsMemory, Permission!Torn
  <2> QED
    BY <2>1, <2>2
<1>7. disk # Permission!Torn => disk' # Permission!Torn /\ disk'.allow = disk.allow
  BY <1>1, <1>3, PermissionConstants DEF Permission!Torn
<1>8. Permission!TrustLasts'
  BY <1>1, <1>7 DEF TrustPart, Permission!TrustLasts, Permission!Torn
<1>9. Permission!AsksInOrder'
  BY <1>1 DEF TrustPart, Permission!AsksInOrder
<1>10. ActPart'
  BY <1>1, <1>4, OthersActPart DEF ActPart
<1> QED
  BY <1>4, <1>6, <1>8, <1>9, <1>10, PermissionParts DEF TrustPart

LEMMA BrowseKeeps ==
  ASSUME Permission!IInv, Permission!NoteMoves, NEW t \in Tabs, Permission!Browse(t)
  PROVE  Permission!IInv'
<1>1. /\ Permission!TypeOK /\ TrustPart /\ ActPart
      /\ UNCHANGED <<sticky, allow, window, disk, call, answer, told>>
  BY PermissionParts DEF Permission!Browse, Permission!trust
<1>2. page' \in [Tabs -> Domains] /\ active' \in Tabs
  BY <1>1 DEF Permission!Browse, Permission!TypeOK
<1>3. moved' \in [Permission!Calls -> SUBSET {"page", "active"}]
  BY <1>1 DEF Permission!NoteMoves, Permission!TypeOK
<1>4. Permission!TypeOK'
  BY <1>1, <1>2, <1>3 DEF Permission!TypeOK, Permission!Torn
<1>5. TrustPart'
  BY <1>1 DEF TrustPart, Permission!TrustLasts, Permission!FileIsMemory,
              Permission!AsksInOrder, Permission!Torn
<1>6. ActPart'
  BY <1>1, <1>4, OthersActPart DEF ActPart
<1> QED
  BY <1>4, <1>5, <1>6, PermissionParts

\* A file that was torn took with it all that was told of it.
LEMMA RestartOfServerKeeps ==
  ASSUME Permission!IInv, Permission!NoteMoves, Permission!Restart
  PROVE  Permission!IInv'
<1>1. /\ Permission!TypeOK /\ TrustPart /\ ActPart
      /\ disk' \in {disk, Permission!Torn}
      /\ allow' = Permission!Loaded(disk').allow /\ window' = Permission!Loaded(disk').window
      /\ told' = told \cap allow'
      /\ call' = [c \in Permission!Calls |-> Permission!Idle]
      /\ answer' = [c \in Permission!Calls |-> Nothing]
      /\ sticky' = Nothing /\ UNCHANGED <<page, active>>
  BY PermissionParts DEF Permission!Restart
<1>2. moved' \in [Permission!Calls -> SUBSET {"page", "active"}]
  BY <1>1 DEF Permission!NoteMoves, Permission!TypeOK
<1>3. \/ disk' = Permission!Torn /\ allow' = Default /\ window' = {}
      \/ /\ disk' # Permission!Torn /\ disk' = disk
         /\ allow' = allow /\ window' = window
         /\ disk = [allow |-> allow, window |-> window]
  BY <1>1 DEF Permission!Loaded, Permission!Defaults, TrustPart, Permission!FileIsMemory
<1>4. Permission!TypeOK'
  BY <1>1, <1>2, <1>3, IdleState, PermissionConstants DEF Permission!TypeOK, Permission!Torn
<1>5. Permission!FileIsMemory'
  BY <1>1, <1>3 DEF TrustPart, Permission!FileIsMemory, Permission!Torn
<1>6. Permission!TrustLasts'
  BY <1>1, <1>3 DEF TrustPart, Permission!FileIsMemory, Permission!TrustLasts, Permission!Torn
<1>7. Permission!AsksInOrder'
  BY <1>1, IdleState DEF Permission!AsksInOrder
<1>8. ActPart'
  BY <1>1, OffActs DEF ActPart, Permission!Calls
<1> QED
  BY <1>4, <1>5, <1>6, <1>7, <1>8, PermissionParts DEF TrustPart

LEMMA PermissionNextKeeps ==
  ASSUME Permission!IInv, [Permission!Next]_(Permission!vars)
  PROVE  Permission!IInv'
<1>1. CASE UNCHANGED Permission!vars
  BY <1>1 DEF Permission!vars, Permission!browser, Permission!trust, Permission!IInv,
              Permission!TypeOK, Permission!AsksInOrder, Permission!FileIsMemory,
              Permission!TrustLasts, Permission!ActsWhereAllowed, Permission!SeenOrMoved,
              Permission!Torn
<1>2. CASE Permission!Next
  BY <1>2, BeginKeeps, ResolveKeeps, AnswerKeeps, DecidedKeeps, ForgottenKeeps, PerformKeeps,
     OverKeeps, ExpireKeeps, BrowseKeeps, RestartOfServerKeeps DEF Permission!Next
<1> QED
  BY <1>1, <1>2

LEMMA PermissionInit == Permission!Init => Permission!IInv
<1> SUFFICES ASSUME Permission!Init PROVE Permission!IInv
  OBVIOUS
<1>1. Permission!TypeOK
  BY IdleState, PermissionConstants
  DEF Permission!Init, Permission!TypeOK, Permission!Torn, Permission!Defaults
<1>2. TrustPart
  BY IdleState, PermissionConstants
  DEF Permission!Init, TrustPart, Permission!AsksInOrder, Permission!FileIsMemory,
      Permission!TrustLasts, Permission!Defaults
<1>3. ActPart
  BY IdleState DEF Permission!Init, ActPart, Permission!SeenOrMoved, Placed, Permission!Calls
<1> QED
  BY <1>1, <1>2, <1>3, PermissionParts

LEMMA PermissionInvariance == UserSpec => []Permission!IInv
BY PermissionInit, PermissionNextKeeps, PartsAreImplemented, PTL DEF Permission!Spec

\* A domain the user was told is trusted stays so in memory and in the file,
\* whatever other calls answer, time out or are cancelled around it.
THEOREM TrustIsKept == UserSpec => []TrustLasts
<1>1. Permission!IInv => TrustLasts
  BY DEF Permission!IInv, TrustLasts
<1> QED
  BY <1>1, PermissionInvariance, PTL

\* The agent acts on the page the user was asked about, with the exceptions
\* that ActsWhereAllowed names and no other.
THEOREM ActsAreWhereAsked == UserSpec => []ActsWhereAllowed
<1>1. Permission!IInv => ActsWhereAllowed
  BY DEF Permission!IInv, ActsWhereAllowed
<1> QED
  BY <1>1, PermissionInvariance, PTL

-----------------------------------------------------------------------------
(* The command line: what its queue tells.                                 *)

\* The places in a queue q of what tells the status of a task.
Told(q, t) == {i \in DOMAIN q : q[i].kind # "other" /\ q[i].task = t}

QueuePart == Repl!QueueInOrder /\ Repl!BirthsFirst /\ Repl!LastWordIsTrue

ScreenPart == Repl!RequestsInOrder /\ Repl!BirthIsNotLast /\ Repl!BarFollows

LEMMA ReplParts ==
  /\ Repl!IInv <=> (Repl!TypeOK /\ QueuePart /\ ScreenPart)
  /\ Repl!IInv' <=> (Repl!TypeOK' /\ QueuePart' /\ ScreenPart')
BY DEF Repl!IInv, QueuePart, ScreenPart

LEMMA ReplConstants ==
  /\ MaxRetry \in Nat \ {0} /\ Nothing \notin Started
  /\ \A r \in Repl!Requests : r # Nothing
  /\ DOMAIN Repl!Asked = {"checkpoint", "stop", "pause", "resume"}
  /\ \A what \in DOMAIN Repl!Asked : Repl!Asked[what] \in Repl!Moves
  /\ Repl!Asked["checkpoint"] = "in_progress"
BY UserAssumption DEF UserAssumption, Repl!ConstantsOK, Repl!Asked, Repl!Moves

\* The parts of Repl!IInv, by the places a queue tells.
LEMMA QueuePartSays ==
  QueuePart <=>
     /\ listener # "deaf" => retry < MaxRetry
     /\ queue # <<>> => listener = "up"
     /\ \A i \in DOMAIN queue : status[queue[i].task] # "none"
     /\ \A j \in DOMAIN queue : queue[j].kind = "created" =>
           /\ queue[j].status = "pending"
           /\ \A i \in DOMAIN queue : queue[i].task = queue[j].task => j <= i
     /\ \A t \in Started : \A i \in Told(queue, t) :
           (\A j \in Told(queue, t) : j <= i) => queue[i].status = status[t]
BY DEF QueuePart, Repl!QueueInOrder, Repl!BirthsFirst, Repl!LastWordIsTrue, Repl!Tells, Told

LEMMA QueuePartSaysNext ==
  QueuePart' <=>
     /\ listener' # "deaf" => retry' < MaxRetry
     /\ queue' # <<>> => listener' = "up"
     /\ \A i \in DOMAIN queue' : status'[queue'[i].task] # "none"
     /\ \A j \in DOMAIN queue' : queue'[j].kind = "created" =>
           /\ queue'[j].status = "pending"
           /\ \A i \in DOMAIN queue' : queue'[i].task = queue'[j].task => j <= i
     /\ \A t \in Started : \A i \in Told(queue', t) :
           (\A j \in Told(queue', t) : j <= i) => queue'[i].status = status'[t]
BY DEF QueuePart, Repl!QueueInOrder, Repl!BirthsFirst, Repl!LastWordIsTrue, Repl!Tells, Told

LEMMA ScreenPartSays ==
  ScreenPart <=>
     /\ Repl!RequestsInOrder
     /\ Repl!Resumed => /\ status[current] # "none"
                        /\ \A j \in Told(queue, current) : queue[j].kind = "created" =>
                              \E i \in Told(queue, current) : j < i
     /\ odd = {} /\ Repl!Meant # Nothing =>
           /\ \/ bar.task = Repl!Meant
              \/ \E i \in Told(queue, Repl!Meant) : queue[i].kind = "created"
           /\ Told(queue, Repl!Meant) = {} /\ ~Repl!Resuming => bar.status = status[Repl!Meant]
           /\ Told(queue, Repl!Meant) = {} /\ Repl!Resumed => status[Repl!Meant] = "in_progress"
BY DEF ScreenPart, Repl!BirthIsNotLast, Repl!BarFollows, Repl!Tells, Told

LEMMA ScreenPartSaysNext ==
  ScreenPart' <=>
     /\ Repl!RequestsInOrder'
     /\ Repl!Resumed' =>
           /\ status'[current'] # "none"
           /\ \A j \in Told(queue', current') : queue'[j].kind = "created" =>
                 \E i \in Told(queue', current') : j < i
     /\ odd' = {} /\ Repl!Meant' # Nothing =>
           /\ \/ bar'.task = Repl!Meant'
              \/ \E i \in Told(queue', Repl!Meant') : queue'[i].kind = "created"
           /\ Told(queue', Repl!Meant') = {} /\ ~Repl!Resuming'
              => bar'.status = status'[Repl!Meant']
           /\ Told(queue', Repl!Meant') = {} /\ Repl!Resumed'
              => status'[Repl!Meant'] = "in_progress"
BY DEF ScreenPart, Repl!BirthIsNotLast, Repl!BarFollows, Repl!Tells, Told

\* What publishing leaves of the queue, and what it adds.
LEMMA PublishFacts ==
  ASSUME Repl!TypeOK, QueuePart, NEW e \in Repl!Events, Repl!Publish(e)
  PROVE  /\ queue' \in Seq(Repl!Events)
         /\ odd' \subseteq {"missed", "foreign", "overtaken", "no answer"}
         /\ \/ queue' = queue /\ queue = <<>> /\ odd' # {}
            \/ /\ listener = "up" /\ odd' = odd
               /\ \E n \in DOMAIN queue' :
                     /\ queue'[n] = e /\ n \notin DOMAIN queue
                     /\ DOMAIN queue' = DOMAIN queue \cup {n}
                     /\ \A i \in DOMAIN queue : i < n /\ queue'[i] = queue[i]
<1>1. queue \in Seq(Repl!Events) /\ (queue # <<>> => listener = "up")
  BY QueuePartSays DEF Repl!TypeOK
<1>2. CASE listener # "up"
  BY <1>1, <1>2 DEF Repl!Publish, Repl!TypeOK
<1>3. CASE listener = "up"
  <2>1. queue' = Append(queue, e) /\ odd' = odd
    BY <1>3 DEF Repl!Publish
  <2>2. /\ queue' \in Seq(Repl!Events) /\ Len(queue') = Len(queue) + 1
        /\ \A i \in 1 .. Len(queue) : queue'[i] = queue[i]
        /\ queue'[Len(queue) + 1] = e
    BY <1>1, <2>1, AppendProperties
  <2>3. /\ Len(queue) \in Nat /\ DOMAIN queue = 1 .. Len(queue)
        /\ DOMAIN queue' = 1 .. Len(queue')
    BY <1>1, <2>2, LenProperties
  <2> DEFINE n == Len(queue) + 1
  <2>4. /\ n \in DOMAIN queue' /\ n \notin DOMAIN queue
        /\ DOMAIN queue' = DOMAIN queue \cup {n}
        /\ \A i \in DOMAIN queue : i < n
    BY <2>2, <2>3
  <2> QED
    BY <1>3, <2>1, <2>2, <2>3, <2>4 DEF Repl!TypeOK
<1> QED
  BY <1>2, <1>3

\* A step of the server on task t: its status becomes s, and an event tells it.
LEMMA ServerKeepsQueue ==
  ASSUME Repl!TypeOK, QueuePart, NEW e \in Repl!Events, Repl!Publish(e),
         UNCHANGED <<listener, retry>>,
         e.task \in Started, e.status # "none",
         status' = [status EXCEPT ![e.task] = e.status],
         e.kind = "other" => status[e.task] = e.status,
         e.kind = "created" => status[e.task] = "none" /\ e.status = "pending"
  PROVE  QueuePart' /\ status' \in [Started -> Repl!Statuses]
<1>1. /\ status \in [Started -> Repl!Statuses] /\ e.status \in Repl!Statuses
      /\ queue \in Seq(Repl!Events)
  BY DEF Repl!TypeOK, Repl!Events
<1>2. /\ status'[e.task] = e.status
      /\ \A t \in Started : t # e.task => status'[t] = status[t]
      /\ status' \in [Started -> Repl!Statuses]
  BY <1>1
<1>3. \A i \in DOMAIN queue : queue[i] \in Repl!Events /\ queue[i].task \in Started
  <2> TAKE i \in DOMAIN queue
  <2>1. queue[i] \in Repl!Events
    BY <1>1, LenProperties, ElementOfSeq
  <2> QED
    BY <2>1 DEF Repl!Events
<1>4. CASE queue' = queue /\ queue = <<>>
  <2>1. DOMAIN queue' = {}
    BY <1>4
  <2> QED
    BY <1>2, <1>4, <2>1, QueuePartSays, QueuePartSaysNext DEF Told
<1>5. CASE /\ listener = "up"
           /\ \E n \in DOMAIN queue' :
                 /\ queue'[n] = e /\ n \notin DOMAIN queue
                 /\ DOMAIN queue' = DOMAIN queue \cup {n}
                 /\ \A i \in DOMAIN queue : i < n /\ queue'[i] = queue[i]
  <2>1. PICK n \in DOMAIN queue' :
                 /\ queue'[n] = e /\ n \notin DOMAIN queue
                 /\ DOMAIN queue' = DOMAIN queue \cup {n}
                 /\ \A i \in DOMAIN queue : i < n /\ queue'[i] = queue[i]
    BY <1>5
  <2>n. n \in Nat /\ \A i \in DOMAIN queue : i \in Nat
    <3>1. queue' \in Seq(Repl!Events)
      BY PublishFacts
    <3> QED
      BY <1>1, <3>1, LenProperties
  <2>2. \A i \in DOMAIN queue' : status'[queue'[i].task] # "none"
    BY <1>2, <1>3, <2>1, QueuePartSays
  <2>3. e.kind = "created" => \A i \in DOMAIN queue : queue[i].task # e.task
    BY <1>3, QueuePartSays
  <2>4. \A j \in DOMAIN queue' : queue'[j].kind = "created" =>
           /\ queue'[j].status = "pending"
           /\ \A i \in DOMAIN queue' : queue'[i].task = queue'[j].task => j <= i
    <3> TAKE j \in DOMAIN queue'
    <3>1. CASE j = n
      BY <2>1, <2>n, <2>3, <3>1
    <3>2. CASE j \in DOMAIN queue
      BY <2>1, <2>n, <3>2, QueuePartSays
    <3> QED
      BY <2>1, <3>1, <3>2
  <2>5. ASSUME NEW t \in Started, NEW i \in Told(queue', t),
               \A j \in Told(queue', t) : j <= i
        PROVE  queue'[i].status = status'[t]
    <3>1. CASE i = n
      BY <1>2, <2>1, <2>5, <3>1 DEF Told
    <3>2. CASE i # n
      <4>1. i \in DOMAIN queue /\ queue'[i] = queue[i] /\ i \in Told(queue, t)
        BY <2>1, <2>5, <3>2 DEF Told
      <4>2. \A j \in Told(queue, t) : j <= i
        BY <2>1, <2>5 DEF Told
      <4>3. n \notin Told(queue', t)
        BY <2>1, <2>n, <2>5, <4>1
      <4>4. status'[t] = status[t]
        BY <1>2, <2>1, <2>5, <4>3 DEF Told
      <4> QED
        BY <4>1, <4>2, <4>4, QueuePartSays
    <3> QED
      BY <3>1, <3>2
  <2>6. QueuePart'
    BY <1>5, <2>2, <2>4, <2>5, QueuePartSays, QueuePartSaysNext
  <2> QED
    BY <1>2, <2>6
<1> QED
  BY <1>4, <1>5, PublishFacts

\* The queue only grows: nothing in it is touched, a change of a status is told
\* at its end or missed, and a task is born once.
Grown ==
    /\ odd' = {} => odd = {}
    /\ \A t \in Started :
        /\ status[t] # "none" => status'[t] # "none"
        /\ Told(queue, t) \subseteq Told(queue', t)
        /\ \A i \in Told(queue, t) : queue'[i] = queue[i]
        /\ \A j \in Told(queue', t) \ Told(queue, t) :
              queue'[j].kind = "created" => status[t] = "none"
        /\ status'[t] # status[t] /\ (odd' = {} \/ Told(queue, t) # {}) =>
              \E n \in Told(queue', t) :
                 /\ status[t] = "none" => queue'[n].kind = "created"
                 /\ \A i \in Told(queue, t) : i < n

ServerTypes ==
    /\ status \in [Started -> Repl!Statuses]
    /\ queue \in Seq(Repl!Events)
    /\ odd \subseteq {"missed", "foreign", "overtaken", "no answer"}

LEMMA ServerGrows ==
  ASSUME Repl!TypeOK, QueuePart, NEW e \in Repl!Events, Repl!Publish(e),
         UNCHANGED <<listener, retry>>,
         e.task \in Started, e.status # "none",
         status' = [status EXCEPT ![e.task] = e.status],
         e.kind = "other" => status[e.task] = e.status,
         e.kind = "created" => status[e.task] = "none" /\ e.status = "pending",
         e.kind = "status" => status[e.task] # "none"
  PROVE  QueuePart' /\ ServerTypes' /\ Grown
<1>1. QueuePart' /\ ServerTypes'
  BY ServerKeepsQueue, PublishFacts DEF ServerTypes
<1>2. /\ status'[e.task] = e.status
      /\ \A t \in Started : t # e.task => status'[t] = status[t]
  BY DEF Repl!TypeOK
<1>3. \A t \in Started : status[t] # "none" => status'[t] # "none"
  BY <1>2
<1>4. CASE queue' = queue /\ queue = <<>> /\ odd' # {}
  <2>1. \A t : Told(queue, t) = {} /\ Told(queue', t) = {}
    BY <1>4 DEF Told
  <2> QED
    BY <1>1, <1>3, <1>4, <2>1 DEF Grown
<1>5. CASE /\ listener = "up" /\ odd' = odd
           /\ \E n \in DOMAIN queue' :
                 /\ queue'[n] = e /\ n \notin DOMAIN queue
                 /\ DOMAIN queue' = DOMAIN queue \cup {n}
                 /\ \A i \in DOMAIN queue : i < n /\ queue'[i] = queue[i]
  <2>1. PICK n \in DOMAIN queue' :
                 /\ queue'[n] = e /\ n \notin DOMAIN queue
                 /\ DOMAIN queue' = DOMAIN queue \cup {n}
                 /\ \A i \in DOMAIN queue : i < n /\ queue'[i] = queue[i]
    BY <1>5
  <2>2. ASSUME NEW t \in Started
        PROVE  /\ Told(queue, t) \subseteq Told(queue', t)
               /\ \A i \in Told(queue, t) : queue'[i] = queue[i]
               /\ \A j \in Told(queue', t) \ Told(queue, t) :
                     queue'[j].kind = "created" => status[t] = "none"
               /\ status'[t] # status[t] =>
                     \E m \in Told(queue', t) :
                        /\ status[t] = "none" => queue'[m].kind = "created"
                        /\ \A i \in Told(queue, t) : i < m
    <3>1. Told(queue, t) \subseteq Told(queue', t) /\ \A i \in Told(queue, t) : queue'[i] = queue[i]
      BY <2>1 DEF Told
    <3>2. \A j \in Told(queue', t) \ Told(queue, t) : j = n /\ e.task = t
      BY <2>1 DEF Told
    <3>3. ASSUME status'[t] # status[t]
          PROVE  /\ n \in Told(queue', t)
                 /\ status[t] = "none" => queue'[n].kind = "created"
                 /\ \A i \in Told(queue, t) : i < n
      <4>1. t = e.task /\ e.kind \in {"created", "status"}
        BY <1>2, <3>3 DEF Repl!Events
      <4> QED
        BY <2>1, <4>1 DEF Told
    <3> QED
      BY <2>1, <3>1, <3>2, <3>3
  <2> QED
    BY <1>1, <1>3, <1>5, <2>2 DEF Grown
<1> QED
  BY <1>4, <1>5, PublishFacts

LEMMA StillGrows ==
  ASSUME Repl!TypeOK, QueuePart, UNCHANGED <<status, queue, odd, listener, retry>>
  PROVE  QueuePart' /\ ServerTypes' /\ Grown
<1>1. QueuePart'
  BY QueuePartSays, QueuePartSaysNext
<1> QED
  BY <1>1 DEF ServerTypes, Grown, Repl!TypeOK, Told

LEMMA MoveGrows ==
  ASSUME Repl!TypeOK, QueuePart, NEW t \in Started, NEW s \in Repl!Moves, status[t] # "none",
         Repl!Move(t, s), UNCHANGED <<listener, retry>>
  PROVE  QueuePart' /\ ServerTypes' /\ Grown /\ status'[t] = s
<1>1. status'[t] = s /\ status' = [status EXCEPT ![t] = s]
  BY DEF Repl!Move, Repl!TypeOK
<1>2. CASE status[t] = s
  <2>1. status' = status
    BY <1>1, <1>2 DEF Repl!TypeOK
  <2> QED
    BY <1>1, <1>2, <2>1, StillGrows DEF Repl!Move
<1>3. CASE status[t] # s
  <2> DEFINE e == [kind |-> "status", task |-> t, status |-> s]
  <2>1. e \in Repl!Events /\ e.task = t /\ e.status = s /\ e.kind = "status" /\ s # "none"
    BY DEF Repl!Events, Repl!Statuses, Repl!Moves
  <2>2. Repl!Publish(e)
    BY <1>3 DEF Repl!Move, Repl!Event
  <2> HIDE DEF e
  <2> QED
    BY <1>1, <2>1, <2>2, ServerGrows
<1> QED
  BY <1>2, <1>3

LEMMA CreateGrows ==
  ASSUME Repl!TypeOK, QueuePart, NEW t \in Started, Repl!Create(t), UNCHANGED <<listener, retry>>
  PROVE  /\ QueuePart' /\ ServerTypes' /\ Grown
         /\ status[t] = "none" /\ status'[t] # "none"
<1> DEFINE e == [kind |-> "created", task |-> t, status |-> "pending"]
<1>1. e \in Repl!Events /\ e.task = t /\ e.status = "pending" /\ e.kind = "created"
  BY DEF Repl!Events, Repl!Statuses
<1>2. /\ Repl!Publish(e) /\ status[t] = "none"
      /\ status' = [status EXCEPT ![t] = "pending"] /\ status'[t] # "none"
  BY DEF Repl!Create, Repl!Event, Repl!TypeOK
<1> HIDE DEF e
<1> QED
  BY <1>1, <1>2, ServerGrows

LEMMA SpeakGrows ==
  ASSUME Repl!TypeOK, QueuePart, NEW t \in Started, Repl!TaskSpeaks(t)
  PROVE  QueuePart' /\ ServerTypes' /\ Grown
<1> DEFINE e == [kind |-> "other", task |-> t, status |-> status[t]]
<1>1. /\ e \in Repl!Events /\ e.task = t /\ e.status = status[t] /\ e.kind = "other"
      /\ status' = [status EXCEPT ![t] = status[t]]
  BY DEF Repl!Events, Repl!TypeOK, Repl!TaskSpeaks
<1>2. Repl!Publish(e) /\ status[t] # "none" /\ UNCHANGED <<listener, retry>>
  BY DEF Repl!TaskSpeaks, Repl!Event, Repl!linkVars
<1> HIDE DEF e
<1> QED
  BY <1>1, <1>2, ServerGrows

-----------------------------------------------------------------------------
(* The command line: steps of the server.                                  *)

\* While no one prompts or listens, the screen falls behind only as far as the
\* queue tells.
LEMMA GrowthKeepsScreen ==
  ASSUME Repl!TypeOK, ScreenPart, Grown, UNCHANGED <<current, bar, request, reply>>
  PROVE  ScreenPart'
<1>1. /\ Repl!Meant' = Repl!Meant /\ Repl!Resuming' = Repl!Resuming
      /\ Repl!Resumed' = Repl!Resumed
      /\ Repl!RequestsInOrder /\ Repl!RequestsInOrder'
  BY ScreenPartSays DEF Repl!Meant, Repl!Resuming, Repl!Resumed, Repl!RequestsInOrder
<1>2. /\ Repl!Meant # Nothing => Repl!Meant \in Started
      /\ Repl!Resumed => current \in Started
  BY <1>1, ReplConstants DEF Repl!Meant, Repl!TypeOK, Repl!Requests, Repl!RequestsInOrder, Repl!Resumed,
     Repl!Resuming
<1>3. ASSUME Repl!Resumed
      PROVE  /\ status'[current] # "none"
             /\ \A j \in Told(queue', current) : queue'[j].kind = "created" =>
                   \E i \in Told(queue', current) : j < i
  BY <1>2, <1>3, ScreenPartSays DEF Grown
<1>4. ASSUME odd' = {}, Repl!Meant # Nothing
      PROVE  /\ \/ bar.task = Repl!Meant
                \/ \E i \in Told(queue', Repl!Meant) : queue'[i].kind = "created"
             /\ Told(queue', Repl!Meant) = {} /\ ~Repl!Resuming
                => bar.status = status'[Repl!Meant]
             /\ Told(queue', Repl!Meant) = {} /\ Repl!Resumed
                => status'[Repl!Meant] = "in_progress"
  <2> DEFINE m == Repl!Meant
  <2>1. m \in Started /\ odd = {}
    BY <1>2, <1>4 DEF Grown
  <2>2. /\ Told(queue, m) \subseteq Told(queue', m)
        /\ \A i \in Told(queue, m) : queue'[i] = queue[i]
        /\ Told(queue', m) = {} => status'[m] = status[m]
    BY <1>4, <2>1 DEF Grown
  <2>3. /\ bar.task = m \/ \E i \in Told(queue, m) : queue[i].kind = "created"
        /\ Told(queue, m) = {} /\ ~Repl!Resuming => bar.status = status[m]
        /\ Told(queue, m) = {} /\ Repl!Resumed => status[m] = "in_progress"
    BY <1>4, <2>1, ScreenPartSays
  <2> HIDE DEF m
  <2>4. /\ bar.task = m \/ \E i \in Told(queue', m) : queue'[i].kind = "created"
        /\ Told(queue', m) = {} /\ ~Repl!Resuming => bar.status = status'[m]
        /\ Told(queue', m) = {} /\ Repl!Resumed => status'[m] = "in_progress"
    BY <2>2, <2>3
  <2> QED
    BY <2>4 DEF m
<1> QED
  BY <1>1, <1>3, <1>4, ScreenPartSaysNext

\* TaskMoves, CreatedElsewhere, TaskSpeaks.
LEMMA ElsewhereKeeps ==
  ASSUME Repl!IInv, NEW t \in Started, NEW s \in Repl!Moves,
         Repl!TaskMoves(t, s) \/ Repl!CreatedElsewhere(t) \/ Repl!TaskSpeaks(t)
  PROVE  Repl!IInv'
<1>1. Repl!TypeOK /\ QueuePart /\ ScreenPart
  BY ReplParts
<1>2. UNCHANGED <<listener, retry, current, bar, request, reply>>
  BY DEF Repl!TaskMoves, Repl!CreatedElsewhere, Repl!TaskSpeaks, Repl!linkVars,
         Repl!screenVars, Repl!askVars
<1>3. QueuePart' /\ ServerTypes' /\ Grown
  BY <1>1, <1>2, MoveGrows, CreateGrows, SpeakGrows
  DEF Repl!TaskMoves, Repl!CreatedElsewhere
<1>4. ScreenPart'
  BY <1>1, <1>2, <1>3, GrowthKeepsScreen
<1>5. Repl!TypeOK'
  BY <1>1, <1>2, <1>3 DEF Repl!TypeOK, ServerTypes
<1> QED
  BY <1>3, <1>4, <1>5, ReplParts

\* Serve, when no request is carried out.
LEMMA RefuseKeeps ==
  ASSUME Repl!IInv, reply = "waiting", reply' = "bad",
         UNCHANGED <<status, queue, odd, request, listener, retry, current, bar>>
  PROVE  Repl!IInv'
<1>1. Repl!TypeOK /\ QueuePart /\ ScreenPart
  BY ReplParts
<1>2. QueuePart'
  BY <1>1, StillGrows
<1>3. /\ Repl!Meant' = Repl!Meant /\ Repl!Resuming' = Repl!Resuming /\ ~Repl!Resumed'
      /\ Repl!RequestsInOrder'
  BY <1>1, ScreenPartSays
  DEF Repl!Meant, Repl!Resuming, Repl!Resumed, Repl!RequestsInOrder
<1>4. ScreenPart'
  BY <1>1, <1>3, ScreenPartSays, ScreenPartSaysNext
<1>5. Repl!TypeOK'
  BY <1>1 DEF Repl!TypeOK
<1> QED
  BY <1>2, <1>4, <1>5, ReplParts

\* Serve, when one is: what the queue tells of the task grows by what was done.
LEMMA EffectKeeps ==
  ASSUME Repl!IInv, reply = "waiting", reply' = "good",
         NEW t \in Started \cup {Nothing}, Repl!Effect(request, t),
         request' = [request EXCEPT !.task = t],
         UNCHANGED <<listener, retry, current, bar>>
  PROVE  Repl!IInv'
<1>1. Repl!TypeOK /\ QueuePart /\ ScreenPart /\ Repl!RequestsInOrder
  BY ReplParts, ScreenPartSays
<1>2. request \in Repl!Requests /\ request # Nothing
  BY <1>1, ReplConstants DEF Repl!TypeOK, Repl!RequestsInOrder
<1>3. /\ request' \in Repl!Requests /\ request' # Nothing
      /\ request'.what = request.what /\ request'.task = t
  BY <1>2, ReplConstants DEF Repl!Requests
<1>4. ASSUME QueuePart', ServerTypes', ScreenPart'
      PROVE  Repl!IInv'
  BY <1>1, <1>3, <1>4, ReplParts DEF Repl!TypeOK, ServerTypes
<1>5. CASE request.what = "create" /\ Repl!Create(t)
  <2>1. t \in Started
    BY <1>5 DEF Repl!Create
  <2>2. QueuePart' /\ ServerTypes' /\ Grown /\ status[t] = "none" /\ status'[t] # "none"
    BY <1>1, <1>5, <2>1, CreateGrows
  <2>3. Repl!Meant' = t /\ ~Repl!Resumed' /\ ~Repl!Resuming'
    BY <1>3, <1>5 DEF Repl!Meant, Repl!Resumed, Repl!Resuming
  <2>4. odd' = {} => \E i \in Told(queue', t) : queue'[i].kind = "created"
    BY <2>1, <2>2 DEF Grown
  <2>5. Repl!RequestsInOrder'
    BY <1>3, <1>5, ReplConstants DEF Repl!RequestsInOrder
  <2>6. ScreenPart'
    BY <2>3, <2>4, <2>5, ScreenPartSaysNext
  <2> QED
    BY <1>4, <2>2, <2>6
<1>6. CASE /\ request.what \in DOMAIN Repl!Asked /\ t = request.task /\ status[t] # "none"
           /\ IF request.what = "stop" /\ status[t] \in Repl!Final
              THEN Repl!NoEffect ELSE Repl!Move(t, Repl!Asked[request.what])
  <2>1. t = current /\ current \in Started /\ request' = request
    BY <1>1, <1>2, <1>6 DEF Repl!RequestsInOrder, Repl!Requests
  <2>2. /\ QueuePart' /\ ServerTypes' /\ Grown
        /\ request.what = "checkpoint" => status'[current] = "in_progress"
    <3>1. CASE request.what = "stop" /\ status[t] \in Repl!Final
      BY <1>1, <1>6, <3>1, StillGrows DEF Repl!NoEffect
    <3>2. CASE Repl!Move(t, Repl!Asked[request.what])
      BY <1>1, <1>6, <2>1, <3>2, MoveGrows, ReplConstants
    <3> QED
      BY <1>6, <3>1, <3>2
  <2>3. /\ Repl!Meant' = Repl!Meant /\ Repl!Meant = current
        /\ Repl!Resuming' = Repl!Resuming /\ ~Repl!Resumed
        /\ Repl!Resuming <=> request.what = "checkpoint"
        /\ Repl!Resumed' => request.what = "checkpoint"
    BY <1>2, <1>6, <2>1, ReplConstants DEF Repl!Meant, Repl!Resuming, Repl!Resumed
  <2>4. Repl!RequestsInOrder'
    BY <1>1, <1>3, <1>6, <2>1 DEF Repl!RequestsInOrder
  <2>5. ASSUME Repl!Resumed'
        PROVE  /\ status'[current] # "none"
               /\ \A j \in Told(queue', current) : queue'[j].kind = "created" =>
                     \E i \in Told(queue', current) : j < i
    <3>1. status'[current] = "in_progress"
      BY <2>2, <2>3, <2>5
    <3>2. ASSUME NEW j \in Told(queue', current), queue'[j].kind = "created"
          PROVE  \E i \in Told(queue', current) : j < i
      <4>1. /\ j \in Told(queue, current) /\ queue'[j] = queue[j]
            /\ Told(queue, current) \subseteq Told(queue', current)
        BY <1>6, <2>1, <2>2, <3>2 DEF Grown
      <4>2. queue[j].status = "pending"
        BY <1>1, <3>2, <4>1, QueuePartSays DEF Told
      <4>3. CASE status'[current] # status[current]
        BY <2>1, <2>2, <4>1, <4>3 DEF Grown
      <4>4. CASE status'[current] = status[current]
        <5>1. ~(\A i \in Told(queue, current) : i <= j)
          BY <1>1, <2>1, <3>1, <4>1, <4>2, <4>4, QueuePartSays
        <5>2. \A i \in Told(queue, current) : i \in Nat
          <6>1. queue \in Seq(Repl!Events)
            BY <1>1 DEF Repl!TypeOK
          <6>2. DOMAIN queue = 1 .. Len(queue)
            BY <6>1, LenProperties
          <6> QED
            BY <6>2 DEF Told
        <5> QED
          BY <4>1, <5>1, <5>2
      <4> QED
        BY <4>3, <4>4
    <3> QED
      BY <3>1, <3>2
  <2>6. ASSUME odd' = {}
        PROVE  /\ \/ bar.task = current
                  \/ \E i \in Told(queue', current) : queue'[i].kind = "created"
               /\ Told(queue', current) = {} /\ ~Repl!Resuming => bar.status = status'[current]
    <3>1. /\ odd = {} /\ Told(queue, current) \subseteq Told(queue', current)
          /\ \A i \in Told(queue, current) : queue'[i] = queue[i]
          /\ Told(queue', current) = {} => status'[current] = status[current]
      BY <2>1, <2>2, <2>6 DEF Grown
    <3>2. /\ \/ bar.task = current
             \/ \E i \in Told(queue, current) : queue[i].kind = "created"
          /\ Told(queue, current) = {} /\ ~Repl!Resuming => bar.status = status[current]
      BY <1>1, <2>1, <2>3, <3>1, ReplConstants, ScreenPartSays
    <3> QED
      BY <3>1, <3>2
  <2>7. ScreenPart'
    BY <2>2, <2>3, <2>4, <2>5, <2>6, ScreenPartSaysNext
  <2> QED
    BY <1>4, <2>2, <2>7
<1>7. CASE request.what = "chat" /\ t = request.task /\ Repl!NoEffect
  <2>1. QueuePart' /\ ServerTypes' /\ Grown
    BY <1>1, <1>7, StillGrows DEF Repl!NoEffect
  <2>2. /\ Repl!Meant' = current /\ Repl!Meant = current
        /\ ~Repl!Resuming /\ ~Repl!Resuming' /\ ~Repl!Resumed /\ ~Repl!Resumed'
    BY <1>2, <1>3, <1>7 DEF Repl!Meant, Repl!Resuming, Repl!Resumed
  <2>3. Repl!RequestsInOrder'
    BY <1>3, <1>7, ReplConstants DEF Repl!RequestsInOrder
  <2>4. ScreenPart'
    BY <1>1, <1>7, <2>2, <2>3, ScreenPartSays, ScreenPartSaysNext DEF Repl!NoEffect
  <2> QED
    BY <1>4, <2>1, <2>4
<1> QED
  BY <1>5, <1>6, <1>7 DEF Repl!Effect

LEMMA ServeKeeps ==
  ASSUME Repl!IInv, Repl!Serve
  PROVE  Repl!IInv'
<1>1. UNCHANGED <<listener, retry, current, bar>> /\ reply = "waiting"
  BY DEF Repl!Serve, Repl!linkVars, Repl!screenVars
<1>2. CASE reply' = "bad" /\ Repl!NoEffect /\ UNCHANGED request
  BY <1>1, <1>2, RefuseKeeps DEF Repl!NoEffect
<1>3. CASE /\ reply' = "good"
           /\ \E t \in Started \cup {Nothing} :
                 Repl!Effect(request, t) /\ request' = [request EXCEPT !.task = t]
  BY <1>1, <1>3, EffectKeeps
<1> QED
  BY <1>2, <1>3 DEF Repl!Serve

-----------------------------------------------------------------------------
(* The command line: the thread that listens.                              *)

\* An event leaves the queue.
LEMMA TailFacts ==
  ASSUME Repl!TypeOK, queue # <<>>, queue' = Tail(queue)
  PROVE  /\ queue' \in Seq(Repl!Events)
         /\ 1 \in DOMAIN queue /\ Head(queue) = queue[1] /\ queue[1] \in Repl!Events
         /\ \A i \in DOMAIN queue : i \in Nat /\ 1 <= i
         /\ \A i \in DOMAIN queue' : i \in Nat /\ i + 1 \in DOMAIN queue
                                     /\ queue'[i] = queue[i + 1]
         /\ \A i \in DOMAIN queue : i # 1 => i - 1 \in DOMAIN queue' /\ queue'[i - 1] = queue[i]
<1>1. queue \in Seq(Repl!Events)
  BY DEF Repl!TypeOK
<1>2. /\ Head(queue) = queue[1] /\ Head(queue) \in Repl!Events
      /\ Len(queue) \in Nat \ {0}
      /\ Tail(queue) \in Seq(Repl!Events) /\ Len(Tail(queue)) = Len(queue) - 1
      /\ \A i \in 1 .. Len(Tail(queue)) : Tail(queue)[i] = queue[i + 1]
  BY <1>1, HeadTailProperties, EmptySeq
<1>3. DOMAIN queue = 1 .. Len(queue) /\ DOMAIN queue' = 1 .. (Len(queue) - 1)
  BY <1>1, <1>2, LenProperties
<1> QED
  BY <1>2, <1>3

LEMMA TailTold ==
  ASSUME Repl!TypeOK, queue # <<>>, queue' = Tail(queue)
  PROVE  \A t : /\ \A i \in Told(queue', t) : i \in Nat /\ i + 1 \in Told(queue, t)
                                              /\ queue'[i] = queue[i + 1]
                /\ \A i \in Told(queue, t) : i # 1 => i - 1 \in Told(queue', t)
                                                     /\ queue'[i - 1] = queue[i]
                /\ \A i \in Told(queue, t) : i \in Nat /\ 1 <= i
BY TailFacts DEF Told

LEMMA TailKeepsQueue ==
  ASSUME Repl!TypeOK, QueuePart, queue # <<>>, queue' = Tail(queue),
         UNCHANGED <<status, listener, retry>>
  PROVE  QueuePart'
<1>1. \A i \in DOMAIN queue' : status[queue'[i].task] # "none"
  BY TailFacts, QueuePartSays
<1>2. \A j \in DOMAIN queue' : queue'[j].kind = "created" =>
           /\ queue'[j].status = "pending"
           /\ \A i \in DOMAIN queue' : queue'[i].task = queue'[j].task => j <= i
  <2> SUFFICES ASSUME NEW j \in DOMAIN queue', queue'[j].kind = "created"
               PROVE  /\ queue'[j].status = "pending"
                      /\ \A i \in DOMAIN queue' : queue'[i].task = queue'[j].task => j <= i
    OBVIOUS
  <2>1. j \in Nat /\ j + 1 \in DOMAIN queue /\ queue'[j] = queue[j + 1]
    BY TailFacts
  <2>2. ASSUME NEW i \in DOMAIN queue', queue'[i].task = queue'[j].task
        PROVE  j <= i
    <3>1. i \in Nat /\ i + 1 \in DOMAIN queue /\ queue'[i] = queue[i + 1]
      BY TailFacts
    <3>2. j + 1 <= i + 1
      BY <2>1, <2>2, <3>1, QueuePartSays
    <3> QED
      BY <2>1, <3>1, <3>2
  <2> QED
    BY <2>1, <2>2, QueuePartSays
<1>3. ASSUME NEW t \in Started, NEW i \in Told(queue', t), \A j \in Told(queue', t) : j <= i
      PROVE  queue'[i].status = status[t]
  <2>1. i \in Nat /\ i + 1 \in Told(queue, t) /\ queue'[i] = queue[i + 1]
    BY TailTold
  <2>2. \A j \in Told(queue, t) : j <= i + 1
    <3> TAKE j \in Told(queue, t)
    <3>1. j \in Nat /\ (j # 1 => j - 1 \in Told(queue', t))
      BY TailTold
    <3> QED
      BY <1>3, <2>1, <3>1
  <2> QED
    BY <2>1, <2>2, QueuePartSays
<1> QED
  BY <1>1, <1>2, <1>3, QueuePartSays, QueuePartSaysNext

\* What the listener does of an event whatever its kind.
LEMMA HandledFacts ==
  ASSUME Repl!IInv, queue # <<>>, queue' = Tail(queue),
         UNCHANGED <<status, listener, retry, current, request, reply>>
  PROVE  /\ QueuePart' /\ queue' \in Seq(Repl!Events)
         /\ Repl!Meant' = Repl!Meant /\ Repl!Resuming' = Repl!Resuming
         /\ Repl!Resumed' = Repl!Resumed
         /\ Repl!RequestsInOrder'
         /\ Repl!Meant # Nothing => Repl!Meant \in Started
         /\ Repl!Resumed => Repl!Meant = current
         /\ Repl!Resumed' =>
              /\ status'[current'] # "none"
              /\ \A j \in Told(queue', current') : queue'[j].kind = "created" =>
                    \E i \in Told(queue', current') : j < i
<1>1. Repl!TypeOK /\ QueuePart /\ ScreenPart /\ Repl!RequestsInOrder
  BY ReplParts, ScreenPartSays
<1>2. QueuePart' /\ queue' \in Seq(Repl!Events)
  BY <1>1, TailKeepsQueue, TailFacts
<1>3. /\ Repl!Meant' = Repl!Meant /\ Repl!Resuming' = Repl!Resuming
      /\ Repl!Resumed' = Repl!Resumed /\ Repl!RequestsInOrder'
      /\ Repl!Resumed => Repl!Meant = current
  BY <1>1 DEF Repl!Meant, Repl!Resuming, Repl!Resumed, Repl!RequestsInOrder
<1>4. Repl!Meant # Nothing => Repl!Meant \in Started
  BY <1>1 DEF Repl!Meant, Repl!TypeOK, Repl!Requests
<1>5. ASSUME Repl!Resumed
      PROVE  /\ status[current] # "none"
             /\ \A j \in Told(queue', current) : queue'[j].kind = "created" =>
                   \E i \in Told(queue', current) : j < i
  <2>1. ASSUME NEW j \in Told(queue', current), queue'[j].kind = "created"
        PROVE  \E i \in Told(queue', current) : j < i
    <3>1. j \in Nat /\ j + 1 \in Told(queue, current) /\ queue'[j] = queue[j + 1]
      BY <1>1, TailTold
    <3>2. PICK i \in Told(queue, current) : j + 1 < i
      BY <1>1, <1>5, <2>1, <3>1, ScreenPartSays
    <3>3. i \in Nat /\ i # 1 /\ i - 1 \in Told(queue', current) /\ j < i - 1
      BY <1>1, <3>1, <3>2, TailTold
    <3> QED
      BY <3>3
  <2> QED
    BY <1>1, <1>5, <2>1, ScreenPartSays
<1> QED
  BY <1>2, <1>3, <1>4, <1>5

LEMMA HandleOtherKeeps ==
  ASSUME Repl!IInv, Repl!HandleOther
  PROVE  Repl!IInv'
<1> DEFINE m == Repl!Meant
<1>1. /\ Repl!TypeOK /\ QueuePart /\ ScreenPart
      /\ queue # <<>> /\ queue' = Tail(queue) /\ Head(queue).kind = "other"
      /\ UNCHANGED <<status, listener, retry, current, request, reply>>
      /\ \/ /\ bar.task = Nothing
            /\ bar' = [bar EXCEPT !.task = Head(queue).task]
            /\ odd' = odd \cup Repl!Foreign(Head(queue).task)
         \/ bar.task # Nothing /\ bar' = bar /\ odd' = odd
  BY ReplParts DEF Repl!HandleOther, Repl!linkVars, Repl!askVars
<1>2. /\ 1 \in DOMAIN queue /\ Head(queue) = queue[1] /\ queue[1] \in Repl!Events
      /\ \A t : 1 \notin Told(queue, t)
  BY <1>1, TailFacts DEF Told
<1>3. Repl!TypeOK'
  BY <1>1, <1>2, HandledFacts DEF Repl!TypeOK, Repl!Events, Repl!Foreign
<1>4. ASSUME odd' = {}, m # Nothing
      PROVE  /\ bar'.task = m \/ \E i \in Told(queue', m) : queue'[i].kind = "created"
             /\ Told(queue', m) = {} /\ ~Repl!Resuming => bar'.status = status[m]
             /\ Told(queue', m) = {} /\ Repl!Resumed => status[m] = "in_progress"
  <2>1. /\ bar.task = m \/ \E i \in Told(queue, m) : queue[i].kind = "created"
        /\ Told(queue, m) = {} /\ ~Repl!Resuming => bar.status = status[m]
        /\ Told(queue, m) = {} /\ Repl!Resumed => status[m] = "in_progress"
    BY <1>1, <1>4, ScreenPartSays DEF Repl!Foreign
  <2> HIDE DEF m
  <2>2. \A i \in Told(queue, m) : i - 1 \in Told(queue', m) /\ queue'[i - 1] = queue[i]
    BY <1>1, <1>2, TailTold
  <2>3. bar'.status = bar.status /\ (bar.task = m => bar'.task = m)
    BY <1>1, <1>4 DEF Repl!TypeOK
  <2> QED
    BY <2>1, <2>2, <2>3
<1>5. ScreenPart'
  BY <1>1, <1>4, HandledFacts, ScreenPartSaysNext
<1> QED
  BY <1>1, <1>3, <1>5, HandledFacts, ReplParts

\* The new task is the one that is meant, or the step is noted as foreign.
LEMMA HandleCreatedKeeps ==
  ASSUME Repl!IInv, Repl!HandleCreated
  PROVE  Repl!IInv'
<1> DEFINE m == Repl!Meant
           e == Head(queue)
<1>1. /\ Repl!TypeOK /\ QueuePart /\ ScreenPart
      /\ queue # <<>> /\ queue' = Tail(queue) /\ e.kind = "created"
      /\ UNCHANGED <<status, listener, retry, current, request, reply>>
      /\ bar' = [task |-> e.task, status |-> "pending"]
      /\ odd' = IF e.task = m THEN {} ELSE odd \cup {"foreign"}
  BY ReplParts DEF Repl!HandleCreated, Repl!linkVars, Repl!askVars, Repl!Foreign
<1>2. /\ 1 \in DOMAIN queue /\ e = queue[1] /\ e \in Repl!Events
      /\ e.status = "pending"
  BY <1>1, TailFacts, QueuePartSays
<1> HIDE DEF e
<1>3. Repl!TypeOK'
  BY <1>1, <1>2, HandledFacts DEF Repl!TypeOK, Repl!Events, Repl!Statuses
<1>4. ASSUME odd' = {}, m # Nothing
      PROVE  /\ bar'.task = m
             /\ Told(queue', m) = {} /\ ~Repl!Resuming => bar'.status = status[m]
             /\ Told(queue', m) = {} /\ Repl!Resumed => status[m] = "in_progress"
  <2>1. e.task = m /\ m \in Started /\ 1 \in Told(queue, m)
    BY <1>1, <1>2, <1>4, HandledFacts DEF Told
  <2>2. Told(queue', m) = {} => \A j \in Told(queue, m) : j <= 1
    BY <1>1, TailTold
  <2>3. Told(queue', m) = {} => status[m] = "pending"
    BY <1>1, <1>2, <2>1, <2>2, QueuePartSays
  <2>4. Repl!Resumed => Told(queue', m) # {}
    <3>1. SUFFICES ASSUME Repl!Resumed, Told(queue', m) = {} PROVE FALSE
      OBVIOUS
    <3>2. m = current
      BY <1>1, <3>1, HandledFacts
    <3>3. \E i \in Told(queue, current) : 1 < i
      BY <1>1, <1>2, <2>1, <3>1, <3>2, ScreenPartSays
    <3> QED
      BY <1>1, <2>2, <3>1, <3>2, <3>3, TailTold
  <2> QED
    BY <1>1, <2>1, <2>3, <2>4
<1>5. ScreenPart'
  BY <1>1, <1>4, HandledFacts, ScreenPartSaysNext
<1> QED
  BY <1>1, <1>3, <1>5, HandledFacts, ReplParts

\* What is told of the task that is meant comes after its birth: the bar has
\* taken the task.
LEMMA HandleStatusKeeps ==
  ASSUME Repl!IInv, Repl!HandleStatus
  PROVE  Repl!IInv'
<1> DEFINE m == Repl!Meant
           e == Head(queue)
<1>1. /\ Repl!TypeOK /\ QueuePart /\ ScreenPart
      /\ queue # <<>> /\ queue' = Tail(queue) /\ e.kind = "status"
      /\ UNCHANGED <<status, listener, retry, current, request, reply>>
      /\ bar' = [task |-> IF bar.task = Nothing THEN e.task ELSE bar.task,
                 status |-> e.status]
      /\ odd' = odd \cup Repl!Foreign(e.task)
                    \cup (IF Repl!Resumed THEN {"overtaken"} ELSE {})
  BY ReplParts
  DEF Repl!HandleStatus, Repl!linkVars, Repl!askVars, Repl!Resumed, Repl!Resuming
<1>2. /\ 1 \in DOMAIN queue /\ e = queue[1] /\ e \in Repl!Events
  BY <1>1, TailFacts
<1> HIDE DEF e
<1>3. odd' \subseteq {"missed", "foreign", "overtaken", "no answer"}
  BY <1>1 DEF Repl!TypeOK, Repl!Foreign
<1>4. bar' \in [task : Started \cup {Nothing}, status : Repl!Statuses \cup {"resuming"}]
  BY <1>1, <1>2 DEF Repl!TypeOK, Repl!Events
<1>5. Repl!TypeOK'
  BY <1>1, <1>3, <1>4, HandledFacts DEF Repl!TypeOK
<1>6. ASSUME odd' = {}, m # Nothing
      PROVE  /\ bar'.task = m /\ ~Repl!Resumed
             /\ Told(queue', m) = {} => bar'.status = status[m]
  <2>1. odd = {} /\ e.task = m /\ ~Repl!Resumed
    BY <1>1, <1>6 DEF Repl!Foreign
  <2>2. m \in Started /\ 1 \in Told(queue, m)
    BY <1>1, <1>2, <1>6, <2>1, HandledFacts DEF Told
  <2>3. ~\E i \in Told(queue, m) : queue[i].kind = "created"
    <3> SUFFICES ASSUME NEW i \in Told(queue, m), queue[i].kind = "created" PROVE FALSE
      OBVIOUS
    <3>1. i \in Nat /\ 1 <= i /\ i <= 1
      BY <1>1, <1>2, <2>1, TailTold, QueuePartSays DEF Told
    <3> QED
      BY <1>1, <1>2, <3>1
  <2>4. bar.task = m
    BY <1>1, <1>6, <2>1, <2>3, ScreenPartSays
  <2>5. Told(queue', m) = {} => \A j \in Told(queue, m) : j <= 1
    BY <1>1, TailTold
  <2>6. Told(queue', m) = {} => status[m] = e.status
    BY <1>1, <1>2, <2>2, <2>5, QueuePartSays
  <2> QED
    BY <1>1, <1>6, <2>1, <2>4, <2>6
<1>7. ScreenPart'
  BY <1>1, <1>6, HandledFacts, ScreenPartSaysNext
<1> QED
  BY <1>1, <1>5, <1>7, HandledFacts, ReplParts

\* Connect, ConnectFails, Disconnect: what is lost on the way is noted.
LEMMA LinkKeeps ==
  ASSUME Repl!IInv, Repl!Connect \/ Repl!ConnectFails \/ Repl!Disconnect
  PROVE  Repl!IInv'
<1>1. /\ Repl!TypeOK /\ QueuePart /\ ScreenPart
      /\ UNCHANGED <<status, current, bar, request, reply>>
  BY ReplParts DEF Repl!Connect, Repl!ConnectFails, Repl!Disconnect, Repl!screenVars,
                   Repl!askVars
<1>2. listener # "deaf" /\ retry \in Nat /\ retry < MaxRetry
  <2>1. listener # "deaf"
    BY DEF Repl!Connect, Repl!ConnectFails, Repl!Disconnect
  <2> QED
    <3>1. retry < MaxRetry
      BY <1>1, <2>1, QueuePartSays
    <3>2. retry \in 0 .. MaxRetry
      BY <1>1 DEF Repl!TypeOK
    <3> QED
      BY <2>1, <3>1, <3>2, ReplConstants
<1>3. /\ queue' = <<>> /\ odd' \subseteq {"missed", "foreign", "overtaken", "no answer"}
      /\ odd' = {} => queue = <<>> /\ odd = {}
  <2>1. CASE Repl!Connect \/ Repl!ConnectFails
    <3>1. queue = <<>>
      BY <1>1, <2>1, QueuePartSays DEF Repl!Connect, Repl!ConnectFails
    <3> QED
      BY <1>1, <2>1, <3>1 DEF Repl!Connect, Repl!ConnectFails, Repl!TypeOK
  <2>2. CASE Repl!Disconnect
    BY <1>1, <2>2 DEF Repl!Disconnect, Repl!TypeOK
  <2> QED
    BY <2>1, <2>2
<1>4. /\ listener' \in {"up", "down", "deaf"} /\ retry' \in 0 .. MaxRetry
      /\ listener' # "deaf" => retry' < MaxRetry
  <2>1. CASE Repl!Failed
    <3>1. retry' = retry + 1 /\ retry' \in 0 .. MaxRetry
      BY <1>2, <2>1, ReplConstants DEF Repl!Failed
    <3>2. CASE retry' = MaxRetry
      BY <2>1, <3>1, <3>2 DEF Repl!Failed
    <3>3. CASE retry' # MaxRetry
      BY <1>2, <2>1, <3>1, <3>3, ReplConstants DEF Repl!Failed
    <3> QED
      BY <3>2, <3>3
  <2>2. CASE listener' \in {"up", "down"} /\ retry' \in {retry, 0}
    BY <1>2, <2>2, ReplConstants
  <2> QED
    BY <2>1, <2>2 DEF Repl!Connect, Repl!ConnectFails, Repl!Disconnect
<1>5. Repl!TypeOK'
  BY <1>1, <1>3, <1>4, EmptySeq DEF Repl!TypeOK
<1>6. DOMAIN queue' = {} /\ \A t : Told(queue', t) = {}
  <2>1. queue' = <<>>
    BY <1>3
  <2> QED
    BY <2>1 DEF Told
<1>7. QueuePart'
  <2>1. queue' # <<>> => listener' = "up"
    BY <1>3
  <2> QED
    BY <1>4, <1>6, <2>1, QueuePartSaysNext
<1>8. /\ Repl!Meant' = Repl!Meant /\ Repl!Resuming' = Repl!Resuming
      /\ Repl!Resumed' = Repl!Resumed
      /\ Repl!RequestsInOrder'
  BY <1>1, ScreenPartSays DEF Repl!Meant, Repl!Resuming, Repl!Resumed, Repl!RequestsInOrder
<1>9. ASSUME odd' = {}, Repl!Meant # Nothing
      PROVE  /\ bar.task = Repl!Meant
             /\ ~Repl!Resuming => bar.status = status[Repl!Meant]
             /\ Repl!Resumed => status[Repl!Meant] = "in_progress"
  <2>1. odd = {} /\ \A t : Told(queue, t) = {}
    BY <1>3, <1>9 DEF Told
  <2> QED
    BY <1>1, <1>9, <2>1, ScreenPartSays
<1>10. Repl!Resumed => status[current] # "none"
  BY <1>1, ScreenPartSays
<1>11. ScreenPart'
  BY <1>1, <1>6, <1>8, <1>9, <1>10, ScreenPartSaysNext
<1> QED
  BY <1>5, <1>7, <1>11, ReplParts

-----------------------------------------------------------------------------
(* The command line: the thread of the prompt.                             *)

\* A step of the prompt leaves the queue alone.
LEMMA PromptKeeps ==
  ASSUME Repl!IInv, UNCHANGED <<status, queue, listener, retry>>,
         current' \in Started \cup {Nothing},
         bar' \in [task : Started \cup {Nothing}, status : Repl!Statuses \cup {"resuming"}],
         request' \in Repl!Requests \cup {Nothing},
         reply' \in {"none", "waiting"},
         odd' \subseteq {"missed", "foreign", "overtaken", "no answer"},
         Repl!RequestsInOrder',
         odd' = {} /\ Repl!Meant' # Nothing =>
           /\ \/ bar'.task = Repl!Meant'
              \/ \E i \in Told(queue, Repl!Meant') : queue[i].kind = "created"
           /\ Told(queue, Repl!Meant') = {} /\ ~Repl!Resuming'
              => bar'.status = status[Repl!Meant']
  PROVE  Repl!IInv'
<1>1. Repl!TypeOK /\ QueuePart
  BY ReplParts
<1>2. Repl!TypeOK' /\ QueuePart'
  BY <1>1, QueuePartSays, QueuePartSaysNext DEF Repl!TypeOK
<1>3. ~Repl!Resumed'
  BY DEF Repl!Resumed
<1>4. ScreenPart'
  BY <1>3, ScreenPartSaysNext
<1> QED
  BY <1>2, <1>4, ReplParts

\* TypeTask, TypeContinue, TypeControl, TypeChat.
LEMMA TypedKeeps ==
  ASSUME Repl!IInv,
         \/ Repl!TypeTask \/ Repl!TypeChat
         \/ \E t \in Started : Repl!TypeContinue(t)
         \/ \E what \in {"stop", "pause", "resume"} : Repl!TypeControl(what)
  PROVE  Repl!IInv'
<1>1. Repl!TypeOK /\ ScreenPart /\ Repl!RequestsInOrder
  BY ReplParts, ScreenPartSays
<1> USE DEF Repl!Post, Repl!linkVars, Repl!screenVars, Repl!AtPrompt
<1>2. CASE Repl!TypeTask
  <2>1. /\ request' \in Repl!Requests /\ request' # Nothing
        /\ request'.what = "create" /\ request'.task = Nothing
    BY <1>2, ReplConstants DEF Repl!TypeTask, Repl!Requests, Repl!Commands
  <2>2. Repl!Meant' = Nothing
    BY <2>1 DEF Repl!Meant
  <2>3. Repl!RequestsInOrder'
    BY <1>2, <2>1, ReplConstants DEF Repl!TypeTask, Repl!RequestsInOrder
  <2> QED
    BY <1>1, <1>2, <2>1, <2>2, <2>3, PromptKeeps
    DEF Repl!TypeTask, Repl!TypeOK, Repl!Statuses
<1>3. CASE \E t \in Started : Repl!TypeContinue(t)
  <2>1. PICK t \in Started : Repl!TypeContinue(t)
    BY <1>3
  <2>2. /\ request' \in Repl!Requests /\ request' # Nothing
        /\ request'.what = "checkpoint" /\ request'.task = t
    BY <2>1, ReplConstants DEF Repl!TypeContinue, Repl!Requests, Repl!Commands
  <2>3. Repl!Meant' = t /\ Repl!Resuming' /\ bar'.task = t
    BY <2>1, <2>2 DEF Repl!Meant, Repl!TypeContinue, Repl!Resuming
  <2>4. Repl!RequestsInOrder'
    BY <2>1, <2>2, ReplConstants DEF Repl!TypeContinue, Repl!RequestsInOrder
  <2>5. bar' \in [task : Started \cup {Nothing}, status : Repl!Statuses \cup {"resuming"}]
    BY <2>1 DEF Repl!TypeContinue
  <2> QED
    BY <1>1, <2>1, <2>2, <2>3, <2>4, <2>5, PromptKeeps
    DEF Repl!TypeContinue, Repl!TypeOK
<1>4. CASE Repl!TypeChat \/ \E what \in {"stop", "pause", "resume"} : Repl!TypeControl(what)
  <2>1. /\ request = Nothing /\ reply' = "waiting"
        /\ request' \in Repl!Requests /\ request' # Nothing
        /\ request'.what \notin {"create", "checkpoint"}
        /\ request'.what \in DOMAIN Repl!Asked => request'.task = current /\ current # Nothing
        /\ UNCHANGED <<status, queue, listener, retry, current, bar, odd>>
    <3>1. CASE Repl!TypeChat
      BY <3>1, ReplConstants DEF Repl!TypeChat, Repl!Requests, Repl!Commands
    <3>2. ASSUME NEW what \in {"stop", "pause", "resume"}, Repl!TypeControl(what)
          PROVE  <2>1
      BY <1>1, <3>2, ReplConstants
      DEF Repl!TypeControl, Repl!Requests, Repl!Commands, Repl!TypeOK
    <3> QED
      BY <1>4, <3>1, <3>2
  <2>2. /\ Repl!Meant' = current /\ Repl!Meant = current
        /\ ~Repl!Resuming /\ ~Repl!Resuming'
    BY <2>1 DEF Repl!Meant, Repl!Resuming
  <2>3. Repl!RequestsInOrder'
    BY <2>1 DEF Repl!RequestsInOrder
  <2> QED
    BY <1>1, <2>1, <2>2, <2>3, PromptKeeps, ScreenPartSays DEF Repl!TypeOK
<1> QED
  BY <1>2, <1>3, <1>4

\* TakeReply and GiveUp: a good answer to what the user started makes its task
\* the current one, or its status known; without one this is noted.
LEMMA TakeKeeps ==
  ASSUME Repl!IInv, Repl!TakeReply \/ Repl!GiveUp
  PROVE  Repl!IInv'
<1>1. Repl!TypeOK /\ ScreenPart /\ Repl!RequestsInOrder
  BY ReplParts, ScreenPartSays
<1>2. PICK answered \in {"good", "bad"} :
        Repl!Take(answered) /\ (answered = "good" => reply = "good")
  BY DEF Repl!TakeReply, Repl!GiveUp
<1>3. /\ request # Nothing /\ request \in Repl!Requests
      /\ request' = Nothing /\ reply' = "none"
      /\ UNCHANGED <<status, queue, listener, retry>>
  BY <1>1, <1>2
  DEF Repl!TakeReply, Repl!GiveUp, Repl!Take, Repl!linkVars, Repl!RequestsInOrder, Repl!TypeOK
<1>4. Repl!RequestsInOrder' /\ Repl!Meant' = current' /\ ~Repl!Resuming'
  BY <1>3 DEF Repl!RequestsInOrder, Repl!Meant, Repl!Resuming
<1>5. CASE request.what = "create"
  <2>1. /\ current' = IF answered = "good" THEN request.task ELSE current
        /\ odd' = IF answered = "good" THEN odd ELSE odd \cup {"no answer"}
        /\ bar' = bar
    BY <1>2, <1>5 DEF Repl!Take
  <2>2. Repl!Meant = request.task /\ ~Repl!Resuming /\ request.task \in Started \cup {Nothing}
    BY <1>3, <1>5 DEF Repl!Meant, Repl!Resuming, Repl!Requests
  <2> QED
    BY <1>1, <1>3, <1>4, <2>1, <2>2, PromptKeeps, ScreenPartSays DEF Repl!TypeOK
<1>6. CASE request.what = "checkpoint"
  <2>1. /\ bar' = [bar EXCEPT !.status = IF answered = "good" THEN "in_progress" ELSE "failed"]
        /\ odd' = IF answered = "good" THEN odd ELSE odd \cup {"no answer"}
        /\ current' = current
    BY <1>2, <1>6 DEF Repl!Take
  <2>2. Repl!Meant = current /\ (answered = "good" => Repl!Resumed)
    BY <1>2, <1>3, <1>6 DEF Repl!Meant, Repl!Resumed, Repl!Resuming
  <2>3. /\ bar' \in [task : Started \cup {Nothing}, status : Repl!Statuses \cup {"resuming"}]
        /\ bar'.task = bar.task /\ (answered = "good" => bar'.status = "in_progress")
    BY <1>1, <2>1 DEF Repl!TypeOK, Repl!Statuses, Repl!Moves
  <2> QED
    BY <1>1, <1>3, <1>4, <2>1, <2>2, <2>3, PromptKeeps, ScreenPartSays DEF Repl!TypeOK
<1>7. CASE request.what \notin {"create", "checkpoint"}
  <2>1. UNCHANGED <<current, bar, odd>>
    BY <1>2, <1>7 DEF Repl!Take, Repl!screenVars
  <2>2. Repl!Meant = current /\ ~Repl!Resuming
    BY <1>7 DEF Repl!Meant, Repl!Resuming
  <2> QED
    BY <1>1, <1>3, <1>4, <2>1, <2>2, PromptKeeps, ScreenPartSays DEF Repl!TypeOK
<1> QED
  BY <1>5, <1>6, <1>7

LEMMA QuitKeeps ==
  ASSUME Repl!IInv, Repl!Quit
  PROVE  Repl!IInv'
<1>1. Repl!TypeOK
  BY ReplParts
<1>2. Repl!TypeOK'
  <2>1. bar' \in [task : Started \cup {Nothing}, status : Repl!Statuses \cup {"resuming"}]
    BY DEF Repl!Quit, Repl!Statuses
  <2>2. queue' \in Seq(Repl!Events) /\ retry' \in 0 .. MaxRetry
    BY EmptySeq, ReplConstants DEF Repl!Quit
  <2> QED
    BY <1>1, <2>1, <2>2 DEF Repl!TypeOK, Repl!Quit
<1>3. DOMAIN queue' = {} /\ \A t : Told(queue', t) = {}
  BY DEF Repl!Quit, Told
<1>4. QueuePart'
  BY <1>3, ReplConstants, QueuePartSaysNext DEF Repl!Quit
<1>5. Repl!Meant' = Nothing /\ ~Repl!Resumed' /\ Repl!RequestsInOrder'
  BY DEF Repl!Quit, Repl!Meant, Repl!Resumed, Repl!Resuming, Repl!RequestsInOrder
<1>6. ScreenPart'
  BY <1>5, ScreenPartSaysNext
<1> QED
  BY <1>2, <1>4, <1>6, ReplParts

LEMMA ReplNextKeeps ==
  ASSUME Repl!IInv, [Repl!Next]_(Repl!vars)
  PROVE  Repl!IInv'
<1>1. CASE UNCHANGED Repl!vars
  <2>1. UNCHANGED <<status, queue, listener, retry, current, bar, request, reply, odd>>
    BY <1>1 DEF Repl!vars
  <2> QED
    <3>1. Repl!TypeOK' /\ QueuePart'
      BY <2>1, ReplParts, QueuePartSays, QueuePartSaysNext DEF Repl!TypeOK
    <3>2. ScreenPart'
      <4>1. /\ Repl!Meant' = Repl!Meant /\ Repl!Resuming' = Repl!Resuming
            /\ Repl!Resumed' = Repl!Resumed
            /\ Repl!RequestsInOrder' = Repl!RequestsInOrder
        BY <2>1 DEF Repl!Meant, Repl!Resuming, Repl!Resumed, Repl!RequestsInOrder
      <4> QED
        BY <2>1, <4>1, ReplParts, ScreenPartSays, ScreenPartSaysNext
    <3> QED
      BY <3>1, <3>2, ReplParts
<1>2. CASE Repl!Next
  <2>1. "paused" \in Repl!Moves
    BY DEF Repl!Moves
  <2> QED
    BY <1>2, <2>1, ServeKeeps, ElsewhereKeeps, LinkKeeps, HandleOtherKeeps, HandleCreatedKeeps,
       HandleStatusKeeps, TypedKeeps, TakeKeeps, QuitKeeps DEF Repl!Next
<1> QED
  BY <1>1, <1>2

LEMMA ReplInit == Repl!Init => Repl!IInv
<1> SUFFICES ASSUME Repl!Init PROVE Repl!IInv
  OBVIOUS
<1>1. Repl!TypeOK
  BY EmptySeq, ReplConstants DEF Repl!Init, Repl!TypeOK, Repl!Statuses, Repl!Moves
<1>2. DOMAIN queue = {} /\ \A t : Told(queue, t) = {}
  BY DEF Repl!Init, Told
<1>3. QueuePart
  BY <1>2, ReplConstants, QueuePartSays DEF Repl!Init
<1>4. Repl!Meant = Nothing /\ ~Repl!Resumed /\ Repl!RequestsInOrder
  BY DEF Repl!Init, Repl!Meant, Repl!Resumed, Repl!Resuming, Repl!RequestsInOrder
<1>5. ScreenPart
  BY <1>4, ScreenPartSays
<1> QED
  BY <1>1, <1>3, <1>5, ReplParts

\* Whatever the server does meanwhile, a status bar that heard all of its task
\* shows the task that /stop would stop, and its status.
THEOREM BarIsTrue == UserSpec => []BarShowsCurrentTask
<1>1. Repl!IInv => BarShowsCurrentTask
  <2> SUFFICES ASSUME Repl!IInv, request = Nothing, queue = <<>>, odd = {}, current # Nothing
               PROVE  bar = [task |-> current, status |-> status[current]]
    BY DEF BarShowsCurrentTask, Repl!BarShowsCurrentTask, Repl!AtPrompt
  <2>1. Repl!TypeOK /\ ScreenPart
    BY ReplParts
  <2>2. Repl!Meant = current /\ ~Repl!Resuming
    BY DEF Repl!Meant, Repl!Resuming
  <2>3. \A t : Told(queue, t) = {}
    BY DEF Told
  <2>4. bar.task = current /\ bar.status = status[current]
    BY <2>1, <2>2, <2>3, ScreenPartSays
  <2> QED
    BY <2>1, <2>4 DEF Repl!TypeOK
<1> QED
  BY <1>1, ReplInit, ReplNextKeeps, PartsAreImplemented, PTL DEF Repl!Spec
-----------------------------------------------------------------------------
\* A set of numbers has a least one.
LEMMA LeastOne ==
    ASSUME NEW S \in SUBSET Nat, S # {}
    PROVE  \E i \in S : \A j \in S : i <= j
<1>1. \E i \in S : \A j \in S : ~(<<j, i>> \in OpToRel(<, Nat))
  BY WFMin, NatLessThanWellFounded
<1>2. PICK i \in S : \A j \in S : ~(<<j, i>> \in OpToRel(<, Nat))
  BY <1>1
<1>3. \A j \in S : ~(j < i)
  BY <1>2 DEF OpToRel
<1> QED BY <1>3

-----------------------------------------------------------------------------
(* The bridge to the browsers.                                             *)

LEMMA MinIsLeast ==
    ASSUME NEW S \in SUBSET Nat, S # {}
    PROVE  Bridge!Min(S) \in S /\ \A j \in S : Bridge!Min(S) <= j
<1>1. \E i \in S : \A j \in S : i <= j
  BY LeastOne
<1> QED BY <1>1 DEF Bridge!Min

\* Without its first e a sequence is one shorter, and what followed moves up.
LEMMA RemovalOfFirst ==
    ASSUME NEW T, NEW s \in Seq(T), NEW e, Bridge!Contains(s, e)
    PROVE  \E k \in 1 .. Len(s) :
             /\ s[k] = e
             /\ Bridge!RemoveFirst(s, e) \in Seq(T)
             /\ Len(Bridge!RemoveFirst(s, e)) = Len(s) - 1
             /\ \A i \in 1 .. Len(s) - 1 :
                  Bridge!RemoveFirst(s, e)[i] = IF i < k THEN s[i] ELSE s[i + 1]
<1> DEFINE I == {i \in 1 .. Len(s) : s[i] = e}
           k == Bridge!Min(I)
<1>1. I # {} /\ I \in SUBSET Nat
  BY DEF Bridge!Contains
<1>2. k \in I
  BY <1>1, MinIsLeast
<1>3. Bridge!RemoveFirst(s, e) = SubSeq(s, 1, k - 1) \o SubSeq(s, k + 1, Len(s))
  BY <1>1 DEF Bridge!RemoveFirst, Bridge!SelectInSeq, Bridge!RemoveAt, Bridge!Contains
<1> HIDE DEF k
<1>4. k \in 1 .. Len(s) /\ s[k] = e
  BY <1>2
<1>5. SubSeq(s, 1, k - 1) \in Seq(T) /\ SubSeq(s, k + 1, Len(s)) \in Seq(T)
  BY <1>4
<1>6. Len(SubSeq(s, 1, k - 1)) = k - 1 /\ Len(SubSeq(s, k + 1, Len(s))) = Len(s) - k
  BY <1>4
<1>7. /\ \A i \in 1 .. k - 1 : SubSeq(s, 1, k - 1)[i] = s[i]
      /\ \A i \in 1 .. Len(s) - k : SubSeq(s, k + 1, Len(s))[i] = s[i + k]
  BY <1>4
<1> DEFINE A == SubSeq(s, 1, k - 1)
           B == SubSeq(s, k + 1, Len(s))
<1> HIDE DEF A, B
<1>8. /\ A \o B \in Seq(T) /\ Len(A \o B) = Len(s) - 1
      /\ \A i \in 1 .. Len(s) - 1 : (A \o B)[i] = IF i < k THEN s[i] ELSE s[i + 1]
  <2>1. A \in Seq(T) /\ B \in Seq(T) /\ Len(A) = k - 1 /\ Len(B) = Len(s) - k
    BY <1>5, <1>6 DEF A, B
  <2>2. /\ \A i \in 1 .. k - 1 : A[i] = s[i]
        /\ \A i \in 1 .. Len(s) - k : B[i] = s[i + k]
    BY <1>7 DEF A, B
  <2>3. A \o B \in Seq(T) /\ Len(A \o B) = Len(s) - 1
    BY <2>1, <1>4
  <2>4. ASSUME NEW i \in 1 .. Len(s) - 1
        PROVE  (A \o B)[i] = IF i < k THEN s[i] ELSE s[i + 1]
    <3>1. CASE i < k
      BY <2>1, <2>2, <1>4, <3>1
    <3>2. CASE ~(i < k)
      <4>1. i - (k - 1) \in 1 .. Len(s) - k
        BY <1>4, <3>2
      <4>2. (A \o B)[i] = B[i - (k - 1)]
        BY <2>1, <1>4, <3>2
      <4>3. B[i - (k - 1)] = s[i + 1]
        BY <4>1, <2>2, <1>4
      <4> QED BY <4>2, <4>3, <3>2
    <3> QED BY <3>1, <3>2
  <2> QED BY <2>3, <2>4
<1> QED BY <1>3, <1>4, <1>8 DEF A, B

LEMMA NothingToRemove ==
    ASSUME NEW s, NEW e, ~Bridge!Contains(s, e)
    PROVE  Bridge!RemoveFirst(s, e) = s
BY DEF Bridge!RemoveFirst, Bridge!Contains

\* Who works with the isolated browser goes on with what it has reached, or
\* starts with nothing.
LEMMA LossNoted ==
    ASSUME Bridge!IInv, Bridge!NoteLoss,
           \A r \in Runs : Bridge!Isolated(r)' =>
               (Bridge!Isolated(r) /\ reached'[r] = reached[r]) \/ reached'[r] = {}
    PROVE  Bridge!IsolatedUntilLost' /\ lost' \in [Runs -> BOOLEAN]
<1>1. lost' = [r \in Runs |-> Bridge!Isolated(r)' /\ (lost[r] \/ ~Bridge!HasAgentSession')]
  BY DEF Bridge!NoteLoss
<1>2. ASSUME NEW r \in Runs, Bridge!Isolated(r)', ~lost'[r]
      PROVE  "user" \notin reached'[r]
  <2>1. ~lost[r]
    BY <1>1, <1>2
  <2> QED BY <1>2, <2>1 DEF Bridge!IInv, Bridge!IsolatedUntilLost
<1>3. lost' \in [Runs -> BOOLEAN]
  BY <1>1 DEF Bridge!Isolated
<1> QED BY <1>2, <1>3 DEF Bridge!IsolatedUntilLost

\* Nothing that only sessions, plugins and Chrome do touches a run.
LEMMA SessionsKeep ==
    ASSUME Bridge!IInv, Bridge!NoteLoss,
           conn' \in [Bridge!Conns -> {"closed", "greeting", "open", "broken"}],
           sessions' \in Seq(Bridge!Conns), inFlight' \subseteq inFlight,
           chrome' \in BOOLEAN, idle' \in BOOLEAN,
           UNCHANGED <<futures, Bridge!runVars, Bridge!history>>
    PROVE  Bridge!IInv'
<1> USE DEF Bridge!runVars, Bridge!history
<1>1. Bridge!IsolatedUntilLost' /\ lost' \in [Runs -> BOOLEAN]
  BY LossNoted DEF Bridge!Isolated
<1>2. Bridge!TypeOK'
  BY <1>1 DEF Bridge!IInv, Bridge!TypeOK
<1>3. Bridge!CommandsNumbered'
  BY DEF Bridge!IInv, Bridge!CommandsNumbered
<1>4. Bridge!LockInOrder' /\ Bridge!FreshUntilReady'
  BY DEF Bridge!IInv, Bridge!LockInOrder, Bridge!FreshUntilReady, Bridge!IsInjective,
    Bridge!Contains
<1>5. Bridge!PendingIsAwaited'
  BY DEF Bridge!IInv, Bridge!PendingIsAwaited
<1> QED BY <1>1, <1>2, <1>3, <1>4, <1>5 DEF Bridge!IInv

LEMMA SessionActionsKeep ==
    ASSUME Bridge!IInv, Bridge!NoteLoss,
           \/ \E c \in Bridge!Conns :
                 \/ Bridge!Connect(c) \/ Bridge!Greeted(c) \/ Bridge!GreetingFails(c)
                 \/ Bridge!Break(c) \/ Bridge!Leave(c)
           \/ Bridge!ChromeExits \/ Bridge!TimePasses \/ Bridge!WatcherStops
    PROVE  Bridge!IInv'
<1> DEFINE ConnOK == conn' \in [Bridge!Conns -> {"closed", "greeting", "open", "broken"}]
<1>0. /\ conn \in [Bridge!Conns -> {"closed", "greeting", "open", "broken"}]
      /\ sessions \in Seq(Bridge!Conns) /\ chrome \in BOOLEAN /\ idle \in BOOLEAN
  BY DEF Bridge!IInv, Bridge!TypeOK
<1>1. ASSUME NEW some, Bridge!Broken(some)
      PROVE  ConnOK /\ inFlight' \subseteq inFlight
  BY <1>0, <1>1 DEF Bridge!Broken
<1>2. ASSUME NEW c \in Bridge!Conns, Bridge!Connect(c) \/ Bridge!Greeted(c)
      PROVE  Bridge!IInv'
  <2>1. ConnOK /\ sessions' \in Seq(Bridge!Conns)
    BY <1>0, <1>2 DEF Bridge!Connect, Bridge!Greeted
  <2> QED BY <1>0, <1>2, <2>1, SessionsKeep DEF Bridge!Connect, Bridge!Greeted, Bridge!chromeVars
<1>3. ASSUME NEW c \in Bridge!Conns, Bridge!GreetingFails(c)
      PROVE  Bridge!IInv'
  <2>1. ConnOK /\ inFlight' \subseteq inFlight
    BY <1>0, <1>3 DEF Bridge!GreetingFails
  <2> QED BY <1>0, <1>3, <2>1, SessionsKeep DEF Bridge!GreetingFails, Bridge!chromeVars
<1>4. ASSUME NEW c \in Bridge!Conns, Bridge!Break(c)
      PROVE  Bridge!IInv'
  BY <1>0, <1>1, <1>4, SessionsKeep DEF Bridge!Break, Bridge!chromeVars
<1>5. ASSUME NEW c \in Bridge!Conns, Bridge!Leave(c)
      PROVE  Bridge!IInv'
  <2>1. ConnOK
    BY <1>0, <1>5 DEF Bridge!Leave
  <2>2. sessions' \in Seq(Bridge!Conns)
    <3>1. CASE Bridge!Contains(sessions, c)
      BY <1>0, <1>5, <3>1, RemovalOfFirst DEF Bridge!Leave
    <3>2. CASE ~Bridge!Contains(sessions, c)
      BY <1>0, <1>5, <3>2, NothingToRemove DEF Bridge!Leave
    <3> QED BY <3>1, <3>2
  <2> QED BY <1>0, <1>5, <2>1, <2>2, SessionsKeep DEF Bridge!Leave, Bridge!chromeVars
<1>6. ASSUME Bridge!ChromeExits \/ Bridge!WatcherStops
      PROVE  Bridge!IInv'
  BY <1>0, <1>1, <1>6, SessionsKeep DEF Bridge!ChromeExits, Bridge!WatcherStops
<1>7. ASSUME Bridge!TimePasses
      PROVE  Bridge!IInv'
  BY <1>0, <1>7, SessionsKeep DEF Bridge!TimePasses, Bridge!bridgeVars
<1> QED BY <1>2, <1>3, <1>4, <1>5, <1>6, <1>7

-----------------------------------------------------------------------------
(* Obtaining the isolated browser.                                         *)

LEMMA RunBeginKeeps ==
    ASSUME Bridge!IInv, Bridge!NoteLoss, NEW r \in Runs, Bridge!Begin(r)
    PROVE  Bridge!IInv'
<1> USE DEF Bridge!bridgeVars, Bridge!chromeVars, Bridge!history
<1>0. /\ at \in [Runs -> {"off", "locking", "starting", "ready", "reply"}]
      /\ starters \in Seq(Runs) /\ at[r] = "off"
      /\ at' = [at EXCEPT ![r] = "locking"] /\ starters' = Append(starters, r)
  BY DEF Bridge!IInv, Bridge!TypeOK, Bridge!Begin
<1>1. Bridge!IsolatedUntilLost' /\ lost' \in [Runs -> BOOLEAN]
  <2>1. \A x \in Runs : Bridge!Isolated(x)' => Bridge!Isolated(x) /\ reached'[x] = reached[x]
    BY <1>0 DEF Bridge!Isolated, Bridge!Begin
  <2> QED BY <2>1, LossNoted
<1>2. Bridge!TypeOK'
  <2>1. starters' \in Seq(Runs)
    BY <1>0
  <2>2. at' \in [Runs -> {"off", "locking", "starting", "ready", "reply"}]
    BY <1>0
  <2> QED BY <1>1, <2>1, <2>2 DEF Bridge!IInv, Bridge!TypeOK, Bridge!Begin
<1>3. Bridge!LockInOrder'
  <2>1. ~Bridge!Contains(starters, r)
    BY <1>0 DEF Bridge!IInv, Bridge!LockInOrder
  <2>2. /\ Len(starters') = Len(starters) + 1 /\ DOMAIN starters = 1 .. Len(starters)
        /\ \A i \in 1 .. Len(starters) : starters'[i] = starters[i]
        /\ starters'[Len(starters) + 1] = r /\ Len(starters) \in Nat
        /\ DOMAIN starters' = 1 .. Len(starters) + 1
    BY <1>0
  <2>3. Bridge!IsInjective(starters')
    BY <2>1, <2>2 DEF Bridge!IInv, Bridge!LockInOrder, Bridge!IsInjective, Bridge!Contains
  <2>4. \A x \in Runs : Bridge!Contains(starters', x) <=> Bridge!Contains(starters, x) \/ x = r
    BY <2>2 DEF Bridge!Contains
  <2>5. ASSUME NEW x \in Runs, at'[x] = "starting"
        PROVE  starters'[1] = x
    <3>1. at[x] = "starting"
      BY <1>0, <2>5
    <3>2. starters[1] = x /\ Bridge!Contains(starters, x)
      BY <3>1 DEF Bridge!IInv, Bridge!LockInOrder
    <3> QED BY <2>2, <3>2 DEF Bridge!Contains
  <2>6. \A x \in Runs : Bridge!Contains(starters', x) <=> at'[x] \in {"locking", "starting"}
    BY <1>0, <2>4 DEF Bridge!IInv, Bridge!LockInOrder
  <2> QED BY <2>3, <2>5, <2>6 DEF Bridge!LockInOrder
<1>4. Bridge!CommandsNumbered' /\ Bridge!FreshUntilReady' /\ Bridge!PendingIsAwaited'
  BY <1>0 DEF Bridge!Begin, Bridge!IInv, Bridge!TypeOK, Bridge!CommandsNumbered,
    Bridge!FreshUntilReady, Bridge!PendingIsAwaited, Bridge!Requests
<1> QED BY <1>1, <1>2, <1>3, <1>4 DEF Bridge!IInv

\* Whoever is first in the queue leaves it with a browser, new or the user's.
LEMMA ProceedKeeps ==
    ASSUME Bridge!IInv, Bridge!NoteLoss, NEW r \in Runs, NEW role \in {"user", "agent"},
           at[r] \in {"locking", "starting"}, starters[1] = r, Bridge!Proceed(r, role),
           chrome' \in BOOLEAN, idle' \in BOOLEAN,
           UNCHANGED <<Bridge!bridgeVars, Bridge!history>>
    PROVE  Bridge!IInv'
<1> USE DEF Bridge!bridgeVars, Bridge!history
<1>0. /\ at \in [Runs -> {"off", "locking", "starting", "ready", "reply"}]
      /\ prefer \in [Runs -> {"user", "agent"}]
      /\ starters \in Seq(Runs)
      /\ at' = [at EXCEPT ![r] = "ready"] /\ starters' = Tail(starters)
      /\ prefer' = [prefer EXCEPT ![r] = role] /\ sent' = sent
  BY DEF Bridge!IInv, Bridge!TypeOK, Bridge!Proceed
<1>a. Bridge!Contains(starters, r)
  BY DEF Bridge!IInv, Bridge!LockInOrder
<1>1. Bridge!IsolatedUntilLost' /\ lost' \in [Runs -> BOOLEAN]
  <2>1. reached'[r] = {}
    BY DEF Bridge!IInv, Bridge!FreshUntilReady
  <2>2. \A x \in Runs \ {r} : Bridge!Isolated(x)' => Bridge!Isolated(x) /\ reached'[x] = reached[x]
    BY <1>0 DEF Bridge!Isolated
  <2> QED BY <2>1, <2>2, LossNoted
<1>b. /\ starters # <<>> /\ Len(starters) \in Nat \ {0} /\ DOMAIN starters = 1 .. Len(starters)
      /\ starters' \in Seq(Runs) /\ Len(starters') = Len(starters) - 1
      /\ \A i \in 1 .. Len(starters) - 1 : starters'[i] = starters[i + 1]
      /\ DOMAIN starters' = 1 .. Len(starters) - 1
  BY <1>0, <1>a DEF Bridge!Contains
<1>2. Bridge!TypeOK'
  BY <1>0, <1>1, <1>b DEF Bridge!IInv, Bridge!TypeOK
<1>3. Bridge!LockInOrder'
  <2>1. \A i \in 1 .. Len(starters) : starters[i] = r => i = 1
    BY <1>b DEF Bridge!IInv, Bridge!LockInOrder, Bridge!IsInjective
  <2>2. ASSUME NEW x \in Runs
        PROVE  Bridge!Contains(starters', x) <=> Bridge!Contains(starters, x) /\ x # r
    <3>1. ASSUME NEW i \in 1 .. Len(starters'), starters'[i] = x
          PROVE  Bridge!Contains(starters, x) /\ x # r
      <4>1. i + 1 \in 1 .. Len(starters) /\ starters[i + 1] = x /\ i + 1 # 1
        BY <1>b, <3>1
      <4> QED BY <2>1, <4>1 DEF Bridge!Contains
    <3>2. ASSUME NEW i \in 1 .. Len(starters), starters[i] = x, x # r
          PROVE  Bridge!Contains(starters', x)
      <4>1. i - 1 \in 1 .. Len(starters') /\ starters'[i - 1] = x
        BY <1>b, <3>2
      <4> QED BY <4>1 DEF Bridge!Contains
    <3> QED BY <3>1, <3>2 DEF Bridge!Contains
  <2>3. Bridge!IsInjective(starters')
    BY <1>b DEF Bridge!IInv, Bridge!LockInOrder, Bridge!IsInjective
  <2>4. \A x \in Runs : at[x] = "starting" => x = r
    BY DEF Bridge!IInv, Bridge!LockInOrder
  <2>5. \A x \in Runs : at'[x] # "starting"
    BY <1>0, <2>4
  <2>6. \A x \in Runs : Bridge!Contains(starters', x) <=> at'[x] \in {"locking", "starting"}
    BY <1>0, <2>2 DEF Bridge!IInv, Bridge!LockInOrder
  <2> QED BY <2>3, <2>5, <2>6 DEF Bridge!LockInOrder
<1>4. Bridge!CommandsNumbered' /\ Bridge!FreshUntilReady'
  BY <1>0 DEF Bridge!IInv, Bridge!TypeOK, Bridge!CommandsNumbered, Bridge!FreshUntilReady
<1>5. Bridge!PendingIsAwaited'
  BY <1>0 DEF Bridge!IInv, Bridge!TypeOK, Bridge!PendingIsAwaited
<1> QED BY <1>1, <1>2, <1>3, <1>4, <1>5 DEF Bridge!IInv

LEMMA EnsureKeeps ==
    ASSUME Bridge!IInv, Bridge!NoteLoss, NEW r \in Runs,
           Bridge!Ensure(r) \/ Bridge!AgentConnected(r) \/ Bridge!AgentUnavailable(r)
    PROVE  Bridge!IInv'
<1>0. /\ chrome \in BOOLEAN /\ idle \in BOOLEAN
      /\ at \in [Runs -> {"off", "locking", "starting", "ready", "reply"}]
      /\ starters \in Seq(Runs)
  BY DEF Bridge!IInv, Bridge!TypeOK
<1>1. CASE Bridge!Ensure(r)
  <2>1. ASSUME Bridge!Proceed(r, "agent") \/ Bridge!Proceed(r, "user"),
               chrome' = chrome, idle' \in BOOLEAN
        PROVE  Bridge!IInv'
    BY <1>0, <1>1, <2>1, ProceedKeeps DEF Bridge!Ensure
  <2>2. ASSUME at' = [at EXCEPT ![r] = "starting"], chrome' = TRUE,
               UNCHANGED <<idle, starters, prefer, sent>>
        PROVE  Bridge!IInv'
    <3> USE DEF Bridge!bridgeVars, Bridge!history
    <3>0. at[r] = "locking" /\ starters[1] = r
      BY <1>1 DEF Bridge!Ensure
    <3>1. Bridge!IsolatedUntilLost' /\ lost' \in [Runs -> BOOLEAN]
      <4>1. \A x \in Runs : Bridge!Isolated(x)' => Bridge!Isolated(x) /\ reached'[x] = reached[x]
        BY <1>0, <1>1, <2>2 DEF Bridge!Isolated, Bridge!Ensure
      <4> QED BY <4>1, LossNoted
    <3>2. Bridge!TypeOK'
      BY <1>0, <1>1, <2>2, <3>1 DEF Bridge!IInv, Bridge!TypeOK, Bridge!Ensure
    <3>3. Bridge!LockInOrder'
      BY <1>0, <2>2, <3>0 DEF Bridge!IInv, Bridge!LockInOrder, Bridge!Contains, Bridge!IsInjective
    <3>4. Bridge!CommandsNumbered' /\ Bridge!FreshUntilReady'
      BY <1>0, <1>1, <2>2, <3>0
        DEF Bridge!IInv, Bridge!CommandsNumbered, Bridge!FreshUntilReady, Bridge!Ensure
    <3>5. Bridge!PendingIsAwaited'
      BY <1>0, <1>1, <2>2, <3>0 DEF Bridge!IInv, Bridge!TypeOK, Bridge!PendingIsAwaited, Bridge!Ensure
    <3> QED BY <3>1, <3>2, <3>3, <3>4, <3>5 DEF Bridge!IInv
  <2> QED BY <1>0, <1>1, <2>1, <2>2 DEF Bridge!Ensure
<1>2. CASE Bridge!AgentConnected(r) \/ Bridge!AgentUnavailable(r)
  <2>1. at[r] = "starting" /\ starters[1] = r
    BY <1>2 DEF Bridge!IInv, Bridge!LockInOrder, Bridge!AgentConnected, Bridge!AgentUnavailable
  <2> QED
    BY <1>0, <1>2, <2>1, ProceedKeeps
      DEF Bridge!AgentConnected, Bridge!AgentUnavailable, Bridge!chromeVars
<1> QED BY <1>1, <1>2

-----------------------------------------------------------------------------
(* Commands.                                                               *)

\* The agent's sessions come first for who prefers them.
LEMMA AgentIsPicked ==
    ASSUME Bridge!IInv, Bridge!HasAgentSession
    PROVE  Bridge!RoleOf(Bridge!PickSession("agent")) = "agent"
<1> DEFINE S == {i \in DOMAIN sessions : Bridge!RoleOf(sessions[i]) = "agent"}
<1>1. S # {} /\ S \in SUBSET Nat
  BY DEF Bridge!HasAgentSession, Bridge!Registered, Bridge!IInv, Bridge!TypeOK
<1>2. Bridge!Min(S) \in S
  BY <1>1, MinIsLeast
<1>3. Bridge!PickSession("agent") = sessions[Bridge!Min(S)]
  BY <1>1 DEF Bridge!PickSession
<1> QED BY <1>2, <1>3

\* The lock is none of a command's business.
LEMMA LockStays ==
    ASSUME Bridge!IInv, starters' = starters,
           \A r \in Runs :
               /\ at'[r] \in {"locking", "starting"} <=> at[r] \in {"locking", "starting"}
               /\ at'[r] = "starting" => at[r] = "starting"
    PROVE  Bridge!LockInOrder'
<1>1. Bridge!IsInjective(starters')
  BY DEF Bridge!IInv, Bridge!LockInOrder, Bridge!IsInjective
<1>2. \A r \in Runs : Bridge!Contains(starters', r) <=> at'[r] \in {"locking", "starting"}
  BY DEF Bridge!IInv, Bridge!LockInOrder, Bridge!Contains
<1>3. \A r \in Runs : at'[r] = "starting" => starters'[1] = r
  BY DEF Bridge!IInv, Bridge!LockInOrder
<1> QED
  <2>1. \A r \in Runs : Bridge!Contains(starters, r)' <=> at'[r] \in {"locking", "starting"}
    BY <1>2 DEF Bridge!Contains
  <2> QED BY <1>1, <1>3, <2>1 DEF Bridge!LockInOrder, Bridge!IsInjective

LEMMA SendKeeps ==
    ASSUME Bridge!ConstantsOK, Bridge!IInv, Bridge!NoteLoss, NEW r \in Runs,
           Bridge!SendCommand(r)
    PROVE  Bridge!IInv'
<1> DEFINE c == Bridge!PickSession(prefer[r])
           q == <<r, sent[r] + 1>>
<1>0. /\ at[r] = "ready" /\ sent[r] < MaxCommands[r] /\ conn[c] \in {"greeting", "open"}
      /\ futures' = futures \cup {q} /\ inFlight' = inFlight \cup {<<c, q>>}
      /\ sent' = [sent EXCEPT ![r] = @ + 1] /\ at' = [at EXCEPT ![r] = "reply"]
      /\ reached' = [reached EXCEPT ![r] = @ \cup {Bridge!RoleOf(c)}]
      /\ UNCHANGED <<conn, sessions, chrome, idle, starters, prefer, unsent>>
  BY DEF Bridge!SendCommand, Bridge!chromeVars
<1>a. /\ at \in [Runs -> {"off", "locking", "starting", "ready", "reply"}]
      /\ sent \in [Runs -> Nat] /\ reached \in [Runs -> SUBSET {"user", "agent"}]
      /\ prefer \in [Runs -> {"user", "agent"}] /\ MaxCommands \in [Runs -> Nat]
  BY DEF Bridge!IInv, Bridge!TypeOK, Bridge!ConstantsOK
<1>b. c \in Bridge!Conns
  <2>1. sessions # <<>> /\ sessions \in Seq(Bridge!Conns)
    BY DEF Bridge!SendCommand, Bridge!IInv, Bridge!TypeOK
  <2> DEFINE S == {i \in DOMAIN sessions : Bridge!RoleOf(sessions[i]) = prefer[r]}
  <2>2. S # {} => Bridge!Min(S) \in DOMAIN sessions
    BY <2>1, MinIsLeast
  <2>3. 1 \in DOMAIN sessions
    BY <2>1
  <2> HIDE DEF S
  <2>4. sessions[IF S # {} THEN Bridge!Min(S) ELSE 1] \in Bridge!Conns
    BY <2>1, <2>2, <2>3
  <2> QED BY <2>4 DEF Bridge!PickSession, S
<1>c. q \in Bridge!Requests
  <2>1. sent[r] + 1 \in 1 .. MaxCommands[r]
    BY <1>0, <1>a
  <2> QED BY <2>1 DEF Bridge!Requests
<1>d. Bridge!RoleOf(c) \in {"user", "agent"}
  BY DEF Bridge!RoleOf
<1>1. Bridge!IsolatedUntilLost' /\ lost' \in [Runs -> BOOLEAN]
  <2>1. lost' = [x \in Runs |-> Bridge!Isolated(x)' /\ (lost[x] \/ ~Bridge!HasAgentSession')]
    BY DEF Bridge!NoteLoss
  <2>2. Bridge!HasAgentSession' = Bridge!HasAgentSession
    BY <1>0 DEF Bridge!HasAgentSession, Bridge!Registered
  <2>3. ASSUME NEW x \in Runs, Bridge!Isolated(x)', ~lost'[x]
        PROVE  "user" \notin reached'[x]
    <3>1. Bridge!Isolated(x) /\ ~lost[x] /\ Bridge!HasAgentSession
      BY <1>0, <1>a, <2>1, <2>2, <2>3 DEF Bridge!Isolated
    <3>2. "user" \notin reached[x]
      BY <3>1 DEF Bridge!IInv, Bridge!IsolatedUntilLost
    <3>3. CASE x = r
      <4>1. prefer[r] = "agent"
        BY <3>1, <3>3 DEF Bridge!Isolated
      <4>2. Bridge!RoleOf(c) = "agent"
        BY <3>1, <4>1, AgentIsPicked
      <4> HIDE DEF c
      <4> QED BY <1>0, <1>a, <3>2, <3>3, <4>2
    <3>4. CASE x # r
      BY <1>0, <1>a, <3>2, <3>4
    <3> QED BY <3>3, <3>4
  <2>4. lost' \in [Runs -> BOOLEAN]
    BY <2>1 DEF Bridge!Isolated
  <2> QED BY <2>3, <2>4 DEF Bridge!IsolatedUntilLost
<1> HIDE DEF c
<1>2. Bridge!TypeOK'
  <2>1. at' \in [Runs -> {"off", "locking", "starting", "ready", "reply"}]
    BY <1>0, <1>a
  <2>2. sent' \in [Runs -> Nat] /\ \A x \in Runs : sent'[x] <= MaxCommands[x]
    BY <1>0, <1>a DEF Bridge!IInv, Bridge!TypeOK
  <2>3. reached' \in [Runs -> SUBSET {"user", "agent"}]
    BY <1>0, <1>a, <1>d
  <2>4. inFlight' \subseteq Bridge!Conns \X Bridge!Requests /\ futures' \subseteq Bridge!Requests
    <3> HIDE DEF q
    <3> QED BY <1>0, <1>b, <1>c DEF Bridge!IInv, Bridge!TypeOK
  <2> QED BY <1>0, <1>1, <2>1, <2>2, <2>3, <2>4 DEF Bridge!IInv, Bridge!TypeOK
<1>3. Bridge!LockInOrder'
  <2>1. \A x \in Runs : x # r => at'[x] = at[x]
    BY <1>0, <1>a
  <2>2. at'[r] = "reply" /\ at[r] = "ready"
    BY <1>0, <1>a
  <2> QED BY <1>0, <2>1, <2>2, LockStays
<1>4. Bridge!CommandsNumbered'
  <2>1. sent'[r] = sent[r] + 1 /\ \A x \in Runs : x # r => sent'[x] = sent[x]
    BY <1>0, <1>a
  <2>2. ASSUME NEW x \in unsent'
        PROVE  x[2] <= sent'[x[1]] /\ x # q
    <3>1. x \in Bridge!Requests /\ x[2] <= sent[x[1]]
      BY <1>0, <2>2 DEF Bridge!IInv, Bridge!TypeOK, Bridge!CommandsNumbered
    <3>2. x[1] \in Runs /\ x[2] \in Nat
      BY <3>1, <1>a DEF Bridge!Requests
    <3> QED BY <2>1, <3>1, <3>2, <1>a
  <2>3. ASSUME NEW f \in inFlight'
        PROVE  f[2][2] <= sent'[f[2][1]] /\ f[2] \notin unsent'
    <3>1. CASE f \in inFlight
      <4>1. /\ f[2] \in Bridge!Requests /\ f[2][2] <= sent[f[2][1]] /\ f[2] \notin unsent
        BY <3>1 DEF Bridge!IInv, Bridge!TypeOK, Bridge!CommandsNumbered
      <4>2. f[2][1] \in Runs /\ f[2][2] \in Nat
        BY <4>1, <1>a DEF Bridge!Requests
      <4> QED BY <1>0, <2>1, <4>1, <4>2, <1>a
    <3>2. CASE f = <<c, q>>
      BY <2>1, <2>2, <3>2, <1>a
    <3> QED BY <1>0, <2>3, <3>1, <3>2
  <2> QED BY <2>2, <2>3 DEF Bridge!CommandsNumbered
<1>5. Bridge!FreshUntilReady'
  BY <1>0, <1>a DEF Bridge!IInv, Bridge!FreshUntilReady
<1>6. Bridge!PendingIsAwaited'
  <2>1. ASSUME NEW x \in futures, x \notin unsent
        PROVE  at'[x[1]] = "reply" /\ sent'[x[1]] = x[2]
    <3>1. x \in Bridge!Requests /\ at[x[1]] = "reply" /\ sent[x[1]] = x[2]
      BY <2>1 DEF Bridge!IInv, Bridge!TypeOK, Bridge!PendingIsAwaited
    <3>2. x[1] # r /\ x[1] \in Runs
      BY <1>0, <3>1 DEF Bridge!Requests
    <3> QED BY <1>0, <1>a, <3>1, <3>2
  <2>2. at'[q[1]] = "reply" /\ sent'[q[1]] = q[2]
    BY <1>0, <1>a
  <2> QED BY <1>0, <2>1, <2>2 DEF Bridge!PendingIsAwaited
<1> QED BY <1>1, <1>2, <1>3, <1>4, <1>5, <1>6 DEF Bridge!IInv

\* A command that is not sent is counted like one that is.
LEMMA NotSentKeeps ==
    ASSUME Bridge!ConstantsOK, Bridge!IInv, Bridge!NoteLoss, NEW r \in Runs,
           Bridge!SendFails(r) \/ Bridge!NoSession(r)
    PROVE  Bridge!IInv'
<1> DEFINE q == <<r, sent[r] + 1>>
<1>0. /\ at[r] = "ready" /\ sent[r] < MaxCommands[r] /\ sent' = [sent EXCEPT ![r] = @ + 1]
      /\ \/ futures' = futures \cup {q} /\ unsent' = unsent \cup {q}
         \/ futures' = futures /\ unsent' = unsent
      /\ UNCHANGED <<conn, sessions, inFlight, chrome, idle, starters, at, prefer, reached>>
  BY DEF Bridge!SendFails, Bridge!NoSession, Bridge!chromeVars, Bridge!bridgeVars, Bridge!history
<1>a. /\ at \in [Runs -> {"off", "locking", "starting", "ready", "reply"}]
      /\ sent \in [Runs -> Nat] /\ MaxCommands \in [Runs -> Nat]
  BY DEF Bridge!IInv, Bridge!TypeOK, Bridge!ConstantsOK
<1>b. /\ sent'[r] = sent[r] + 1 /\ \A x \in Runs : x # r => sent'[x] = sent[x]
      /\ q \in Bridge!Requests
  <2>1. sent[r] + 1 \in 1 .. MaxCommands[r]
    BY <1>0, <1>a
  <2> QED BY <1>0, <1>a, <2>1 DEF Bridge!Requests
<1>1. Bridge!IsolatedUntilLost' /\ lost' \in [Runs -> BOOLEAN]
  <2>1. \A x \in Runs : Bridge!Isolated(x)' => Bridge!Isolated(x) /\ reached'[x] = reached[x]
    BY <1>0 DEF Bridge!Isolated
  <2> QED BY <2>1, LossNoted
<1>2. Bridge!TypeOK'
  <2>1. sent' \in [Runs -> Nat] /\ \A x \in Runs : sent'[x] <= MaxCommands[x]
    BY <1>0, <1>a DEF Bridge!IInv, Bridge!TypeOK
  <2>2. futures' \subseteq Bridge!Requests /\ unsent' \subseteq Bridge!Requests
    <3> HIDE DEF q
    <3> QED BY <1>0, <1>b DEF Bridge!IInv, Bridge!TypeOK
  <2> QED BY <1>0, <1>1, <2>1, <2>2 DEF Bridge!IInv, Bridge!TypeOK
<1>3. Bridge!LockInOrder'
  BY <1>0, LockStays
<1>4. Bridge!CommandsNumbered'
  <2>1. ASSUME NEW x \in unsent \cup {f[2] : f \in inFlight}
        PROVE  x[2] <= sent'[x[1]] /\ x # q
    <3>1. x \in Bridge!Requests /\ x[2] <= sent[x[1]]
      BY <2>1 DEF Bridge!IInv, Bridge!TypeOK, Bridge!CommandsNumbered
    <3>2. x[1] \in Runs /\ x[2] \in Nat
      BY <3>1, <1>a DEF Bridge!Requests
    <3> QED BY <1>b, <3>1, <3>2, <1>a
  <2>2. q[2] <= sent'[q[1]]
    BY <1>b, <1>a
  <2>3. \A x \in unsent' : x[2] <= sent'[x[1]]
    BY <1>0, <2>1, <2>2
  <2>4. \A f \in inFlight : f[2] \notin unsent
    BY DEF Bridge!IInv, Bridge!CommandsNumbered
  <2>5. \A f \in inFlight' : f[2][2] <= sent'[f[2][1]] /\ f[2] \notin unsent'
    BY <1>0, <2>1, <2>4
  <2> QED BY <2>3, <2>5 DEF Bridge!CommandsNumbered
<1>5. Bridge!FreshUntilReady'
  BY <1>0 DEF Bridge!IInv, Bridge!FreshUntilReady
<1>6. Bridge!PendingIsAwaited'
  <2>1. ASSUME NEW x \in futures, x \notin unsent
        PROVE  at'[x[1]] = "reply" /\ sent'[x[1]] = x[2]
    <3>1. x \in Bridge!Requests /\ at[x[1]] = "reply" /\ sent[x[1]] = x[2]
      BY <2>1 DEF Bridge!IInv, Bridge!TypeOK, Bridge!PendingIsAwaited
    <3>2. x[1] # r /\ x[1] \in Runs
      BY <1>0, <3>1 DEF Bridge!Requests
    <3> QED BY <1>0, <1>b, <3>1, <3>2
  <2> HIDE DEF q
  <2> QED BY <1>0, <2>1 DEF Bridge!PendingIsAwaited
<1> QED BY <1>1, <1>2, <1>3, <1>4, <1>5, <1>6 DEF Bridge!IInv

\* A run gets no answer, or gets the one it waits for: it goes on, its future is
\* gone.  Other futures may go with it.
LEMMA AnsweredKeeps ==
    ASSUME Bridge!IInv, Bridge!NoteLoss, NEW r \in Runs, at[r] = "reply",
           futures' \subseteq futures \ {<<r, sent[r]>>}, inFlight' \subseteq inFlight,
           at' = [at EXCEPT ![r] = "ready"],
           UNCHANGED <<conn, sessions, chrome, idle, starters, prefer, sent, Bridge!history>>
    PROVE  Bridge!IInv'
<1> USE DEF Bridge!history
<1>a. /\ at \in [Runs -> {"off", "locking", "starting", "ready", "reply"}]
      /\ at'[r] = "ready" /\ \A x \in Runs : x # r => at'[x] = at[x]
  BY DEF Bridge!IInv, Bridge!TypeOK
<1>1. Bridge!IsolatedUntilLost' /\ lost' \in [Runs -> BOOLEAN]
  <2>1. \A x \in Runs : Bridge!Isolated(x)' => Bridge!Isolated(x) /\ reached'[x] = reached[x]
    BY <1>a DEF Bridge!Isolated
  <2> QED BY <2>1, LossNoted
<1>2. Bridge!TypeOK'
  BY <1>1, <1>a DEF Bridge!IInv, Bridge!TypeOK
<1>3. Bridge!LockInOrder'
  BY <1>a, LockStays
<1>4. Bridge!CommandsNumbered' /\ Bridge!FreshUntilReady'
  BY <1>a DEF Bridge!IInv, Bridge!CommandsNumbered, Bridge!FreshUntilReady
<1>5. Bridge!PendingIsAwaited'
  <2>1. ASSUME NEW x \in futures', x \notin unsent
        PROVE  at'[x[1]] = "reply" /\ sent[x[1]] = x[2]
    <3>1. x \in Bridge!Requests /\ at[x[1]] = "reply" /\ sent[x[1]] = x[2]
      BY <2>1 DEF Bridge!IInv, Bridge!TypeOK, Bridge!PendingIsAwaited
    <3>2. x = <<x[1], x[2]>> /\ x[1] \in Runs
      BY <3>1 DEF Bridge!Requests
    <3>3. x[1] # r
      BY <2>1, <3>1, <3>2
    <3> QED BY <1>a, <3>1, <3>2, <3>3
  <2> QED BY <2>1 DEF Bridge!PendingIsAwaited
<1> QED BY <1>1, <1>2, <1>3, <1>4, <1>5 DEF Bridge!IInv

LEMMA ResultKeeps ==
    ASSUME Bridge!IInv, Bridge!NoteLoss, NEW c \in Bridge!Conns, NEW q \in Bridge!Requests,
           Bridge!Result(c, q)
    PROVE  Bridge!IInv'
<1>0. /\ <<c, q>> \in inFlight /\ inFlight' = inFlight \ {<<c, q>>}
      /\ futures' = futures \ {q}
      /\ at' = IF q \in futures THEN [at EXCEPT ![q[1]] = "ready"] ELSE at
      /\ UNCHANGED <<conn, sessions, chrome, idle, starters, prefer, sent, Bridge!history>>
  BY DEF Bridge!Result, Bridge!chromeVars
<1>1. CASE q \in futures
  <2>1. q \notin unsent
    BY <1>0 DEF Bridge!IInv, Bridge!CommandsNumbered
  <2>2. at[q[1]] = "reply" /\ sent[q[1]] = q[2]
    BY <1>1, <2>1 DEF Bridge!IInv, Bridge!PendingIsAwaited
  <2>3. q = <<q[1], q[2]>> /\ q[1] \in Runs
    BY DEF Bridge!Requests
  <2>4. futures' \subseteq futures \ {<<q[1], sent[q[1]]>>}
    BY <1>0, <2>2, <2>3
  <2>5. at' = [at EXCEPT ![q[1]] = "ready"] /\ inFlight' \subseteq inFlight
    BY <1>0, <1>1
  <2> QED BY <1>0, <2>2, <2>3, <2>4, <2>5, AnsweredKeeps
<1>2. CASE q \notin futures
  <2> futures' = futures /\ at' = at
    BY <1>0, <1>2
  <2> QED
    BY <1>0, SessionsKeep
      DEF Bridge!runVars, Bridge!history, Bridge!IInv, Bridge!TypeOK
<1> QED BY <1>1, <1>2

\* A run that ends or is cancelled outside the wait for an answer.
LEMMA OffKeeps ==
    ASSUME Bridge!IInv, Bridge!NoteLoss, NEW r \in Runs,
           at' = [at EXCEPT ![r] = "off"], prefer' = [prefer EXCEPT ![r] = "user"],
           reached' = [reached EXCEPT ![r] = {}], idle' \in BOOLEAN,
           futures' = IF at[r] = "reply" THEN futures \ {<<r, sent[r]>>} ELSE futures,
           Bridge!LockInOrder', starters' \in Seq(Runs),
           UNCHANGED <<conn, sessions, inFlight, chrome, sent, unsent>>
    PROVE  Bridge!IInv'
<1>a. /\ at \in [Runs -> {"off", "locking", "starting", "ready", "reply"}]
      /\ prefer \in [Runs -> {"user", "agent"}]
      /\ reached \in [Runs -> SUBSET {"user", "agent"}]
  BY DEF Bridge!IInv, Bridge!TypeOK
<1>b. /\ at'[r] = "off" /\ reached'[r] = {} /\ futures' \subseteq futures
      /\ \A x \in Runs : x # r => at'[x] = at[x] /\ prefer'[x] = prefer[x] /\ reached'[x] = reached[x]
  BY <1>a
<1>1. Bridge!IsolatedUntilLost' /\ lost' \in [Runs -> BOOLEAN]
  <2>1. \A x \in Runs : Bridge!Isolated(x)' =>
            (Bridge!Isolated(x) /\ reached'[x] = reached[x]) \/ reached'[x] = {}
    BY <1>b DEF Bridge!Isolated
  <2> QED BY <2>1, LossNoted
<1>2. Bridge!TypeOK'
  <2>1. /\ at' \in [Runs -> {"off", "locking", "starting", "ready", "reply"}]
        /\ prefer' \in [Runs -> {"user", "agent"}]
        /\ reached' \in [Runs -> SUBSET {"user", "agent"}]
    BY <1>a
  <2> QED BY <1>1, <1>b, <2>1 DEF Bridge!IInv, Bridge!TypeOK
<1>4. Bridge!CommandsNumbered' /\ Bridge!FreshUntilReady'
  BY <1>b DEF Bridge!IInv, Bridge!CommandsNumbered, Bridge!FreshUntilReady
<1>5. Bridge!PendingIsAwaited'
  <2>1. ASSUME NEW x \in futures', x \notin unsent
        PROVE  at'[x[1]] = "reply" /\ sent[x[1]] = x[2]
    <3>1. x \in Bridge!Requests /\ at[x[1]] = "reply" /\ sent[x[1]] = x[2]
      BY <1>b, <2>1 DEF Bridge!IInv, Bridge!TypeOK, Bridge!PendingIsAwaited
    <3>2. x = <<x[1], x[2]>> /\ x[1] \in Runs
      BY <3>1 DEF Bridge!Requests
    <3>3. x[1] # r
      BY <2>1, <3>1, <3>2
    <3> QED BY <1>b, <3>1, <3>2, <3>3
  <2> QED BY <2>1 DEF Bridge!PendingIsAwaited
<1> QED BY <1>1, <1>2, <1>4, <1>5 DEF Bridge!IInv

LEMMA RunEndKeeps ==
    ASSUME Bridge!IInv, Bridge!NoteLoss, NEW r \in Runs, Bridge!End(r)
    PROVE  Bridge!IInv'
<1>a. /\ at \in [Runs -> {"off", "locking", "starting", "ready", "reply"}]
      /\ starters \in Seq(Runs) /\ idle \in BOOLEAN
  BY DEF Bridge!IInv, Bridge!TypeOK
<1>0. /\ at[r] = "ready" /\ at' = [at EXCEPT ![r] = "off"]
      /\ prefer' = [prefer EXCEPT ![r] = "user"] /\ reached' = [reached EXCEPT ![r] = {}]
      /\ idle' \in BOOLEAN
      /\ UNCHANGED <<conn, sessions, futures, inFlight, chrome, starters, sent, unsent>>
  BY <1>a DEF Bridge!End, Bridge!bridgeVars
<1>1. \A x \in Runs : x # r => at'[x] = at[x]
  BY <1>0, <1>a
<1>2. at'[r] = "off"
  BY <1>0, <1>a
<1>3. Bridge!LockInOrder'
  BY <1>0, <1>1, <1>2, LockStays
<1> QED BY <1>0, <1>3, <1>a, OffKeeps

LEMMA RunCancelKeeps ==
    ASSUME Bridge!IInv, Bridge!NoteLoss, NEW r \in Runs, Bridge!Cancel(r)
    PROVE  Bridge!IInv'
<1>a. /\ at \in [Runs -> {"off", "locking", "starting", "ready", "reply"}]
      /\ starters \in Seq(Runs) /\ idle \in BOOLEAN
  BY DEF Bridge!IInv, Bridge!TypeOK
<1>0. /\ at[r] # "off" /\ at' = [at EXCEPT ![r] = "off"]
      /\ prefer' = [prefer EXCEPT ![r] = "user"] /\ reached' = [reached EXCEPT ![r] = {}]
      /\ starters' = Bridge!RemoveFirst(starters, r)
      /\ futures' = IF at[r] = "reply" THEN futures \ {<<r, sent[r]>>} ELSE futures
      /\ UNCHANGED <<conn, sessions, inFlight, chrome, idle, sent, unsent>>
  BY DEF Bridge!Cancel, Bridge!chromeVars
<1>b. at'[r] = "off" /\ \A x \in Runs : x # r => at'[x] = at[x]
  BY <1>0, <1>a
<1>1. CASE ~Bridge!Contains(starters, r)
  <2>1. starters' = starters
    BY <1>0, <1>1, NothingToRemove
  <2>2. at[r] \notin {"locking", "starting"}
    BY <1>1 DEF Bridge!IInv, Bridge!LockInOrder
  <2>3. Bridge!LockInOrder'
    BY <1>b, <2>1, <2>2, LockStays
  <2> QED BY <1>0, <1>a, <2>1, <2>3, OffKeeps
<1>2. CASE Bridge!Contains(starters, r)
  <2>1. PICK k \in 1 .. Len(starters) :
          /\ starters[k] = r /\ starters' \in Seq(Runs) /\ Len(starters') = Len(starters) - 1
          /\ \A i \in 1 .. Len(starters) - 1 :
               starters'[i] = IF i < k THEN starters[i] ELSE starters[i + 1]
    BY <1>0, <1>2, <1>a, RemovalOfFirst
  <2>2. /\ DOMAIN starters = 1 .. Len(starters) /\ Len(starters) \in Nat
        /\ DOMAIN starters' = 1 .. Len(starters) - 1
    BY <2>1, <1>a
  <2>3. \A i, j \in 1 .. Len(starters) : starters[i] = starters[j] => i = j
    BY <2>2 DEF Bridge!IInv, Bridge!LockInOrder, Bridge!IsInjective
  <2>4. Bridge!IsInjective(starters')
    <3> SUFFICES ASSUME NEW i \in 1 .. Len(starters) - 1, NEW j \in 1 .. Len(starters) - 1,
                        starters'[i] = starters'[j]
                 PROVE  i = j
      BY <2>2 DEF Bridge!IsInjective
    <3>1. i \in 1 .. Len(starters) /\ i + 1 \in 1 .. Len(starters)
      BY <2>2
    <3>2. j \in 1 .. Len(starters) /\ j + 1 \in 1 .. Len(starters)
      BY <2>2
    <3> QED BY <2>1, <2>3, <3>1, <3>2
  <2>5. ASSUME NEW x \in Runs
        PROVE  Bridge!Contains(starters', x) <=> Bridge!Contains(starters, x) /\ x # r
    <3>1. ASSUME NEW i \in 1 .. Len(starters'), starters'[i] = x
          PROVE  Bridge!Contains(starters, x) /\ x # r
      <4>1. i \in 1 .. Len(starters) /\ i + 1 \in 1 .. Len(starters) /\ i \in 1 .. Len(starters) - 1
        BY <2>1, <2>2
      <4>2. CASE i < k
        <5>1. starters[i] = x
          BY <2>1, <3>1, <4>1, <4>2
        <5> QED BY <2>1, <2>3, <4>1, <4>2, <5>1 DEF Bridge!Contains
      <4>3. CASE ~(i < k)
        <5>1. starters[i + 1] = x /\ i + 1 # k
          BY <2>1, <3>1, <4>1, <4>3
        <5> QED BY <2>1, <2>3, <4>1, <5>1 DEF Bridge!Contains
      <4> QED BY <4>2, <4>3
    <3>2. ASSUME NEW i \in 1 .. Len(starters), starters[i] = x, x # r
          PROVE  Bridge!Contains(starters', x)
      <4>1. CASE i < k
        <5>1. i \in 1 .. Len(starters') /\ starters'[i] = x
          BY <2>1, <2>2, <3>2, <4>1
        <5> QED BY <5>1 DEF Bridge!Contains
      <4>2. CASE ~(i < k)
        <5>1. i - 1 \in 1 .. Len(starters') /\ i - 1 \in 1 .. Len(starters) - 1 /\ ~(i - 1 < k)
          BY <2>1, <2>2, <3>2, <4>2
        <5>2. starters'[i - 1] = x
          BY <2>1, <3>2, <5>1
        <5> QED BY <5>1, <5>2 DEF Bridge!Contains
      <4> QED BY <4>1, <4>2
    <3> QED BY <3>1, <3>2 DEF Bridge!Contains
  <2>6. ASSUME NEW x \in Runs, at'[x] = "starting"
        PROVE  starters'[1] = x
    <3>1. x # r /\ at[x] = "starting" /\ starters[1] = x
      BY <1>b, <2>6 DEF Bridge!IInv, Bridge!LockInOrder
    <3>2. 1 < k /\ 1 \in 1 .. Len(starters) - 1
      BY <2>1, <2>2, <3>1
    <3> QED BY <2>1, <3>1, <3>2
  <2>7. \A x \in Runs : Bridge!Contains(starters', x) <=> at'[x] \in {"locking", "starting"}
    BY <1>b, <2>5 DEF Bridge!IInv, Bridge!LockInOrder
  <2>8. Bridge!LockInOrder'
    BY <2>4, <2>6, <2>7 DEF Bridge!LockInOrder
  <2> QED BY <1>0, <1>a, <2>1, <2>8, OffKeeps
<1> QED BY <1>1, <1>2

-----------------------------------------------------------------------------
(* The theorems about the bridge.                                          *)

LEMMA BridgeInit == Bridge!ConstantsOK /\ Bridge!Init => Bridge!IInv
<1> SUFFICES ASSUME Bridge!ConstantsOK, Bridge!Init
             PROVE  Bridge!IInv
  OBVIOUS
<1>1. Bridge!TypeOK
  <2>1. sent \in [Runs -> Nat] /\ \A r \in Runs : sent[r] <= MaxCommands[r]
    BY DEF Bridge!ConstantsOK, Bridge!Init
  <2>2. sessions \in Seq(Bridge!Conns) /\ starters \in Seq(Runs)
    BY DEF Bridge!Init
  <2> QED BY <2>1, <2>2 DEF Bridge!Init, Bridge!TypeOK
<1>2. Bridge!LockInOrder
  BY DEF Bridge!Init, Bridge!LockInOrder, Bridge!IsInjective, Bridge!Contains
<1> QED
  BY <1>1, <1>2 DEF Bridge!Init, Bridge!IInv, Bridge!CommandsNumbered, Bridge!FreshUntilReady,
    Bridge!PendingIsAwaited, Bridge!IsolatedUntilLost

LEMMA BridgeNextKeeps ==
    Bridge!ConstantsOK /\ Bridge!IInv /\ [Bridge!Next]_(Bridge!vars) => Bridge!IInv'
<1> SUFFICES ASSUME Bridge!ConstantsOK, Bridge!IInv, [Bridge!Next]_(Bridge!vars)
             PROVE  Bridge!IInv'
  OBVIOUS
<1>1. CASE Bridge!Next
  <2>0. Bridge!NoteLoss
    BY <1>1 DEF Bridge!Next
  <2>1. ASSUME NEW c \in Bridge!Conns, NEW q \in Bridge!Requests, Bridge!Result(c, q)
        PROVE  Bridge!IInv'
    BY <2>0, <2>1, ResultKeeps
  <2>2. ASSUME \/ \E c \in Bridge!Conns :
                     \/ Bridge!Connect(c) \/ Bridge!Greeted(c) \/ Bridge!GreetingFails(c)
                     \/ Bridge!Break(c) \/ Bridge!Leave(c)
               \/ Bridge!ChromeExits \/ Bridge!TimePasses \/ Bridge!WatcherStops
        PROVE  Bridge!IInv'
    BY <2>0, <2>2, SessionActionsKeep
  <2>3. ASSUME NEW r \in Runs, Bridge!Begin(r)
        PROVE  Bridge!IInv'
    BY <2>0, <2>3, RunBeginKeeps
  <2>4. ASSUME NEW r \in Runs,
               Bridge!Ensure(r) \/ Bridge!AgentConnected(r) \/ Bridge!AgentUnavailable(r)
        PROVE  Bridge!IInv'
    BY <2>0, <2>4, EnsureKeeps
  <2>5. ASSUME NEW r \in Runs, Bridge!SendCommand(r)
        PROVE  Bridge!IInv'
    BY <2>0, <2>5, SendKeeps
  <2>6. ASSUME NEW r \in Runs, Bridge!SendFails(r) \/ Bridge!NoSession(r)
        PROVE  Bridge!IInv'
    BY <2>0, <2>6, NotSentKeeps
  <2>7. ASSUME NEW r \in Runs, Bridge!CommandTimesOut(r)
        PROVE  Bridge!IInv'
    BY <2>0, <2>7, AnsweredKeeps DEF Bridge!CommandTimesOut, Bridge!chromeVars
  <2>8. ASSUME NEW r \in Runs, Bridge!End(r)
        PROVE  Bridge!IInv'
    BY <2>0, <2>8, RunEndKeeps
  <2>9. ASSUME NEW r \in Runs, Bridge!Cancel(r)
        PROVE  Bridge!IInv'
    BY <2>0, <2>9, RunCancelKeeps
  <2> QED BY <1>1, <2>1, <2>2, <2>3, <2>4, <2>5, <2>6, <2>7, <2>8, <2>9 DEF Bridge!Next
<1>2. CASE UNCHANGED Bridge!vars
  <2> USE <1>2 DEF Bridge!vars, Bridge!bridgeVars, Bridge!chromeVars, Bridge!runVars, Bridge!history
  <2>1. Bridge!TypeOK' /\ Bridge!CommandsNumbered' /\ Bridge!FreshUntilReady'
    BY DEF Bridge!IInv, Bridge!TypeOK, Bridge!CommandsNumbered, Bridge!FreshUntilReady
  <2>2. Bridge!PendingIsAwaited' /\ Bridge!IsolatedUntilLost'
    BY DEF Bridge!IInv, Bridge!PendingIsAwaited, Bridge!IsolatedUntilLost, Bridge!Isolated
  <2>3. Bridge!LockInOrder'
    BY LockStays
  <2> QED BY <2>1, <2>2, <2>3 DEF Bridge!IInv
<1> QED BY <1>1, <1>2

\* The lock goes round in order, commands keep their numbers and their futures, and
\* every variable its type, for any connections, runs and commands.
THEOREM BridgeInvariance == Bridge!Spec => []Bridge!IInv
<1>1. Bridge!Init => Bridge!IInv
  BY BridgeAssumption, BridgeInit
<1>2. Bridge!IInv /\ [Bridge!Next]_(Bridge!vars) => Bridge!IInv'
  BY BridgeAssumption, BridgeNextKeeps
<1> QED BY <1>1, <1>2, PTL DEF Bridge!Spec

\* No future stays in the table of commands that nobody awaits, unless its send
\* raised, for any connections, runs and commands.
THEOREM NoFutureIsForgotten == Bridge!Spec => []PendingIsAwaited
<1>1. Bridge!IInv => PendingIsAwaited
  BY DEF Bridge!IInv, PendingIsAwaited
<1> QED BY <1>1, BridgeInvariance, PTL

\* A run sends to the user's browser only after it has lost the isolated one.
THEOREM StaysIsolated == Bridge!Spec => []IsolatedUntilLost
<1>1. Bridge!IInv => IsolatedUntilLost
  BY DEF Bridge!IInv, IsolatedUntilLost
<1> QED BY <1>1, BridgeInvariance, PTL
=============================================================================
