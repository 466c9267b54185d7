------------------------- MODULE JtagSession_proofs -------------------------
(***************************************************************************)
(* Proofs about a debug session, for registers of any length and any words *)
(* of the debugger: the engine and the TAP keep step, the instruction that *)
(* PulpOCD remembers is in force, and the words of its calls arrive whole. *)
(***************************************************************************)
EXTENDS JtagSession, SequenceTheorems, TLAPS

(* The two exits of every state of the table. *)
LEMMA ExitTable ==
    /\ States = {"test_logic_reset", "run_test_idle", "select_dr_scan", "capture_dr",
                 "shift_dr", "exit_1_dr", "pause_dr", "exit_2_dr", "update_dr",
                 "select_ir_scan", "capture_ir", "shift_ir", "exit_1_ir", "pause_ir",
                 "exit_2_ir", "update_ir"}
    /\ Exits["test_logic_reset"][1] = "run_test_idle"
    /\ Exits["test_logic_reset"][2] = "test_logic_reset"
    /\ Exits["run_test_idle"][1] = "run_test_idle"
    /\ Exits["run_test_idle"][2] = "select_dr_scan"
    /\ Exits["select_dr_scan"][1] = "capture_dr"
    /\ Exits["select_dr_scan"][2] = "select_ir_scan"
    /\ Exits["capture_dr"][1] = "shift_dr"
    /\ Exits["capture_dr"][2] = "exit_1_dr"
    /\ Exits["shift_dr"][1] = "shift_dr"
    /\ Exits["shift_dr"][2] = "exit_1_dr"
    /\ Exits["exit_1_dr"][1] = "pause_dr"
    /\ Exits["exit_1_dr"][2] = "update_dr"
    /\ Exits["pause_dr"][1] = "pause_dr"
    /\ Exits["pause_dr"][2] = "exit_2_dr"
    /\ Exits["exit_2_dr"][1] = "shift_dr"
    /\ Exits["exit_2_dr"][2] = "update_dr"
    /\ Exits["update_dr"][1] = "run_test_idle"
    /\ Exits["update_dr"][2] = "select_dr_scan"
    /\ Exits["select_ir_scan"][1] = "capture_ir"
    /\ Exits["select_ir_scan"][2] = "test_logic_reset"
    /\ Exits["capture_ir"][1] = "shift_ir"
    /\ Exits["capture_ir"][2] = "exit_1_ir"
    /\ Exits["shift_ir"][1] = "shift_ir"
    /\ Exits["shift_ir"][2] = "exit_1_ir"
    /\ Exits["exit_1_ir"][1] = "pause_ir"
    /\ Exits["exit_1_ir"][2] = "update_ir"
    /\ Exits["pause_ir"][1] = "pause_ir"
    /\ Exits["pause_ir"][2] = "exit_2_ir"
    /\ Exits["exit_2_ir"][1] = "shift_ir"
    /\ Exits["exit_2_ir"][2] = "update_ir"
    /\ Exits["update_ir"][1] = "run_test_idle"
    /\ Exits["update_ir"][2] = "select_dr_scan"
BY DEF States, Exits

(* The recursive table Walks satisfies its equation: its levels are the    *)
(* eight that the equation names.                                          *)
W1 == Further(Standing)
W2 == Further(W1)
W3 == Further(W2)
W4 == Further(W3)
W5 == Further(W4)
W6 == Further(W5)
W7 == Further(W6)
Levels ==
    [n \in 0..7 |->
        IF n = 0 THEN Standing ELSE IF n = 1 THEN W1 ELSE IF n = 2 THEN W2
        ELSE IF n = 3 THEN W3 ELSE IF n = 4 THEN W4 ELSE IF n = 5 THEN W5
        ELSE IF n = 6 THEN W6 ELSE W7]

LEMMA WalksGrow ==
    Walks[0] = Standing /\ \A n \in 0..6 : Walks[n + 1] = Further(Walks[n])
<1> DEFINE F(f) == [n \in 0..7 |-> IF n = 0 THEN Standing ELSE Further(f[n - 1])]
<1>1. Levels = F(Levels)
  <2>1. \A n \in 0..7 : Levels[n] = F(Levels)[n]
    BY DEF Levels, W1, W2, W3, W4, W5, W6, W7
  <2> QED BY <2>1 DEF Levels
<1>2. Walks = CHOOSE f : f = F(f)
  BY DEF Walks
<1>3. Walks = F(Walks)
  <2> HIDE DEF F
  <2> QED BY <1>1, <1>2
<1>4. Walks[0] = Standing
  BY <1>3
<1>5. ASSUME NEW n \in 0..6 PROVE Walks[n + 1] = Further(Walks[n])
  BY <1>3
<1> QED BY <1>4, <1>5

(* A walk is one edge longer than another, and every walk can go on. *)
LEMMA WalkShorter ==
    ASSUME NEW n \in 0..6, NEW w \in Walks[n + 1]
    PROVE  \E v \in Walks[n], e \in Bit : w = <<v[1], Exits[v[2]][e + 1], Append(v[3], e)>>
<1>1. w \in Further(Walks[n])
  BY WalksGrow
<1> QED BY <1>1 DEF Further

LEMMA WalkLonger ==
    ASSUME NEW n \in 0..6, NEW a, NEW b, NEW e, NEW x \in Bit, <<a, b, e>> \in Walks[n],
           NEW m, m = n + 1, NEW f, f = Append(e, x), NEW c, c = Exits[b][x + 1]
    PROVE  <<a, c, f>> \in Walks[m]
<1>1. Walks[m] = Further(Walks[n])
  BY WalksGrow
<1>2. PICK v \in Walks[n] : v = <<a, b, e>>
  OBVIOUS
<1>3. <<v[1], Exits[v[2]][x + 1], Append(v[3], x)>> \in Further(Walks[n])
  BY DEF Further
<1>4. v[1] = a /\ v[2] = b /\ v[3] = e
  BY <1>2
<1> QED BY <1>1, <1>3, <1>4

(* find_path takes the only walk of the least number of edges. *)
LEMMA ShortestPath ==
    ASSUME NEW a \in States, NEW b \in States, NEW n \in 0..7, NEW e,
           <<a, b, e>> \in Walks[n],
           \A w \in Walks[n] : w[1] = a /\ w[2] = b => w = <<a, b, e>>,
           \A k \in 0 .. n - 1 : \A w \in Walks[k] : ~(w[1] = a /\ w[2] = b)
    PROVE  find_path(a, b) = e
<1> DEFINE ends == <<a, b>>
<1>1. ends[1] = a /\ ends[2] = b /\ ends \in States \X States
  OBVIOUS
<1>2. Between(ends, n) = {<<a, b, e>>}
  <2>1. <<a, b, e>>[1] = a /\ <<a, b, e>>[2] = b
    OBVIOUS
  <2> HIDE DEF ends
  <2> QED BY <1>1, <2>1, Zenon DEF Between
<1>3. \A k \in 0 .. n - 1 : Between(ends, k) = {}
  <2> HIDE DEF ends
  <2> QED BY <1>1 DEF Between
<1> HIDE DEF ends
<1>4. ASSUME NEW m \in 0..7, Between(ends, m) # {}, \A k \in 0 .. m - 1 : Between(ends, k) = {}
      PROVE  m = n
  <2>1. ~(m < n)
    <3>1. m < n => m \in 0 .. n - 1
      OBVIOUS
    <3> QED BY <3>1, <1>3, <1>4
  <2>2. ~(n < m)
    <3>1. n < m => n \in 0 .. m - 1
      OBVIOUS
    <3> QED BY <3>1, <1>2, <1>4
  <2> QED BY <2>1, <2>2
<1>5. Shortest(ends) = n
  BY <1>2, <1>3, <1>4 DEF Shortest
<1>6. (CHOOSE w \in Between(ends, n) : TRUE) = <<a, b, e>>
  BY <1>2
<1>7. Paths[ends] = (CHOOSE w \in Between(ends, Shortest(ends)) : TRUE)[3]
  BY <1>1 DEF Paths
<1>8. Paths[ends] = <<a, b, e>>[3]
  BY <1>5, <1>6, <1>7
<1> QED BY <1>8 DEF find_path, ends

(* What the walks of up to three edges are. *)
LEMMA Walks0 == \A w : w \in Walks[0] <=> \E s \in States : w = <<s, s, <<>>>>
BY WalksGrow DEF Standing

(* Appending to a short sequence of bits. *)
LEMMA Appends ==
    ASSUME NEW x \in Bit, NEW y \in Bit, NEW z \in Bit
    PROVE  /\ Append(<<>>, x) = <<x>>
           /\ Append(<<x>>, y) = <<x, y>>
           /\ Append(<<x, y>>, z) = <<x, y, z>>
<1>1. Append(<<>>, x) = <<x>>
  OBVIOUS
<1>2. Append(<<x>>, y) = <<x, y>>
  <2>1. <<x>> \in Seq(Bit) /\ Len(<<x>>) = 1 /\ <<x, y>> \in Seq(Bit) /\ Len(<<x, y>>) = 2
    OBVIOUS
  <2>2. Append(<<x>>, y) \in Seq(Bit) /\ Len(Append(<<x>>, y)) = 2
    BY <2>1
  <2>3. \A i \in 1..2 : Append(<<x>>, y)[i] = <<x, y>>[i]
    BY <2>1
  <2> QED BY <2>1, <2>2, <2>3, SeqEqual
<1>3. Append(<<x, y>>, z) = <<x, y, z>>
  <2>1. <<x, y>> \in Seq(Bit) /\ Len(<<x, y>>) = 2 /\ <<x, y, z>> \in Seq(Bit) /\ Len(<<x, y, z>>) = 3
    OBVIOUS
  <2>2. Append(<<x, y>>, z) \in Seq(Bit) /\ Len(Append(<<x, y>>, z)) = 3
    BY <2>1
  <2>3. \A i \in 1..3 : Append(<<x, y>>, z)[i] = <<x, y, z>>[i]
    BY <2>1
  <2> QED BY <2>1, <2>2, <2>3, SeqEqual
<1> QED BY <1>1, <1>2, <1>3

LEMMA LastAppend ==
    ASSUME NEW x \in Bit, NEW y \in Bit, NEW z \in Bit, NEW u \in Bit
    PROVE  Append(<<x, y, z>>, u) = <<x, y, z, u>>
<1>1. <<x, y, z>> \in Seq(Bit) /\ Len(<<x, y, z>>) = 3 /\ <<x, y, z, u>> \in Seq(Bit) /\ Len(<<x, y, z, u>>) = 4
  OBVIOUS
<1>2. Append(<<x, y, z>>, u) \in Seq(Bit) /\ Len(Append(<<x, y, z>>, u)) = 4
  BY <1>1
<1>3. \A i \in 1..4 : Append(<<x, y, z>>, u)[i] = <<x, y, z, u>>[i]
  BY <1>1
<1> QED BY <1>1, <1>2, <1>3, SeqEqual

LEMMA Walks1 ==
    \A w : w \in Walks[1] <=>
        \E s \in States, x \in Bit :
            w = <<s, Exits[s][x + 1], <<x>>>>
<1>1. ASSUME NEW w \in Walks[1]
      PROVE  \E s \in States, x \in Bit :
                 w = <<s, Exits[s][x + 1], <<x>>>>
  <2>1. PICK v \in Walks[0], x \in Bit : w = <<v[1], Exits[v[2]][x + 1], Append(v[3], x)>>
    <3>1. 0 \in 0..6 /\ 0 + 1 = 1
      OBVIOUS
    <3> QED BY <3>1, WalkShorter
  <2>2. PICK s \in States :
            v = <<s, s, <<>>>>
    BY Walks0
  <2>3. Append(<<>>, x) = <<x>>
    BY Appends
  <2>4. w = <<s, Exits[s][x + 1], <<x>>>>
    BY <2>1, <2>2, <2>3
  <2> QED BY <2>4
<1>2. ASSUME NEW s \in States, NEW x \in Bit
      PROVE  <<s, Exits[s][x + 1], <<x>>>> \in Walks[1]
  <2>1. <<s, s, <<>>>> \in Walks[0]
    BY Walks0
  <2>2. <<x>> = Append(<<>>, x)
    BY Appends
  <2>3. 0 \in 0..6 /\ 1 = 0 + 1
    OBVIOUS
  <2> QED BY <2>1, <2>2, <2>3, WalkLonger
<1> QED BY <1>1, <1>2

LEMMA Walks2 ==
    \A w : w \in Walks[2] <=>
        \E s \in States, x \in Bit, y \in Bit :
            w = <<s, Exits[Exits[s][x + 1]][y + 1], <<x, y>>>>
<1>1. ASSUME NEW w \in Walks[2]
      PROVE  \E s \in States, x \in Bit, y \in Bit :
                 w = <<s, Exits[Exits[s][x + 1]][y + 1], <<x, y>>>>
  <2>1. PICK v \in Walks[1], y \in Bit : w = <<v[1], Exits[v[2]][y + 1], Append(v[3], y)>>
    <3>1. 1 \in 0..6 /\ 1 + 1 = 2
      OBVIOUS
    <3> QED BY <3>1, WalkShorter
  <2>2. PICK s \in States, x \in Bit :
            v = <<s, Exits[s][x + 1], <<x>>>>
    BY Walks1
  <2>3. Append(<<x>>, y) = <<x, y>>
    BY Appends
  <2>4. w = <<s, Exits[Exits[s][x + 1]][y + 1], <<x, y>>>>
    BY <2>1, <2>2, <2>3
  <2> QED BY <2>4
<1>2. ASSUME NEW s \in States, NEW x \in Bit, NEW y \in Bit
      PROVE  <<s, Exits[Exits[s][x + 1]][y + 1], <<x, y>>>> \in Walks[2]
  <2>1. <<s, Exits[s][x + 1], <<x>>>> \in Walks[1]
    BY Walks1
  <2>2. <<x, y>> = Append(<<x>>, y)
    BY Appends
  <2>3. 1 \in 0..6 /\ 2 = 1 + 1
    OBVIOUS
  <2> QED BY <2>1, <2>2, <2>3, WalkLonger
<1> QED BY <1>1, <1>2

LEMMA Walks3 ==
    \A w : w \in Walks[3] <=>
        \E s \in States, x \in Bit, y \in Bit, z \in Bit :
            w = <<s, Exits[Exits[Exits[s][x + 1]][y + 1]][z + 1], <<x, y, z>>>>
<1>1. ASSUME NEW w \in Walks[3]
      PROVE  \E s \in States, x \in Bit, y \in Bit, z \in Bit :
                 w = <<s, Exits[Exits[Exits[s][x + 1]][y + 1]][z + 1], <<x, y, z>>>>
  <2>1. PICK v \in Walks[2], z \in Bit : w = <<v[1], Exits[v[2]][z + 1], Append(v[3], z)>>
    <3>1. 2 \in 0..6 /\ 2 + 1 = 3
      OBVIOUS
    <3> QED BY <3>1, WalkShorter
  <2>2. PICK s \in States, x \in Bit, y \in Bit :
            v = <<s, Exits[Exits[s][x + 1]][y + 1], <<x, y>>>>
    BY Walks2
  <2>3. Append(<<x, y>>, z) = <<x, y, z>>
    BY Appends
  <2>4. w = <<s, Exits[Exits[Exits[s][x + 1]][y + 1]][z + 1], <<x, y, z>>>>
    BY <2>1, <2>2, <2>3
  <2> QED BY <2>4
<1>2. ASSUME NEW s \in States, NEW x \in Bit, NEW y \in Bit, NEW z \in Bit
      PROVE  <<s, Exits[Exits[Exits[s][x + 1]][y + 1]][z + 1], <<x, y, z>>>> \in Walks[3]
  <2>1. <<s, Exits[Exits[s][x + 1]][y + 1], <<x, y>>>> \in Walks[2]
    BY Walks2
  <2>2. <<x, y, z>> = Append(<<x, y>>, z)
    BY Appends
  <2>3. 2 \in 0..6 /\ 3 = 2 + 1
    OBVIOUS
  <2> QED BY <2>1, <2>2, <2>3, WalkLonger
<1> QED BY <1>1, <1>2

(* The ways between the states in which the operations of the engine begin *)
(* and those they go to: the values of TMS that are left of a way, by the  *)
(* state it goes to and the state the TAP has reached.                     *)
Way ==
    [shift_dr |-> [test_logic_reset |-> <<0, 1, 0, 0>>, run_test_idle |-> <<1, 0, 0>>,
                   update_dr |-> <<1, 0, 0>>, update_ir |-> <<1, 0, 0>>,
                   select_dr_scan |-> <<0, 0>>, capture_dr |-> <<0>>, shift_dr |-> <<>>],
     update_dr |-> [shift_dr |-> <<1, 1>>, exit_1_dr |-> <<1>>, update_dr |-> <<>>],
     run_test_idle |-> [update_dr |-> <<0>>, run_test_idle |-> <<>>],
     capture_ir |-> [run_test_idle |-> <<1, 1, 0>>, select_dr_scan |-> <<1, 0>>,
                     select_ir_scan |-> <<0>>, capture_ir |-> <<>>],
     shift_ir |-> [run_test_idle |-> <<1, 1, 0, 0>>, update_dr |-> <<1, 1, 0, 0>>,
                   select_dr_scan |-> <<1, 0, 0>>, select_ir_scan |-> <<0, 0>>,
                   capture_ir |-> <<0>>, shift_ir |-> <<>>],
     update_ir |-> [shift_ir |-> <<1, 1>>, exit_1_ir |-> <<1>>, update_ir |-> <<>>]]

(* Where the edges from Run-Test/Idle and from both Update states lead. *)
Hubs == {"run_test_idle", "update_dr", "update_ir"}
LEMMA HubEdges ==
    ASSUME NEW s \in Hubs, NEW x \in Bit, NEW y \in Bit, NEW z \in Bit,
           NEW p, p = Exits[s][x + 1], NEW q, q = Exits[p][y + 1], NEW r, r = Exits[q][z + 1]
    PROVE  /\ p = IF x = 0 THEN "run_test_idle" ELSE "select_dr_scan"
           /\ q = IF x = 0 THEN (IF y = 0 THEN "run_test_idle" ELSE "select_dr_scan")
                  ELSE IF y = 0 THEN "capture_dr" ELSE "select_ir_scan"
           /\ r = IF x = 0
                  THEN (IF y = 0 THEN (IF z = 0 THEN "run_test_idle" ELSE "select_dr_scan")
                        ELSE IF z = 0 THEN "capture_dr" ELSE "select_ir_scan")
                  ELSE IF y = 0 THEN (IF z = 0 THEN "shift_dr" ELSE "exit_1_dr")
                       ELSE IF z = 0 THEN "capture_ir" ELSE "test_logic_reset"
<1>1. p = IF x = 0 THEN "run_test_idle" ELSE "select_dr_scan"
  BY ExitTable DEF Bit, Hubs
<1>2. q = IF x = 0 THEN (IF y = 0 THEN "run_test_idle" ELSE "select_dr_scan")
          ELSE IF y = 0 THEN "capture_dr" ELSE "select_ir_scan"
  BY <1>1, ExitTable DEF Bit
<1>3. r = IF x = 0
          THEN (IF y = 0 THEN (IF z = 0 THEN "run_test_idle" ELSE "select_dr_scan")
                ELSE IF z = 0 THEN "capture_dr" ELSE "select_ir_scan")
          ELSE IF y = 0 THEN (IF z = 0 THEN "shift_dr" ELSE "exit_1_dr")
               ELSE IF z = 0 THEN "capture_ir" ELSE "test_logic_reset"
  BY <1>2, ExitTable DEF Bit
<1> QED BY <1>1, <1>2, <1>3

LEMMA Walks3States == \A w \in Walks[3] : w[2] \in States
<1>1. \A s \in States, x \in Bit : Exits[s][x + 1] \in States
  BY ExitTable DEF Bit
<1>2. ASSUME NEW s \in States, NEW x \in Bit, NEW y \in Bit, NEW z \in Bit
      PROVE  Exits[Exits[Exits[s][x + 1]][y + 1]][z + 1] \in States
  BY <1>1
<1> QED BY <1>2, Walks3

LEMMA HubStates == Hubs \subseteq States
BY ExitTable DEF Hubs

(* The walks of up to four edges from there. *)
LEMMA FromHub ==
    ASSUME NEW s \in Hubs
    PROVE  /\ \A w \in Walks[1] : w[1] = s => \E x \in Bit :
                  /\ w = <<s, w[2], <<x>>>>
                  /\ w[2] = IF x = 0 THEN "run_test_idle" ELSE "select_dr_scan"
           /\ \A w \in Walks[2] : w[1] = s => \E x \in Bit, y \in Bit :
                  /\ w = <<s, w[2], <<x, y>>>>
                  /\ w[2] = IF x = 0 THEN (IF y = 0 THEN "run_test_idle" ELSE "select_dr_scan")
                            ELSE IF y = 0 THEN "capture_dr" ELSE "select_ir_scan"
           /\ \A w \in Walks[3] : w[1] = s =>
                  /\ w[2] = "shift_dr" => w = <<s, "shift_dr", <<1, 0, 0>>>>
                  /\ w[2] = "capture_ir" => w = <<s, "capture_ir", <<1, 1, 0>>>>
                  /\ w[2] \notin {"shift_ir", "exit_2_ir"}
           /\ \A w \in Walks[4] : w[1] = s /\ w[2] = "shift_ir" => w = <<s, "shift_ir", <<1, 1, 0, 0>>>>
<1>1. ASSUME NEW w \in Walks[1], w[1] = s
      PROVE  \E x \in Bit : /\ w = <<s, w[2], <<x>>>>
                            /\ w[2] = IF x = 0 THEN "run_test_idle" ELSE "select_dr_scan"
  <2>1. PICK t \in States, x \in Bit : w = <<t, Exits[t][x + 1], <<x>>>>
    BY Walks1, Zenon
  <2>2. t = s /\ w[2] = Exits[s][x + 1] /\ w = <<s, w[2], <<x>>>>
    BY <2>1, <1>1
  <2>3. w[2] = IF x = 0 THEN "run_test_idle" ELSE "select_dr_scan"
    BY <2>2, HubEdges
  <2> QED BY <2>2, <2>3
<1>2. ASSUME NEW w \in Walks[2], w[1] = s
      PROVE  \E x \in Bit, y \in Bit :
                 /\ w = <<s, w[2], <<x, y>>>>
                 /\ w[2] = IF x = 0 THEN (IF y = 0 THEN "run_test_idle" ELSE "select_dr_scan")
                           ELSE IF y = 0 THEN "capture_dr" ELSE "select_ir_scan"
  <2>1. PICK t \in States, x \in Bit, y \in Bit :
            w = <<t, Exits[Exits[t][x + 1]][y + 1], <<x, y>>>>
    BY Walks2, Zenon
  <2>2. t = s /\ w[2] = Exits[Exits[s][x + 1]][y + 1] /\ w = <<s, w[2], <<x, y>>>>
    BY <2>1, <1>2
  <2>3. w[2] = IF x = 0 THEN (IF y = 0 THEN "run_test_idle" ELSE "select_dr_scan")
               ELSE IF y = 0 THEN "capture_dr" ELSE "select_ir_scan"
    BY <2>2, HubEdges
  <2> QED BY <2>2, <2>3
<1>3. ASSUME NEW w \in Walks[3], w[1] = s
      PROVE  /\ w[2] = "shift_dr" => w = <<s, "shift_dr", <<1, 0, 0>>>>
             /\ w[2] = "capture_ir" => w = <<s, "capture_ir", <<1, 1, 0>>>>
             /\ w[2] \notin {"shift_ir", "exit_2_ir"}
  <2>1. PICK t \in States, x \in Bit, y \in Bit, z \in Bit :
            w = <<t, Exits[Exits[Exits[t][x + 1]][y + 1]][z + 1], <<x, y, z>>>>
    BY Walks3, Zenon
  <2>2. /\ t = s /\ w = <<s, w[2], <<x, y, z>>>>
        /\ w[2] = Exits[Exits[Exits[s][x + 1]][y + 1]][z + 1]
    BY <2>1, <1>3
  <2>3. w[2] = IF x = 0
               THEN (IF y = 0 THEN (IF z = 0 THEN "run_test_idle" ELSE "select_dr_scan")
                     ELSE IF z = 0 THEN "capture_dr" ELSE "select_ir_scan")
               ELSE IF y = 0 THEN (IF z = 0 THEN "shift_dr" ELSE "exit_1_dr")
                    ELSE IF z = 0 THEN "capture_ir" ELSE "test_logic_reset"
    BY <2>2, HubEdges
  <2>4. /\ w[2] = "shift_dr" => x = 1 /\ y = 0 /\ z = 0
        /\ w[2] = "capture_ir" => x = 1 /\ y = 1 /\ z = 0
        /\ w[2] \notin {"shift_ir", "exit_2_ir"}
    BY <2>3 DEF Bit
  <2> QED BY <2>2, <2>4
<1>4. ASSUME NEW w \in Walks[4], w[1] = s, w[2] = "shift_ir"
      PROVE  w = <<s, "shift_ir", <<1, 1, 0, 0>>>>
  <2>1. PICK v \in Walks[3], u \in Bit : w = <<v[1], Exits[v[2]][u + 1], Append(v[3], u)>>
    <3>1. 3 \in 0..6 /\ 3 + 1 = 4
      OBVIOUS
    <3> QED BY <3>1, WalkShorter
  <2>2. v[1] = s /\ Exits[v[2]][u + 1] = "shift_ir"
    BY <2>1, <1>4
  <2>3. v[2] \in States
    BY Walks3States
  <2>4. v[2] = "capture_ir" /\ u = 0
    BY <2>2, <2>3, <1>3, ExitTable DEF Bit
  <2>5. v = <<s, "capture_ir", <<1, 1, 0>>>>
    BY <2>2, <2>4, <1>3
  <2>6. Append(<<1, 1, 0>>, 0) = <<1, 1, 0, 0>>
    BY LastAppend DEF Bit
  <2> QED BY <2>1, <2>2, <2>4, <2>5, <2>6
<1> QED BY <1>1, <1>2, <1>3, <1>4, Zenon

LEMMA WayTable ==
    /\ DOMAIN Way["shift_dr"] = {"test_logic_reset", "run_test_idle", "update_dr", "update_ir", "select_dr_scan", "capture_dr", "shift_dr"}
    /\ Way["shift_dr"]["test_logic_reset"] = <<0, 1, 0, 0>>
    /\ Way["shift_dr"]["run_test_idle"] = <<1, 0, 0>>
    /\ Way["shift_dr"]["update_dr"] = <<1, 0, 0>>
    /\ Way["shift_dr"]["update_ir"] = <<1, 0, 0>>
    /\ Way["shift_dr"]["select_dr_scan"] = <<0, 0>>
    /\ Way["shift_dr"]["capture_dr"] = <<0>>
    /\ Way["shift_dr"]["shift_dr"] = <<>>
    /\ DOMAIN Way["update_dr"] = {"shift_dr", "exit_1_dr", "update_dr"}
    /\ Way["update_dr"]["shift_dr"] = <<1, 1>>
    /\ Way["update_dr"]["exit_1_dr"] = <<1>>
    /\ Way["update_dr"]["update_dr"] = <<>>
    /\ DOMAIN Way["run_test_idle"] = {"update_dr", "run_test_idle"}
    /\ Way["run_test_idle"]["update_dr"] = <<0>>
    /\ Way["run_test_idle"]["run_test_idle"] = <<>>
    /\ DOMAIN Way["capture_ir"] = {"run_test_idle", "select_dr_scan", "select_ir_scan", "capture_ir"}
    /\ Way["capture_ir"]["run_test_idle"] = <<1, 1, 0>>
    /\ Way["capture_ir"]["select_dr_scan"] = <<1, 0>>
    /\ Way["capture_ir"]["select_ir_scan"] = <<0>>
    /\ Way["capture_ir"]["capture_ir"] = <<>>
    /\ DOMAIN Way["shift_ir"] = {"run_test_idle", "update_dr", "select_dr_scan", "select_ir_scan", "capture_ir", "shift_ir"}
    /\ Way["shift_ir"]["run_test_idle"] = <<1, 1, 0, 0>>
    /\ Way["shift_ir"]["update_dr"] = <<1, 1, 0, 0>>
    /\ Way["shift_ir"]["select_dr_scan"] = <<1, 0, 0>>
    /\ Way["shift_ir"]["select_ir_scan"] = <<0, 0>>
    /\ Way["shift_ir"]["capture_ir"] = <<0>>
    /\ Way["shift_ir"]["shift_ir"] = <<>>
    /\ DOMAIN Way["update_ir"] = {"shift_ir", "exit_1_ir", "update_ir"}
    /\ Way["update_ir"]["shift_ir"] = <<1, 1>>
    /\ Way["update_ir"]["exit_1_ir"] = <<1>>
    /\ Way["update_ir"]["update_ir"] = <<>>
BY DEF Way

(* Every edge of a way leads to a state from which the rest of it is the   *)
(* way; a way that is not at its end has edges left.                       *)
LEMMA WayGoesOn ==
    ASSUME NEW to \in DOMAIN Way, NEW s \in DOMAIN Way[to], s # to
    PROVE  LET e == Way[to][s]
               n == Exits[s][Head(e) + 1]
           IN  /\ e # <<>> /\ Len(e) = Len(Tail(e)) + 1 /\ Head(e) \in Bit
               /\ n \in DOMAIN Way[to] /\ Way[to][n] = Tail(e)
<1>1. DOMAIN Way = {"shift_dr", "update_dr", "run_test_idle", "capture_ir", "shift_ir", "update_ir"}
  BY DEF Way
<1>2. ASSUME NEW x, NEW y, NEW z, NEW u
      PROVE  /\ Head(<<x>>) = x /\ Tail(<<x>>) = <<>> /\ <<x>> # <<>>
             /\ Head(<<x, y>>) = x /\ Tail(<<x, y>>) = <<y>> /\ <<x, y>> # <<>>
             /\ Head(<<x, y, z>>) = x /\ Tail(<<x, y, z>>) = <<y, z>> /\ <<x, y, z>> # <<>>
             /\ Head(<<x, y, z, u>>) = x /\ Tail(<<x, y, z, u>>) = <<y, z, u>>
             /\ <<x, y, z, u>> # <<>>
             /\ Len(<<>>) = 0 /\ Len(<<x>>) = 1 /\ Len(<<x, y>>) = 2 /\ Len(<<x, y, z>>) = 3
             /\ Len(<<x, y, z, u>>) = 4
  OBVIOUS
<1>3. CASE to = "shift_dr"
  <2>1. CASE s = "test_logic_reset"
    BY <1>2, <1>3, <2>1, ExitTable, WayTable DEF Bit
  <2>2. CASE s = "run_test_idle"
    BY <1>2, <1>3, <2>2, ExitTable, WayTable DEF Bit
  <2>3. CASE s = "update_dr"
    BY <1>2, <1>3, <2>3, ExitTable, WayTable DEF Bit
  <2>4. CASE s = "update_ir"
    BY <1>2, <1>3, <2>4, ExitTable, WayTable DEF Bit
  <2>5. CASE s = "select_dr_scan"
    BY <1>2, <1>3, <2>5, ExitTable, WayTable DEF Bit
  <2>6. CASE s = "capture_dr"
    BY <1>2, <1>3, <2>6, ExitTable, WayTable DEF Bit
  <2> QED BY <1>3, <2>1, <2>2, <2>3, <2>4, <2>5, <2>6, WayTable
<1>4. CASE to = "update_dr"
  <2>1. CASE s = "shift_dr"
    BY <1>2, <1>4, <2>1, ExitTable, WayTable DEF Bit
  <2>2. CASE s = "exit_1_dr"
    BY <1>2, <1>4, <2>2, ExitTable, WayTable DEF Bit
  <2> QED BY <1>4, <2>1, <2>2, WayTable
<1>5. CASE to = "run_test_idle"
  <2>1. CASE s = "update_dr"
    BY <1>2, <1>5, <2>1, ExitTable, WayTable DEF Bit
  <2> QED BY <1>5, <2>1, WayTable
<1>6. CASE to = "capture_ir"
  <2>1. CASE s = "run_test_idle"
    BY <1>2, <1>6, <2>1, ExitTable, WayTable DEF Bit
  <2>2. CASE s = "select_dr_scan"
    BY <1>2, <1>6, <2>2, ExitTable, WayTable DEF Bit
  <2>3. CASE s = "select_ir_scan"
    BY <1>2, <1>6, <2>3, ExitTable, WayTable DEF Bit
  <2> QED BY <1>6, <2>1, <2>2, <2>3, WayTable
<1>7. CASE to = "shift_ir"
  <2>1. CASE s = "run_test_idle"
    BY <1>2, <1>7, <2>1, ExitTable, WayTable DEF Bit
  <2>2. CASE s = "update_dr"
    BY <1>2, <1>7, <2>2, ExitTable, WayTable DEF Bit
  <2>3. CASE s = "select_dr_scan"
    BY <1>2, <1>7, <2>3, ExitTable, WayTable DEF Bit
  <2>4. CASE s = "select_ir_scan"
    BY <1>2, <1>7, <2>4, ExitTable, WayTable DEF Bit
  <2>5. CASE s = "capture_ir"
    BY <1>2, <1>7, <2>5, ExitTable, WayTable DEF Bit
  <2> QED BY <1>7, <2>1, <2>2, <2>3, <2>4, <2>5, WayTable
<1>8. CASE to = "update_ir"
  <2>1. CASE s = "shift_ir"
    BY <1>2, <1>8, <2>1, ExitTable, WayTable DEF Bit
  <2>2. CASE s = "exit_1_ir"
    BY <1>2, <1>8, <2>2, ExitTable, WayTable DEF Bit
  <2> QED BY <1>8, <2>1, <2>2, WayTable
<1> QED BY <1>1, <1>3, <1>4, <1>5, <1>6, <1>7, <1>8

(* find_path takes these ways from the states the operations begin in. *)
LEMMA PathOfNoEdge == ASSUME NEW s \in States PROVE find_path(s, s) = <<>>
<1>1. <<s, s, <<>>>> \in Walks[0]
  BY Walks0
<1>2. \A w \in Walks[0] : w[1] = s /\ w[2] = s => w = <<s, s, <<>>>>
  BY Walks0
<1>3. 0 \in 0..7 /\ 0 .. 0 - 1 = {}
  OBVIOUS
<1> QED BY <1>1, <1>2, <1>3, ShortestPath

LEMMA PathOfOneEdge ==
    ASSUME NEW a \in States, NEW b \in States, a # b, NEW x \in Bit, Exits[a][x + 1] = b,
           \A y \in Bit : Exits[a][y + 1] = b => y = x
    PROVE  find_path(a, b) = <<x>>
<1>1. <<a, b, <<x>>>> \in Walks[1]
  BY Walks1
<1>2. ASSUME NEW w \in Walks[1], w[1] = a, w[2] = b PROVE w = <<a, b, <<x>>>>
  <2>1. PICK s \in States, y \in Bit : w = <<s, Exits[s][y + 1], <<y>>>>
    BY Walks1, Zenon
  <2>2. s = a /\ y = x
    BY <2>1, <1>2
  <2> QED BY <2>1, <2>2
<1>3. \A w \in Walks[0] : ~(w[1] = a /\ w[2] = b)
  BY Walks0
<1>4. 1 \in 0..7 /\ \A k \in 0 .. 1 - 1 : k = 0
  OBVIOUS
<1>5. \A k \in 0 .. 1 - 1 : \A w \in Walks[k] : ~(w[1] = a /\ w[2] = b)
  BY <1>3, <1>4
<1> QED BY <1>1, <1>2, <1>4, <1>5, ShortestPath

LEMMA PathOfTwoEdges ==
    ASSUME NEW a \in {"shift_dr", "shift_ir"}, NEW b, b = IF a = "shift_dr" THEN "update_dr" ELSE "update_ir"
    PROVE  find_path(a, b) = <<1, 1>>
<1>1. <<a, b, <<1, 1>>>> \in Walks[2]
  <2>1. Exits[Exits[a][1 + 1]][1 + 1] = b
    BY ExitTable
  <2>2. a \in States /\ 1 \in Bit
    BY ExitTable DEF Bit
  <2> QED BY <2>1, <2>2, Walks2
<1>2. ASSUME NEW w \in Walks[2], w[1] = a, w[2] = b PROVE w = <<a, b, <<1, 1>>>>
  <2>1. PICK s \in States, x \in Bit, y \in Bit :
            w = <<s, Exits[Exits[s][x + 1]][y + 1], <<x, y>>>>
    BY Walks2, Zenon
  <2>2. s = a /\ Exits[Exits[a][x + 1]][y + 1] = b
    BY <2>1, <1>2
  <2>3. x = 1 /\ y = 1
    BY <2>2, ExitTable DEF Bit
  <2> QED BY <2>1, <2>2, <2>3
<1>3. \A w \in Walks[0] : ~(w[1] = a /\ w[2] = b)
  BY Walks0
<1>4. ASSUME NEW w \in Walks[1], w[1] = a, w[2] = b PROVE FALSE
  <2>1. PICK s \in States, x \in Bit : w = <<s, Exits[s][x + 1], <<x>>>>
    BY Walks1, Zenon
  <2>2. s = a /\ Exits[a][x + 1] = b
    BY <2>1, <1>4
  <2> QED BY <2>2, ExitTable DEF Bit
<1>5. a \in States /\ b \in States /\ 2 \in 0..7 /\ \A k \in 0 .. 2 - 1 : k = 0 \/ k = 1
  BY ExitTable
<1>6. \A k \in 0 .. 2 - 1 : \A w \in Walks[k] : ~(w[1] = a /\ w[2] = b)
  BY <1>3, <1>4, <1>5
<1> QED BY <1>1, <1>2, <1>5, <1>6, ShortestPath

(* Neither scan is reached from a hub in less than three edges. *)
LEMMA HubIsFar ==
    ASSUME NEW s \in Hubs, NEW b \in {"shift_dr", "capture_ir", "shift_ir"}, NEW k \in {0, 1, 2},
           NEW w \in Walks[k]
    PROVE  ~(w[1] = s /\ w[2] = b)
<1>1. CASE k = 0
  BY <1>1, Walks0 DEF Hubs
<1>2. CASE k = 1
  BY <1>2, FromHub
<1>3. CASE k = 2
  BY <1>3, FromHub
<1> QED BY <1>1, <1>2, <1>3

LEMMA PathFromHub ==
    ASSUME NEW s \in Hubs
    PROVE  /\ find_path(s, "shift_dr") = <<1, 0, 0>>
           /\ find_path(s, "capture_ir") = <<1, 1, 0>>
           /\ find_path(s, "shift_ir") = <<1, 1, 0, 0>>
<1>1. s \in States /\ 3 \in 0..7 /\ 4 \in 0..7 /\ 0 \in Bit /\ 1 \in Bit
  BY HubStates DEF Bit
<1>2. {"shift_dr", "capture_ir", "shift_ir"} \subseteq States
  BY ExitTable
<1>3. (\A k \in 0 .. 3 - 1 : k \in {0, 1, 2}) /\ (\A k \in 0 .. 4 - 1 : k \in {0, 1, 2} \/ k = 3)
  OBVIOUS
<1>4. <<s, "shift_dr", <<1, 0, 0>>>> \in Walks[3]
  <2>1. Exits[Exits[Exits[s][1 + 1]][0 + 1]][0 + 1] = "shift_dr"
    BY ExitTable DEF Hubs
  <2>2. PICK w : w = <<s, "shift_dr", <<1, 0, 0>>>>
    OBVIOUS
  <2>3. \E t \in States, x \in Bit, y \in Bit, z \in Bit :
            w = <<t, Exits[Exits[Exits[t][x + 1]][y + 1]][z + 1], <<x, y, z>>>>
    BY <2>1, <2>2, <1>1, Zenon
  <2>4. w \in Walks[3]
    BY <2>3, Walks3, Zenon
  <2> QED BY <2>2, <2>4, Zenon
<1>5. <<s, "capture_ir", <<1, 1, 0>>>> \in Walks[3]
  <2>1. Exits[Exits[Exits[s][1 + 1]][1 + 1]][0 + 1] = "capture_ir"
    BY ExitTable DEF Hubs
  <2>2. PICK w : w = <<s, "capture_ir", <<1, 1, 0>>>>
    OBVIOUS
  <2>3. \E t \in States, x \in Bit, y \in Bit, z \in Bit :
            w = <<t, Exits[Exits[Exits[t][x + 1]][y + 1]][z + 1], <<x, y, z>>>>
    BY <2>1, <2>2, <1>1, Zenon
  <2>4. w \in Walks[3]
    BY <2>3, Walks3, Zenon
  <2> QED BY <2>2, <2>4, Zenon
<1>6. <<s, "shift_ir", <<1, 1, 0, 0>>>> \in Walks[4]
  <2>1. Exits["capture_ir"][0 + 1] = "shift_ir" /\ 3 \in 0..6 /\ 4 = 3 + 1
    BY ExitTable
  <2>2. Append(<<1, 1, 0>>, 0) = <<1, 1, 0, 0>>
    BY LastAppend DEF Bit
  <2> QED BY <1>1, <1>5, <2>1, <2>2, WalkLonger
<1>7. find_path(s, "shift_dr") = <<1, 0, 0>>
  <2>1. \A k \in 0 .. 3 - 1 : \A w \in Walks[k] : ~(w[1] = s /\ w[2] = "shift_dr")
    BY <1>3, HubIsFar
  <2>2. \A w \in Walks[3] : w[1] = s /\ w[2] = "shift_dr" => w = <<s, "shift_dr", <<1, 0, 0>>>>
    BY FromHub
  <2>3. PICK b, e : b = "shift_dr" /\ e = <<1, 0, 0>>
    OBVIOUS
  <2>4. b \in States /\ <<s, b, e>> \in Walks[3]
    BY <2>3, <1>2, <1>4
  <2>5. \A k \in 0 .. 3 - 1 : \A w \in Walks[k] : ~(w[1] = s /\ w[2] = b)
    BY <2>1, <2>3
  <2>6. \A w \in Walks[3] : w[1] = s /\ w[2] = b => w = <<s, b, e>>
    BY <2>2, <2>3
  <2>7. find_path(s, b) = e
    BY <2>4, <2>5, <2>6, <1>1, ShortestPath
  <2> QED BY <2>3, <2>7
<1>8. find_path(s, "capture_ir") = <<1, 1, 0>>
  <2>1. \A k \in 0 .. 3 - 1 : \A w \in Walks[k] : ~(w[1] = s /\ w[2] = "capture_ir")
    BY <1>3, HubIsFar
  <2>2. \A w \in Walks[3] : w[1] = s /\ w[2] = "capture_ir" => w = <<s, "capture_ir", <<1, 1, 0>>>>
    BY FromHub
  <2>3. PICK b, e : b = "capture_ir" /\ e = <<1, 1, 0>>
    OBVIOUS
  <2>4. b \in States /\ <<s, b, e>> \in Walks[3]
    BY <2>3, <1>2, <1>5
  <2>5. \A k \in 0 .. 3 - 1 : \A w \in Walks[k] : ~(w[1] = s /\ w[2] = b)
    BY <2>1, <2>3
  <2>6. \A w \in Walks[3] : w[1] = s /\ w[2] = b => w = <<s, b, e>>
    BY <2>2, <2>3
  <2>7. find_path(s, b) = e
    BY <2>4, <2>5, <2>6, <1>1, ShortestPath
  <2> QED BY <2>3, <2>7
<1>9. find_path(s, "shift_ir") = <<1, 1, 0, 0>>
  <2>1. \A w \in Walks[3] : ~(w[1] = s /\ w[2] = "shift_ir")
    BY FromHub
  <2>2. \A k \in 0 .. 4 - 1 : \A w \in Walks[k] : ~(w[1] = s /\ w[2] = "shift_ir")
    BY <1>3, <2>1, HubIsFar
  <2>3. \A w \in Walks[4] :
            w[1] = s /\ w[2] = "shift_ir" => w = <<s, "shift_ir", <<1, 1, 0, 0>>>>
    BY FromHub
  <2> QED BY <2>2, <2>3, <1>1, <1>2, <1>6, ShortestPath
<1> QED BY <1>7, <1>8, <1>9

LEMMA PathFromReset == find_path("test_logic_reset", "shift_dr") = <<0, 1, 0, 0>>
<1> DEFINE s == "test_logic_reset"
<1> DEFINE b == "shift_dr"
<1>1. s \in States /\ b \in States /\ 4 \in 0..7 /\ 0 \in Bit /\ 1 \in Bit
  BY ExitTable DEF Bit
<1>2. <<s, "capture_dr", <<0, 1, 0>>>> \in Walks[3]
  <2>1. Exits[Exits[Exits[s][0 + 1]][1 + 1]][0 + 1] = "capture_dr"
    BY ExitTable
  <2>2. \E t \in States, x \in Bit, y \in Bit, z \in Bit :
            <<s, "capture_dr", <<0, 1, 0>>>>
                = <<t, Exits[Exits[Exits[t][x + 1]][y + 1]][z + 1], <<x, y, z>>>>
    BY <2>1, <1>1, Zenon
  <2> QED BY <2>2, Walks3, Zenon
<1>3. <<s, b, <<0, 1, 0, 0>>>> \in Walks[4]
  <2>1. Exits["capture_dr"][0 + 1] = "shift_dr" /\ 3 \in 0..6 /\ 4 = 3 + 1
    BY ExitTable
  <2>2. Append(<<0, 1, 0>>, 0) = <<0, 1, 0, 0>>
    BY LastAppend DEF Bit
  <2> QED BY <1>1, <1>2, <2>1, <2>2, WalkLonger
<1>4. ASSUME NEW w \in Walks[1], w[1] = s
      PROVE  \E x \in Bit : /\ w = <<s, w[2], <<x>>>>
                            /\ w[2] = IF x = 0 THEN "run_test_idle" ELSE s
  <2>1. PICK t \in States, x \in Bit : w = <<t, Exits[t][x + 1], <<x>>>>
    BY Walks1, Zenon
  <2>2. t = s /\ w[2] = Exits[s][x + 1] /\ w = <<s, w[2], <<x>>>>
    BY <2>1, <1>4
  <2>3. w[2] = IF x = 0 THEN "run_test_idle" ELSE s
    BY <2>2, ExitTable DEF Bit
  <2> QED BY <2>2, <2>3
<1>5. ASSUME NEW w \in Walks[2], w[1] = s
      PROVE  /\ w[2] \in {s, "run_test_idle", "select_dr_scan"}
             /\ w[2] = "select_dr_scan" => w = <<s, "select_dr_scan", <<0, 1>>>>
  <2>1. PICK t \in States, x \in Bit, y \in Bit :
            w = <<t, Exits[Exits[t][x + 1]][y + 1], <<x, y>>>>
    BY Walks2, Zenon
  <2>2. t = s /\ w[2] = Exits[Exits[s][x + 1]][y + 1] /\ w = <<s, w[2], <<x, y>>>>
    BY <2>1, <1>5
  <2>3. /\ w[2] \in {s, "run_test_idle", "select_dr_scan"}
        /\ w[2] = "select_dr_scan" => x = 0 /\ y = 1
    BY <2>2, ExitTable DEF Bit
  <2> QED BY <2>2, <2>3
<1>6. ASSUME NEW w \in Walks[3], w[1] = s
      PROVE  /\ w[2] \in {s, "run_test_idle", "select_dr_scan", "capture_dr", "select_ir_scan"}
             /\ w[2] = "capture_dr" => w = <<s, "capture_dr", <<0, 1, 0>>>>
  <2>1. PICK t \in States, x \in Bit, y \in Bit, z \in Bit :
            w = <<t, Exits[Exits[Exits[t][x + 1]][y + 1]][z + 1], <<x, y, z>>>>
    BY Walks3, Zenon
  <2>2. /\ t = s /\ w = <<s, w[2], <<x, y, z>>>>
        /\ w[2] = Exits[Exits[Exits[s][x + 1]][y + 1]][z + 1]
    BY <2>1, <1>6
  <2>3. PICK p : p = Exits[s][x + 1]
    OBVIOUS
  <2>4. PICK q : q = Exits[p][y + 1]
    OBVIOUS
  <2>5. p = IF x = 0 THEN "run_test_idle" ELSE s
    BY <2>3, ExitTable DEF Bit
  <2>6. q = IF y = 0 THEN "run_test_idle" ELSE IF x = 0 THEN "select_dr_scan" ELSE s
    BY <2>4, <2>5, ExitTable DEF Bit
  <2>7. w[2] = Exits[q][z + 1]
    BY <2>2, <2>3, <2>4
  <2>8. /\ w[2] \in {s, "run_test_idle", "select_dr_scan", "capture_dr", "select_ir_scan"}
        /\ w[2] = "capture_dr" => x = 0 /\ y = 1 /\ z = 0
    BY <2>6, <2>7, ExitTable DEF Bit
  <2> QED BY <2>2, <2>8
<1>7. ASSUME NEW w \in Walks[4], w[1] = s, w[2] = b PROVE w = <<s, b, <<0, 1, 0, 0>>>>
  <2>1. PICK v \in Walks[3], u \in Bit : w = <<v[1], Exits[v[2]][u + 1], Append(v[3], u)>>
    <3>1. 3 \in 0..6 /\ 3 + 1 = 4
      OBVIOUS
    <3> QED BY <3>1, WalkShorter
  <2>2. v[1] = s /\ Exits[v[2]][u + 1] = "shift_dr"
    BY <2>1, <1>7
  <2>3. v[2] \in {s, "run_test_idle", "select_dr_scan", "capture_dr", "select_ir_scan"}
    BY <2>2, <1>6
  <2>4. v[2] = "capture_dr" /\ u = 0
    BY <2>2, <2>3, ExitTable DEF Bit
  <2>5. v = <<s, "capture_dr", <<0, 1, 0>>>>
    BY <2>2, <2>4, <1>6
  <2>6. Append(<<0, 1, 0>>, 0) = <<0, 1, 0, 0>>
    BY LastAppend DEF Bit
  <2> QED BY <2>1, <2>2, <2>4, <2>5, <2>6
<1>8. \A w \in Walks[0] : ~(w[1] = s /\ w[2] = b)
  BY Walks0
<1>9. \A w \in Walks[1] : ~(w[1] = s /\ w[2] = b)
  BY <1>4
<1>10. \A w \in Walks[2] : ~(w[1] = s /\ w[2] = b)
  BY <1>5
<1>11. \A w \in Walks[3] : ~(w[1] = s /\ w[2] = b)
  BY <1>6
<1>12. \A k \in 0 .. 4 - 1 : k = 0 \/ k = 1 \/ k = 2 \/ k = 3
  OBVIOUS
<1> HIDE DEF s, b
<1>13. \A k \in 0 .. 4 - 1 : \A w \in Walks[k] : ~(w[1] = s /\ w[2] = b)
  BY <1>8, <1>9, <1>10, <1>11, <1>12
<1>14. find_path(s, b) = <<0, 1, 0, 0>>
  BY <1>1, <1>3, <1>7, <1>13, ShortestPath
<1> QED BY <1>14 DEF s, b

(* The operations Goto of the engine, by the state they are begun in.      *)
Gotos ==
    {<<"test_logic_reset", "shift_dr">>, <<"run_test_idle", "shift_dr">>,
     <<"update_dr", "shift_dr">>, <<"update_ir", "shift_dr">>,
     <<"shift_dr", "update_dr">>,
     <<"update_dr", "run_test_idle">>, <<"run_test_idle", "run_test_idle">>,
     <<"run_test_idle", "capture_ir">>,
     <<"run_test_idle", "shift_ir">>, <<"update_dr", "shift_ir">>,
     <<"capture_ir", "shift_ir">>, <<"shift_ir", "shift_ir">>,
     <<"shift_ir", "update_ir">>}

LEMMA PathIsTheWay ==
    \A g \in Gotos : /\ g[1] \in States /\ g[2] \in DOMAIN Way /\ g[1] \in DOMAIN Way[g[2]]
                     /\ find_path(g[1], g[2]) = Way[g[2]][g[1]]
<1>1. DOMAIN Way = {"shift_dr", "update_dr", "run_test_idle", "capture_ir", "shift_ir", "update_ir"}
  BY DEF Way
<1>2. \A g \in Gotos : g[1] \in States /\ g[2] \in DOMAIN Way /\ g[1] \in DOMAIN Way[g[2]]
  BY <1>1, WayTable, ExitTable DEF Gotos
<1>3. {"run_test_idle", "update_dr", "update_ir"} = Hubs
  BY DEF Hubs
<1>4. find_path("test_logic_reset", "shift_dr") = Way["shift_dr"]["test_logic_reset"]
  BY PathFromReset, WayTable
<1>5. /\ find_path("run_test_idle", "shift_dr") = Way["shift_dr"]["run_test_idle"]
      /\ find_path("update_dr", "shift_dr") = Way["shift_dr"]["update_dr"]
      /\ find_path("update_ir", "shift_dr") = Way["shift_dr"]["update_ir"]
      /\ find_path("run_test_idle", "capture_ir") = Way["capture_ir"]["run_test_idle"]
      /\ find_path("run_test_idle", "shift_ir") = Way["shift_ir"]["run_test_idle"]
      /\ find_path("update_dr", "shift_ir") = Way["shift_ir"]["update_dr"]
  BY <1>3, PathFromHub, WayTable
<1>6. /\ find_path("shift_dr", "update_dr") = Way["update_dr"]["shift_dr"]
      /\ find_path("shift_ir", "update_ir") = Way["update_ir"]["shift_ir"]
  BY PathOfTwoEdges, WayTable
<1>7. /\ find_path("run_test_idle", "run_test_idle") = Way["run_test_idle"]["run_test_idle"]
      /\ find_path("shift_ir", "shift_ir") = Way["shift_ir"]["shift_ir"]
  BY PathOfNoEdge, WayTable, ExitTable
<1>8. find_path("update_dr", "run_test_idle") = Way["run_test_idle"]["update_dr"]
  <2>1. /\ Exits["update_dr"][0 + 1] = "run_test_idle" /\ 0 \in Bit
        /\ \A y \in Bit : Exits["update_dr"][y + 1] = "run_test_idle" => y = 0
        /\ "update_dr" \in States /\ "run_test_idle" \in States /\ "update_dr" # "run_test_idle"
    BY ExitTable DEF Bit
  <2> QED BY <2>1, PathOfOneEdge, WayTable
<1>9. find_path("capture_ir", "shift_ir") = Way["shift_ir"]["capture_ir"]
  <2>1. /\ Exits["capture_ir"][0 + 1] = "shift_ir" /\ 0 \in Bit
        /\ \A y \in Bit : Exits["capture_ir"][y + 1] = "shift_ir" => y = 0
        /\ "capture_ir" \in States /\ "shift_ir" \in States /\ "capture_ir" # "shift_ir"
    BY ExitTable DEF Bit
  <2> QED BY <2>1, PathOfOneEdge, WayTable
<1>10. \A g \in Gotos : find_path(g[1], g[2]) = Way[g[2]][g[1]]
  BY <1>4, <1>5, <1>6, <1>7, <1>8, <1>9 DEF Gotos
<1> QED BY <1>2, <1>10

-----------------------------------------------------------------------------
(* The situations between two calls of the engine: the state the TAP is    *)
(* in, the register its instruction selects, what the calls that are left  *)
(* have to deliver, and whether the bits of a read have been kept.         *)
Ftdi == Controller = "ftdi"
Size(r) == IF r = "dmi" THEN DmiLen ELSE IF r = "dtmcs" THEN DtmcsLen ELSE 2
Jobs == {"dmi", "dtmcs"} \X Seq(Bit)
Job(r, w) == IF r = "idcode" THEN <<>> ELSE <<<<r, w>>>>
Stops == {"test_logic_reset", "run_test_idle", "update_dr", "update_ir", "capture_ir", "shift_ir"}
Situation == [at : Stops, reg : {"dmi", "dtmcs", "idcode"}, left : Seq(Jobs), read : BOOLEAN]
Strings == Seq(Bit) \ {<<>>}

(* What every call but reset does to the situation.  Of the simulation,    *)
(* whose instructions pass through write_vir, only the states matter.      *)
Same(a, b) == b.reg = a.reg /\ b.left = a.left /\ b.read = a.read

WritesIr(c, a, b) ==
    \E w \in Strings :
        /\ c = write_ir(w) /\ (Ftdi => w = Code[b.reg])
        /\ a.at \in {"run_test_idle", "update_dr", "shift_ir"} /\ b.at = "update_ir"
        /\ b.left = a.left /\ b.read = a.read

WritesDr(c, a, b) ==
    \E w \in Strings :
        /\ c = write_dr(w)
        /\ a.at \in {"run_test_idle", "update_dr", "update_ir"} /\ b.at = "update_dr"
        /\ b.reg = a.reg /\ b.read = a.read
        /\ Ftdi => /\ Len(w) = Size(a.reg) /\ ~a.read
                   /\ a.left = Job(a.reg, w) \o b.left

ReadsDr(c, a, b) ==
    \E k \in Nat \ {0} :
        /\ c = read_dr(k)
        /\ a.at \in {"run_test_idle", "test_logic_reset"} /\ b.at = "update_dr"
        /\ b.reg = a.reg /\ b.read
        /\ Ftdi => /\ k = Size(a.reg) /\ ~a.read
                   /\ a.left = Job(a.reg, Zeros(k)) \o b.left

GoesIdle(c, a, b) ==
    c = go_idle /\ a.at \in {"update_dr", "run_test_idle"} /\ b.at = "run_test_idle" /\ Same(a, b)

Waits(c, a, b) ==
    \E k \in Nat : c = write_tms(k) /\ a.at = "run_test_idle" /\ b.at = a.at /\ Same(a, b)

CapturesIr(c, a, b) ==
    c = capture_ir /\ a.at = "run_test_idle" /\ b.at = "capture_ir" /\ Same(a, b)

ShiftsIr(c, a, b) ==
    \E w \in Seq(Bit) :
        c = shift_register(w) /\ a.at = "capture_ir" /\ b.at = "shift_ir" /\ Same(a, b)

Does(c, a, b) ==
    \/ WritesIr(c, a, b) \/ WritesDr(c, a, b) \/ ReadsDr(c, a, b) \/ GoesIdle(c, a, b)
    \/ Waits(c, a, b) \/ CapturesIr(c, a, b) \/ ShiftsIr(c, a, b)

(* The calls of p lead from situation a to situation b. *)
Leads(p, a, b) ==
    \E s \in [1 .. Len(p) + 1 -> Situation] :
        /\ s[1] = a /\ s[Len(p) + 1] = b
        /\ \A i \in 1..Len(p) : Does(p[i], s[i], s[i + 1])

Ops ==
    [op : {"goto"}, to : States] \cup [op : {"put", "push"}, bits : Seq(Bit)]
        \cup [op : {"get", "wait"}, len : Nat] \cup [op : {"reset"}]
Calling == Seq(Ops)

LEMMA LeadsNowhere ==
    ASSUME NEW a \in Situation, NEW b \in Situation
    PROVE  Leads(<<>>, a, b) <=> a = b
<1>1. Len(<<>>) = 0 /\ 0 + 1 = 1 /\ 1..0 = {}
  OBVIOUS
<1>2. ASSUME a = b PROVE Leads(<<>>, a, b)
  <2> DEFINE s == [i \in 1..1 |-> a]
  <2>1. s \in [1 .. Len(<<>>) + 1 -> Situation] /\ s[1] = a /\ s[Len(<<>>) + 1] = b
    BY <1>1, <1>2
  <2> QED BY <2>1, <1>1 DEF Leads
<1>3. ASSUME Leads(<<>>, a, b) PROVE a = b
  BY <1>1, <1>3 DEF Leads
<1> QED BY <1>2, <1>3

LEMMA LeadsFirst ==
    ASSUME NEW p \in Seq(Calling), p # <<>>, NEW a, NEW b, Leads(p, a, b)
    PROVE  \E m \in Situation : Does(Head(p), a, m) /\ Leads(Tail(p), m, b)
<1>1. PICK s \in [1 .. Len(p) + 1 -> Situation] :
          /\ s[1] = a /\ s[Len(p) + 1] = b
          /\ \A i \in 1..Len(p) : Does(p[i], s[i], s[i + 1])
  BY DEF Leads
<1>2. /\ Len(p) \in Nat \ {0} /\ Head(p) = p[1] /\ Len(Tail(p)) = Len(p) - 1
      /\ \A i \in 1 .. Len(p) - 1 : Tail(p)[i] = p[i + 1]
  BY HeadTailProperties, EmptySeq, LenProperties
<1> DEFINE t == [i \in 1..Len(p) |-> s[i + 1]]
<1>3. t \in [1 .. Len(Tail(p)) + 1 -> Situation]
  <2>1. \A i \in 1..Len(p) : i + 1 \in 1 .. Len(p) + 1
    BY <1>2
  <2>2. Len(Tail(p)) + 1 = Len(p)
    BY <1>2
  <2> QED BY <2>1, <2>2
<1>4. t[1] = s[2] /\ t[Len(Tail(p)) + 1] = b
  BY <1>1, <1>2
<1>5. ASSUME NEW i \in 1..Len(Tail(p)) PROVE Does(Tail(p)[i], t[i], t[i + 1])
  <2>1. i \in 1 .. Len(p) - 1 /\ i + 1 \in 1..Len(p) /\ i \in 1..Len(p)
    BY <1>2
  <2>2. t[i] = s[i + 1] /\ t[i + 1] = s[(i + 1) + 1] /\ Tail(p)[i] = p[i + 1]
    BY <2>1, <1>2
  <2>3. Does(p[i + 1], s[i + 1], s[(i + 1) + 1])
    BY <2>1, <1>1
  <2> QED BY <2>2, <2>3
<1>6. Does(Head(p), a, s[2])
  <2>1. 1 \in 1..Len(p) /\ 1 + 1 = 2
    BY <1>2
  <2>2. Does(p[1], s[1], s[1 + 1])
    BY <2>1, <1>1
  <2> QED BY <2>2, <1>1, <1>2
<1>7. s[2] \in Situation
  BY <1>2
<1>8. Leads(Tail(p), s[2], b)
  <2> HIDE DEF t
  <2> QED BY <1>3, <1>4, <1>5 DEF Leads
<1> QED BY <1>6, <1>7, <1>8

LEMMA LeadsOn ==
    ASSUME NEW p \in Seq(Calling), NEW c \in Calling, NEW a \in Situation, NEW m \in Situation,
           NEW b, Does(c, a, m), Leads(p, m, b)
    PROVE  /\ Leads(<<c>> \o p, a, b) /\ <<c>> \o p \in Seq(Calling)
<1>1. PICK s \in [1 .. Len(p) + 1 -> Situation] :
          /\ s[1] = m /\ s[Len(p) + 1] = b
          /\ \A i \in 1..Len(p) : Does(p[i], s[i], s[i + 1])
  BY DEF Leads
<1> DEFINE q == <<c>> \o p
<1>2. <<c>> \in Seq(Calling) /\ Len(<<c>>) = 1 /\ <<c>>[1] = c /\ Len(p) \in Nat
  BY LenProperties
<1>3. /\ q \in Seq(Calling) /\ Len(q) = Len(p) + 1
      /\ \A i \in 1 .. Len(p) + 1 : q[i] = IF i <= 1 THEN c ELSE p[i - 1]
  <2>1. /\ q \in Seq(Calling) /\ Len(q) = 1 + Len(p)
        /\ \A i \in 1 .. 1 + Len(p) : q[i] = IF i <= 1 THEN <<c>>[i] ELSE p[i - 1]
    BY <1>2, ConcatProperties
  <2> QED BY <2>1, <1>2
<1> HIDE DEF q
<1> DEFINE t == [i \in 1 .. Len(p) + 2 |-> IF i = 1 THEN a ELSE s[i - 1]]
<1>4. t \in [1 .. Len(q) + 1 -> Situation]
  <2>1. \A i \in 1 .. Len(p) + 2 : i # 1 => i - 1 \in 1 .. Len(p) + 1
    BY <1>2
  <2>2. Len(q) + 1 = Len(p) + 2
    BY <1>2, <1>3
  <2> QED BY <2>1, <2>2
<1>5. t[1] = a /\ t[Len(q) + 1] = b
  BY <1>1, <1>2, <1>3
<1>6. ASSUME NEW i \in 1..Len(q) PROVE Does(q[i], t[i], t[i + 1])
  <2>1. i \in 1 .. Len(p) + 1 /\ i \in Nat
    BY <1>2, <1>3
  <2>2. CASE i = 1
    <3>1. q[i] = c /\ t[i] = a /\ t[i + 1] = s[1]
      BY <2>1, <2>2, <1>2, <1>3
    <3> QED BY <3>1, <1>1
  <2>3. CASE i # 1
    <3>1. i - 1 \in 1..Len(p)
      BY <2>1, <2>3, <1>2
    <3>2. q[i] = p[i - 1] /\ t[i] = s[i - 1] /\ t[i + 1] = s[(i - 1) + 1]
      BY <2>1, <2>3, <1>2, <1>3
    <3>3. Does(p[i - 1], s[i - 1], s[(i - 1) + 1])
      BY <3>1, <1>1
    <3> QED BY <3>2, <3>3
  <2> QED BY <2>2, <2>3
<1>7. Leads(q, a, b)
  <2> HIDE DEF t
  <2> QED BY <1>4, <1>5, <1>6 DEF Leads
<1> QED BY <1>3, <1>7 DEF q

-----------------------------------------------------------------------------
(* What is kept while a session is open.  Edges are typed as records.      *)
Edges == [tms : Bit, tdi : Bit, sampled : BOOLEAN]

TypeInv ==
    /\ opened \in {"closed", "opening", "open"} /\ currentir \in {"none", "dmi"}
    /\ plan \in Seq(Calling) /\ steps \in Calling /\ wire \in Seq(Edges)
    /\ sm \in States /\ tap \in States
    /\ last \in {<<>>} \cup {<<b>> : b \in Bit}
    /\ irShift \in Seq(Bit) /\ Len(irShift) = 5
    /\ dr \in Strings /\ captured \in Strings /\ got \in Seq(Bit)
    /\ owed \in Seq(Jobs)

(* The instruction that takes effect by the next edge at the latest, and   *)
(* what is owed when the words in l are: also a word that has been shifted *)
(* in whole.                                                               *)
InForce(r) ==
    IF tap = "update_ir" THEN irShift = Code[r]
    ELSE IF tap = "test_logic_reset" THEN r = "idcode" ELSE ir = Code[r]

Acts == tap = "update_dr" /\ Selected \in {"dmi", "dtmcs"}
Owed(l) == owed = IF Acts THEN <<<<Selected, dr>>>> \o l ELSE l

Kept(s) == IF s.read THEN got = captured ELSE got = <<>>

(* The TAP has come to rest in situation s. *)
Settled(s) ==
    /\ wire = <<>> /\ tap = s.at /\ sm = s.at
    /\ Ftdi => /\ InForce(s.reg) /\ Owed(s.left) /\ Kept(s)
               /\ s.at = "update_dr" /\ s.read => dr = Zeros(Size(s.reg))

(* The last j places of a register hold the first j bits of w. *)
Filled(reg, w, j) == \A i \in 1..j : reg[Len(reg) - j + i] = w[i]

(* The TAP is on its way to sm, with the bit x on TDI. *)
OnWay(x) ==
    /\ sm \in DOMAIN Way /\ tap \in DOMAIN Way[sm]
    /\ Len(wire) = Len(Way[sm][tap])
    /\ \A i \in 1..Len(wire) :
           wire[i].tms = Way[sm][tap][i] /\ ~wire[i].sampled /\ (Ftdi => wire[i].tdi = x)
InTransit == \E x \in Bit : OnWay(x)

(* The TAP stays where it is; the rest of the first k bits of w follows.   *)
Still == tap = sm /\ \A i \in 1..Len(wire) : wire[i].tms = 0
Unsampled == \A i \in 1..Len(wire) : ~wire[i].sampled
Shifts(w, k) ==
    Len(wire) <= k /\ \A i \in 1..Len(wire) : wire[i].tdi = w[k - Len(wire) + i]

(* The operations of a call under way, which ends in situation b. *)
AtRest(b) == steps = <<>> /\ Settled(b)
Ready(b) == steps # <<>> /\ \E a \in Situation : Settled(a) /\ Does(steps, a, b)

IrComing(b) ==
    \E w \in Strings :
        /\ steps = <<Put(w), Goto("update_ir")>>
        /\ sm = "shift_ir" /\ InTransit /\ b.at = "update_ir"
        /\ Ftdi => w = Code[b.reg] /\ Owed(b.left) /\ Kept(b)

IrShifting(b) ==
    \E w \in Strings :
        /\ steps = <<Goto("update_ir")>> /\ last = <<w[Len(w)]>>
        /\ sm = "shift_ir" /\ Still /\ Unsampled /\ b.at = "update_ir"
        /\ Ftdi => /\ w = Code[b.reg] /\ Shifts(w, 4) /\ Filled(irShift, w, 4 - Len(wire))
                   /\ Owed(b.left) /\ Kept(b)

IrLeaving(b) ==
    /\ steps = <<>> /\ sm = "update_ir" /\ b.at = "update_ir"
    /\ OnWay(Code[b.reg][5])
    /\ Ftdi => /\ IF tap = "shift_ir" THEN Filled(irShift, Code[b.reg], 4)
                  ELSE irShift = Code[b.reg]
               /\ Owed(b.left) /\ Kept(b)

\* w is the word that Update-DR will act on.
Delivering(w, b) ==
    /\ InForce(b.reg) /\ w \in Strings /\ Len(w) = Size(b.reg)
    /\ owed = Job(b.reg, w) \o b.left

DrComing(b) ==
    \E w \in Strings :
        /\ steps = <<Put(w), Goto("update_dr")>>
        /\ sm = "shift_dr" /\ InTransit /\ b.at = "update_dr"
        /\ Ftdi => /\ InForce(b.reg) /\ Len(w) = Size(b.reg) /\ ~b.read /\ got = <<>>
                   /\ Owed(Job(b.reg, w) \o b.left)
                   /\ tap = "shift_dr" => Len(dr) = Len(w)

DrShifting(b) ==
    \E w \in Strings :
        /\ steps = <<Goto("update_dr")>> /\ last = <<w[Len(w)]>>
        /\ sm = "shift_dr" /\ Still /\ Unsampled /\ b.at = "update_dr"
        /\ Ftdi => /\ Delivering(w, b) /\ Shifts(w, Len(w) - 1) /\ ~b.read /\ got = <<>>
                   /\ Len(dr) = Len(w) /\ Filled(dr, w, Len(w) - 1 - Len(wire))

RdComing(b) ==
    \E k \in Nat \ {0} :
        /\ steps = <<Get(k), Goto("update_dr")>> /\ last = <<>>
        /\ sm = "shift_dr" /\ InTransit /\ b.at = "update_dr"
        /\ Ftdi => /\ InForce(b.reg) /\ k = Size(b.reg) /\ b.read
                   /\ Owed(Job(b.reg, Zeros(k)) \o b.left)
                   /\ tap = "shift_dr" => Len(dr) = k /\ dr = captured

RdShifting(b) ==
    \E k \in Nat \ {0} :
        /\ steps = <<Goto("update_dr")>> /\ last = <<>>
        /\ sm = "shift_dr" /\ Still /\ b.at = "update_dr"
        /\ \A i \in 1..Len(wire) : wire[i].sampled /\ wire[i].tdi = 0
        /\ Ftdi => /\ Delivering(Zeros(k), b) /\ b.read /\ Len(wire) <= k
                   /\ Len(dr) = k /\ Filled(dr, Zeros(k), k - Len(wire))
                   /\ \A i \in 1..Len(wire) : dr[i] = captured[k - Len(wire) + i]
                   /\ Len(captured) = k /\ Len(got) = k - Len(wire)
                   /\ \A i \in 1..Len(got) : got[i] = captured[i]

DrLeaving(b) ==
    \E w \in Strings :
        /\ steps = <<>> /\ sm = "update_dr" /\ b.at = "update_dr"
        /\ OnWay(w[Len(w)])
        /\ Ftdi => /\ Delivering(w, b) /\ Kept(b) /\ (b.read => w = Zeros(Size(b.reg)))
                   /\ Len(dr) = Len(w)
                   /\ IF tap = "shift_dr" THEN Filled(dr, w, Len(w) - 1) ELSE dr = w

Arriving(b) ==
    /\ steps = <<>> /\ sm = b.at /\ b.at \in {"run_test_idle", "capture_ir"} /\ InTransit
    /\ Ftdi => InForce(b.reg) /\ Owed(b.left) /\ Kept(b)

PushComing(b) ==
    /\ \E w \in Seq(Bit) : steps = <<Push(w)>>
    /\ sm = "shift_ir" /\ b.at = "shift_ir" /\ tap \in {"capture_ir", "shift_ir"} /\ InTransit
    /\ Ftdi => InForce(b.reg) /\ Owed(b.left) /\ Kept(b)

Staying(b) ==
    /\ steps = <<>> /\ sm = b.at /\ b.at \in {"run_test_idle", "shift_ir"} /\ Still /\ Unsampled
    /\ Ftdi => InForce(b.reg) /\ Owed(b.left) /\ Kept(b)

(* Before and during the five ones nothing is known of the TAP. *)
Cold(b) ==
    /\ opened = "opening"
    /\ b.at = "test_logic_reset" /\ b.reg = "idcode" /\ b.left = <<>> /\ ~b.read
    /\ sm = "test_logic_reset" /\ owed = <<>> /\ got = <<>>

OnesLead(n) ==
    {"test_logic_reset"}
        \cup (IF n >= 1 THEN {"select_ir_scan"} ELSE {})
        \cup (IF n >= 2 THEN {"select_dr_scan"} ELSE {})
        \cup (IF n >= 3 THEN {"run_test_idle", "update_dr", "update_ir"} ELSE {})
        \cup (IF n >= 4 THEN {"exit_1_dr", "exit_2_dr", "exit_1_ir", "exit_2_ir"} ELSE {})
        \cup (IF n >= 5 THEN States ELSE {})

ToReset(b) == steps = reset /\ wire = <<>> /\ Cold(b)
Resetting(b) ==
    /\ steps = <<>> /\ Cold(b) /\ tap \in OnesLead(Len(wire))
    /\ Unsampled /\ \A i \in 1..Len(wire) : wire[i].tms = 1

Doing(b) ==
    \/ AtRest(b) \/ Ready(b) \/ IrComing(b) \/ IrShifting(b) \/ IrLeaving(b)
    \/ DrComing(b) \/ DrShifting(b) \/ RdComing(b) \/ RdShifting(b) \/ DrLeaving(b)
    \/ Arriving(b) \/ PushComing(b) \/ Staying(b) \/ ToReset(b) \/ Resetting(b)

(* The calls that are left end where PulpOCD remembers to be. *)
Ends(z) ==
    /\ z.left = <<>>
    /\ currentir = "none" => z.reg = "idcode" /\ z.at = "shift_ir"
    /\ currentir = "dmi" => /\ z.reg = "dmi" /\ z.at \in {"run_test_idle", "update_dr"}
                            /\ z.at = "update_dr" => z.read
Ahead(p, b) == \E z \in Situation : Leads(p, b, z) /\ Ends(z)

(* The process has only just started. *)
Fresh ==
    /\ plan # <<>> /\ Head(plan) = reset /\ steps = <<>> /\ wire = <<>>
    /\ \E b \in Situation : Cold(b) /\ Ahead(Tail(plan), b)

SessionInv ==
    /\ TypeInv
    /\ opened # "open" => owed = <<>>
    /\ opened = "opening" => currentir = "none"
    /\ opened = "closed" => plan = <<>> /\ steps = <<>> /\ wire = <<>> /\ got = <<>>
    /\ opened # "closed" => Fresh \/ \E b \in Situation : Doing(b) /\ Ahead(plan, b)

-----------------------------------------------------------------------------
(* The TAP of dmi_jtag_tap.sv moves as the table of the engine says. *)
LEMMA TapFollowsTable ==
    ASSUME tap \in States, NEW t \in Bit
    PROVE  TapNext(t) = Exits[tap][t + 1] /\ Exits[tap][t + 1] \in States
<1>1. CASE tap = "test_logic_reset"
  BY <1>1, ExitTable DEF TapNext, Bit
<1>2. CASE tap = "run_test_idle"
  BY <1>2, ExitTable DEF TapNext, Bit
<1>3. CASE tap = "select_dr_scan"
  BY <1>3, ExitTable DEF TapNext, Bit
<1>4. CASE tap = "capture_dr"
  BY <1>4, ExitTable DEF TapNext, Bit
<1>5. CASE tap = "shift_dr"
  BY <1>5, ExitTable DEF TapNext, Bit
<1>6. CASE tap = "exit_1_dr"
  BY <1>6, ExitTable DEF TapNext, Bit
<1>7. CASE tap = "pause_dr"
  BY <1>7, ExitTable DEF TapNext, Bit
<1>8. CASE tap = "exit_2_dr"
  BY <1>8, ExitTable DEF TapNext, Bit
<1>9. CASE tap = "update_dr"
  BY <1>9, ExitTable DEF TapNext, Bit
<1>10. CASE tap = "select_ir_scan"
  BY <1>10, ExitTable DEF TapNext, Bit
<1>11. CASE tap = "capture_ir"
  BY <1>11, ExitTable DEF TapNext, Bit
<1>12. CASE tap = "shift_ir"
  BY <1>12, ExitTable DEF TapNext, Bit
<1>13. CASE tap = "exit_1_ir"
  BY <1>13, ExitTable DEF TapNext, Bit
<1>14. CASE tap = "pause_ir"
  BY <1>14, ExitTable DEF TapNext, Bit
<1>15. CASE tap = "exit_2_ir"
  BY <1>15, ExitTable DEF TapNext, Bit
<1>16. CASE tap = "update_ir"
  BY <1>16, ExitTable DEF TapNext, Bit
<1> QED BY <1>1, <1>2, <1>3, <1>4, <1>5, <1>6, <1>7, <1>8, <1>9, <1>10, <1>11, <1>12, <1>13, <1>14,
           <1>15, <1>16, ExitTable

(* What an edge of TCK does to the wire and to the state of the TAP. *)
LEMMA EdgeMoves ==
    ASSUME TypeInv, TckEdge
    PROVE  /\ wire # <<>> /\ wire' \in Seq(Edges) /\ Len(wire) \in Nat \ {0}
           /\ Len(wire') = Len(wire) - 1 /\ Head(wire) = wire[1]
           /\ \A i \in 1..Len(wire') : wire'[i] = wire[i + 1] /\ i + 1 \in 1..Len(wire)
           /\ wire[1].tms \in Bit /\ wire[1].tdi \in Bit /\ wire[1].sampled \in BOOLEAN
           /\ tap' = Exits[tap][wire[1].tms + 1] /\ tap' \in States
           /\ UNCHANGED hostVars
<1>1. wire # <<>> /\ wire' = Tail(wire) /\ wire \in Seq(Edges) /\ tap \in States
  BY DEF TckEdge, TypeInv
<1>2. /\ Tail(wire) \in Seq(Edges) /\ Len(Tail(wire)) = Len(wire) - 1
      /\ \A i \in 1..Len(Tail(wire)) : Tail(wire)[i] = wire[i + 1]
  BY <1>1, HeadTailProperties
<1>3. Len(wire) \in Nat \ {0}
  BY <1>1, EmptySeq
<1>4. Head(wire) = wire[1] /\ wire[1] \in Edges
  BY <1>1, <1>3, ElementOfSeq
<1>5. \A i \in 1..Len(wire') : wire'[i] = wire[i + 1] /\ i + 1 \in 1..Len(wire)
  BY <1>1, <1>2, <1>3
<1>6. wire[1].tms \in Bit /\ wire[1].tdi \in Bit /\ wire[1].sampled \in BOOLEAN
  BY <1>4 DEF Edges
<1>7. tap' = Exits[tap][wire[1].tms + 1] /\ tap' \in States
  <2>1. tap' = TapNext(wire[1].tms)
    BY <1>4 DEF TckEdge
  <2> QED BY <2>1, <1>1, <1>6, TapFollowsTable
<1>8. UNCHANGED hostVars
  BY DEF TckEdge
<1> QED BY <1>1, <1>2, <1>3, <1>4, <1>5, <1>6, <1>7, <1>8

(* A register takes the bit of an edge behind the bits it has. *)
LEMMA ShiftTypes ==
    ASSUME NEW reg \in Strings, NEW x \in Bit
    PROVE  /\ ShiftIn(reg, x) \in Strings /\ Len(ShiftIn(reg, x)) = Len(reg)
           /\ Len(reg) \in Nat \ {0}
           /\ \A i \in 1 .. Len(reg) - 1 : ShiftIn(reg, x)[i] = reg[i + 1]
           /\ ShiftIn(reg, x)[Len(reg)] = x
<1>1. reg \in Seq(Bit) /\ reg # <<>> /\ Len(reg) \in Nat \ {0}
  BY EmptySeq DEF Strings
<1>2. /\ Tail(reg) \in Seq(Bit) /\ Len(Tail(reg)) = Len(reg) - 1
      /\ \A i \in 1..Len(Tail(reg)) : Tail(reg)[i] = reg[i + 1]
  BY <1>1, HeadTailProperties
<1>3. PICK t : t = Tail(reg)
  OBVIOUS
<1>4. t \in Seq(Bit) /\ Len(t) = Len(reg) - 1 /\ \A i \in 1..Len(t) : t[i] = reg[i + 1]
  BY <1>2, <1>3
<1>5. /\ Append(t, x) \in Seq(Bit) /\ Append(t, x) # <<>> /\ Len(Append(t, x)) = Len(t) + 1
      /\ \A i \in 1..Len(t) : Append(t, x)[i] = t[i]
      /\ Append(t, x)[Len(t) + 1] = x
  BY <1>4, AppendProperties
<1>6. PICK s : s = Append(t, x)
  OBVIOUS
<1>7. s \in Strings /\ Len(s) = Len(reg) /\ s[Len(reg)] = x /\ \A i \in 1 .. Len(reg) - 1 : s[i] = reg[i + 1]
  BY <1>1, <1>4, <1>5, <1>6 DEF Strings
<1>8. ShiftIn(reg, x) = s
  BY <1>3, <1>6 DEF ShiftIn
<1> QED BY <1>1, <1>7, <1>8

LEMMA ShiftFills ==
    ASSUME NEW reg \in Strings, NEW x \in Bit, NEW w, NEW j \in Nat, j < Len(reg),
           Filled(reg, w, j), x = w[j + 1]
    PROVE  Filled(ShiftIn(reg, x), w, j + 1)
<1>1. /\ Len(ShiftIn(reg, x)) = Len(reg) /\ Len(reg) \in Nat \ {0}
      /\ \A i \in 1 .. Len(reg) - 1 : ShiftIn(reg, x)[i] = reg[i + 1]
      /\ ShiftIn(reg, x)[Len(reg)] = x
  BY ShiftTypes
<1> SUFFICES ASSUME NEW i \in 1 .. j + 1
             PROVE  ShiftIn(reg, x)[Len(reg) - (j + 1) + i] = w[i]
  BY <1>1 DEF Filled
<1>2. CASE i = j + 1
  BY <1>1, <1>2
<1>3. CASE i # j + 1
  <2>1. i \in 1..j /\ Len(reg) - (j + 1) + i \in 1 .. Len(reg) - 1
    BY <1>1, <1>3
  <2>2. ShiftIn(reg, x)[Len(reg) - (j + 1) + i] = reg[(Len(reg) - (j + 1) + i) + 1]
    BY <2>1, <1>1
  <2>3. (Len(reg) - (j + 1) + i) + 1 = Len(reg) - j + i
    BY <2>1, <1>1
  <2> QED BY <2>1, <2>2, <2>3 DEF Filled
<1> QED BY <1>2, <1>3

LEMMA FilledUp ==
    ASSUME NEW reg \in Seq(Bit), NEW w \in Seq(Bit), Len(w) = Len(reg), Filled(reg, w, Len(w))
    PROVE  reg = w
<1>1. Len(w) \in Nat
  BY LenProperties
<1>2. \A i \in 1..Len(reg) : reg[i] = w[i]
  BY <1>1 DEF Filled
<1> QED BY <1>2, SeqEqual

LEMMA CodesDiffer ==
    /\ DOMAIN Code = {"dmi", "dtmcs", "idcode"}
    /\ Code["dmi"] = <<1, 0, 0, 0, 1>> /\ Code["dtmcs"] = <<0, 0, 0, 0, 1>>
    /\ Code["idcode"] = <<1, 0, 0, 0, 0>>
    /\ Code["dmi"] # Code["dtmcs"] /\ Code["dmi"] # Code["idcode"] /\ Code["dtmcs"] # Code["idcode"]
<1>1. ASSUME NEW x, NEW y, NEW z, NEW u, NEW v PROVE <<x, y, z, u, v>>[1] = x /\ <<x, y, z, u, v>>[5] = v
  OBVIOUS
<1>2. /\ DOMAIN Code = {"dmi", "dtmcs", "idcode"}
      /\ Code["dmi"] = <<1, 0, 0, 0, 1>> /\ Code["dtmcs"] = <<0, 0, 0, 0, 1>>
      /\ Code["idcode"] = <<1, 0, 0, 0, 0>>
  BY DEF Code
<1>3. Code["dmi"] # Code["dtmcs"] /\ Code["dtmcs"] # Code["idcode"]
  BY <1>1, <1>2
<1>4. Code["dmi"] # Code["idcode"]
  BY <1>1, <1>2
<1> QED BY <1>2, <1>3, <1>4

LEMMA CodesAreStrings == \A r \in DOMAIN Code : Code[r] \in Strings /\ Len(Code[r]) = 5
<1>1. ASSUME NEW x \in Bit, NEW y \in Bit, NEW z \in Bit, NEW u \in Bit, NEW v \in Bit
      PROVE  <<x, y, z, u, v>> \in Seq(Bit) /\ Len(<<x, y, z, u, v>>) = 5 /\ <<x, y, z, u, v>> # <<>>
  OBVIOUS
<1>2. 0 \in Bit /\ 1 \in Bit
  BY DEF Bit
<1>3. /\ Code["dmi"] \in Seq(Bit) /\ Len(Code["dmi"]) = 5 /\ Code["dmi"] # <<>>
      /\ Code["dtmcs"] \in Seq(Bit) /\ Len(Code["dtmcs"]) = 5 /\ Code["dtmcs"] # <<>>
      /\ Code["idcode"] \in Seq(Bit) /\ Len(Code["idcode"]) = 5 /\ Code["idcode"] # <<>>
  BY <1>1, <1>2, CodesDiffer
<1> QED BY <1>3, CodesDiffer DEF Strings

(* The register that the instruction selects. *)
LEMMA SelectedIsThatOfIr ==
    /\ \A r \in DOMAIN Code : ir = Code[r] => Selected = r
    /\ Selected \in {"dmi", "dtmcs", "idcode", "bypass"}
BY CodesDiffer DEF Selected

LEMMA ZerosAreStrings == ASSUME NEW k \in Nat \ {0} PROVE Zeros(k) \in Strings /\ Len(Zeros(k)) = k
<1>1. Zeros(k) \in [1..k -> Bit] /\ Zeros(k) \in Seq(Bit)
  BY DEF Zeros, Bit
<1>2. Len(Zeros(k)) = k
  BY DEF Zeros
<1> QED BY <1>1, <1>2, EmptySeq DEF Strings

LEMMA LoadedFits ==
    ASSUME NEW v \in Loaded
    PROVE  v \in Strings /\ (Selected # "bypass" => Len(v) = Size(Selected))
<1>1. CASE Selected = "dmi"
  <2>1. v \in [1..DmiLen -> Bit] /\ DmiLen \in Nat \ {0}
    BY <1>1, ConstantsAssumption DEF Loaded
  <2>2. v \in Seq(Bit) /\ Len(v) = DmiLen
    BY <2>1
  <2>3. v # <<>>
    BY <2>1, <2>2, EmptySeq
  <2> QED BY <1>1, <2>2, <2>3 DEF Size, Strings
<1>2. CASE Selected = "dtmcs"
  <2>1. v = Zeros(DtmcsLen) /\ DtmcsLen \in Nat \ {0}
    BY <1>2, ConstantsAssumption DEF Loaded
  <2> QED BY <1>2, <2>1, ZerosAreStrings DEF Size
<1>3. CASE Selected = "idcode"
  <2>1. v = <<1, 0>>
    BY <1>3 DEF Loaded
  <2>2. <<1, 0>> \in Seq(Bit) /\ Len(<<1, 0>>) = 2 /\ <<1, 0>> # <<>>
    BY DEF Bit
  <2> QED BY <1>3, <2>1, <2>2 DEF Size, Strings
<1>4. CASE Selected = "bypass"
  <2>1. v = <<0>>
    BY <1>4 DEF Loaded
  <2>2. <<0>> \in Seq(Bit) /\ <<0>> # <<>>
    BY DEF Bit
  <2> QED BY <1>4, <2>1, <2>2 DEF Strings
<1> QED BY <1>1, <1>2, <1>3, <1>4, SelectedIsThatOfIr

LEMMA EdgeTypes ==
    ASSUME TypeInv, TckEdge PROVE TypeInv'
<1>1. PICK x \in Bit : Head(wire).tdi = x
  BY EdgeMoves
<1>2. irShift' \in Seq(Bit) /\ Len(irShift') = 5
  <2>1. irShift \in Strings
    <3>1. irShift \in Seq(Bit) /\ Len(irShift) = 5
      BY DEF TypeInv
    <3>2. irShift # <<>>
      BY <3>1, EmptySeq
    <3> QED BY <3>1, <3>2 DEF Strings
  <2>2. IrNext(x)
    BY <1>1 DEF TckEdge
  <2>3. CASE tap = "shift_ir"
    <3>1. irShift' = ShiftIn(irShift, x)
      BY <2>2, <2>3 DEF IrNext
    <3> QED BY <3>1, <2>1, ShiftTypes DEF Strings, TypeInv
  <2>4. CASE tap = "capture_ir"
    <3>1. irShift' = <<1, 0, 1, 0, 0>>
      BY <2>2, <2>4 DEF IrNext
    <3> QED BY <3>1 DEF Bit
  <2>5. CASE tap = "test_logic_reset"
    <3>1. irShift' = Zeros(5)
      BY <2>2, <2>5 DEF IrNext
    <3>2. Zeros(5) \in Strings /\ Len(Zeros(5)) = 5
      <4>1. 5 \in Nat \ {0}
        OBVIOUS
      <4> QED BY <4>1, ZerosAreStrings
    <3> QED BY <3>1, <3>2 DEF Strings
  <2>6. CASE tap \notin {"shift_ir", "capture_ir", "test_logic_reset"}
    <3>1. irShift' = irShift
      BY <2>2, <2>6 DEF IrNext
    <3> QED BY <3>1 DEF TypeInv
  <2> QED BY <2>3, <2>4, <2>5, <2>6
<1>3. dr' \in Strings /\ captured' \in Strings
  <2>1. DrNext(x) /\ dr \in Strings /\ captured \in Strings
    BY <1>1 DEF TckEdge, TypeInv
  <2>2. CASE tap = "capture_dr"
    <3>1. dr' \in Loaded /\ captured' = dr'
      BY <2>1, <2>2 DEF DrNext
    <3> QED BY <3>1, LoadedFits
  <2>3. CASE tap = "shift_dr"
    <3>1. dr' = ShiftIn(dr, x) /\ captured' = captured
      BY <2>1, <2>3 DEF DrNext
    <3> QED BY <3>1, <2>1, ShiftTypes
  <2>4. CASE tap \notin {"capture_dr", "shift_dr"}
    <3>1. dr' = dr /\ captured' = captured
      BY <2>1, <2>4 DEF DrNext
    <3> QED BY <3>1, <2>1
  <2> QED BY <2>2, <2>3, <2>4
<1>4. got' \in Seq(Bit)
  <2>1. got' = IF Head(wire).sampled THEN Append(got, dr[1]) ELSE got
    BY DEF TckEdge
  <2>2. dr[1] \in Bit /\ got \in Seq(Bit)
    <3>1. dr \in Seq(Bit) /\ dr # <<>> /\ got \in Seq(Bit)
      BY DEF TypeInv, Strings
    <3>2. Len(dr) \in Nat \ {0}
      BY <3>1, EmptySeq
    <3> QED BY <3>1, <3>2, ElementOfSeq
  <2> QED BY <2>1, <2>2, AppendProperties
<1>5. owed' \in Seq(Jobs)
  <2>1. Update /\ owed \in Seq(Jobs)
    BY DEF TckEdge, TypeInv
  <2>2. CASE owed' = owed
    BY <2>1, <2>2
  <2>3. CASE owed' # owed
    <3>1. owed # <<>> /\ owed' = Tail(owed)
      BY <2>1, <2>3 DEF Update
    <3> QED BY <2>1, <3>1, HeadTailProperties
  <2> QED BY <2>2, <2>3
<1>6. wire' \in Seq(Edges) /\ tap' \in States /\ UNCHANGED hostVars
  BY EdgeMoves
<1>7. /\ opened' \in {"closed", "opening", "open"} /\ currentir' \in {"none", "dmi"}
      /\ plan' \in Seq(Calling) /\ steps' \in Calling /\ sm' \in States
      /\ last' \in {<<>>} \cup {<<b>> : b \in Bit}
  BY <1>6 DEF TypeInv, hostVars
<1> QED BY <1>2, <1>3, <1>4, <1>5, <1>6, <1>7 DEF TypeInv

(* What an edge leaves of the promises. *)
LEMMA EdgeOwed ==
    ASSUME TypeInv, TckEdge, NEW l \in Seq(Jobs), Owed(l)
    PROVE  owed' = l
<1>1. Update
  BY DEF TckEdge
<1>2. CASE Acts
  <2>1. PICK d : d = <<Selected, dr>>
    OBVIOUS
  <2>2. owed = <<d>> \o l
    BY <1>2, <2>1 DEF Owed
  <2>3. d \in Jobs
    BY <1>2, <2>1 DEF Acts, Jobs, TypeInv, Strings
  <2>4. /\ <<d>> \in Seq(Jobs) /\ Len(<<d>>) = 1 /\ Len(l) \in Nat
        /\ owed \in Seq(Jobs) /\ Len(owed) = 1 + Len(l)
        /\ \A i \in 1 .. 1 + Len(l) : owed[i] = IF i <= 1 THEN <<d>>[i] ELSE l[i - 1]
    <3>1. <<d>> \in Seq(Jobs) /\ Len(<<d>>) = 1 /\ Len(l) \in Nat
      BY <2>3, LenProperties
    <3> QED BY <3>1, <2>2, ConcatProperties
  <2>5. owed # <<>>
    BY <2>4, EmptySeq
  <2>6. Tail(owed) = l
    <3>1. /\ Tail(owed) \in Seq(Jobs) /\ Len(Tail(owed)) = Len(owed) - 1
          /\ \A i \in 1..Len(Tail(owed)) : Tail(owed)[i] = owed[i + 1]
      BY <2>4, <2>5, HeadTailProperties
    <3>2. \A i \in 1..Len(Tail(owed)) : Tail(owed)[i] = l[i]
      BY <3>1, <2>4
    <3>3. Len(Tail(owed)) = Len(l)
      BY <3>1, <2>4
    <3> QED BY <3>1, <3>2, <3>3, SeqEqual
  <2>7. owed' = Tail(owed)
    BY <1>1, <1>2, <2>5 DEF Update, Acts
  <2> QED BY <2>6, <2>7
<1>3. CASE ~Acts
  <2>1. owed' = owed
    BY <1>1, <1>3 DEF Update, Acts
  <2> QED BY <1>3, <2>1 DEF Owed
<1> QED BY <1>2, <1>3

LEMMA OwedAway ==
    ASSUME NEW l, owed' = l, tap' # "update_dr" PROVE Owed(l)'
BY DEF Owed, Acts

LEMMA EdgeInForce ==
    ASSUME TypeInv, TckEdge, NEW r \in DOMAIN Code, InForce(r),
           tap \notin {"exit_1_ir", "exit_2_ir"}, tap' # "test_logic_reset"
    PROVE  InForce(r)' /\ ir' = Code[r] /\ tap' # "update_ir"
<1>1. PICK x \in Bit : Head(wire).tdi = x
  BY EdgeMoves
<1>2. IrNext(x)
  BY <1>1 DEF TckEdge
<1>3. PICK t \in Bit : tap' = Exits[tap][t + 1]
  BY EdgeMoves
<1>4. tap' # "update_ir"
  BY <1>3, ExitTable DEF TypeInv, Bit
<1>5. ir' = Code[r]
  <2>1. CASE tap = "update_ir"
    BY <1>2, <2>1 DEF IrNext, InForce
  <2>2. CASE tap = "test_logic_reset"
    BY <1>2, <2>2 DEF IrNext, InForce
  <2>3. CASE tap \notin {"update_ir", "test_logic_reset"}
    BY <1>2, <2>3 DEF IrNext, InForce
  <2> QED BY <2>1, <2>2, <2>3
<1> QED BY <1>4, <1>5 DEF InForce

(* The registers on the way. *)
LEMMA EdgeRegisters ==
    ASSUME TypeInv, TckEdge
    PROVE  /\ ~wire[1].sampled => got' = got
           /\ wire[1].sampled => got' = Append(got, dr[1])
           /\ tap \notin {"capture_dr", "shift_dr"} => dr' = dr
           /\ tap # "capture_dr" => captured' = captured
           /\ tap = "shift_dr" => dr' = ShiftIn(dr, wire[1].tdi)
           /\ tap = "capture_dr" => dr' \in Loaded /\ captured' = dr'
           /\ tap = "shift_ir" => irShift' = ShiftIn(irShift, wire[1].tdi)
           /\ tap \notin {"shift_ir", "capture_ir", "test_logic_reset"} => irShift' = irShift
<1>1. PICK x \in Bit : wire[1].tdi = x /\ Head(wire) = wire[1]
  BY EdgeMoves
<1>2. /\ IrNext(x) /\ DrNext(x)
      /\ got' = IF wire[1].sampled THEN Append(got, dr[1]) ELSE got
  BY <1>1 DEF TckEdge
<1>3. /\ ~wire[1].sampled => got' = got
      /\ wire[1].sampled => got' = Append(got, dr[1])
  BY <1>2
<1>4. /\ tap \notin {"capture_dr", "shift_dr"} => dr' = dr
      /\ tap # "capture_dr" => captured' = captured
      /\ tap = "shift_dr" => dr' = ShiftIn(dr, wire[1].tdi)
      /\ tap = "capture_dr" => dr' \in Loaded /\ captured' = dr'
  BY <1>1, <1>2 DEF DrNext
<1>5. /\ tap = "shift_ir" => irShift' = ShiftIn(irShift, wire[1].tdi)
      /\ tap \notin {"shift_ir", "capture_ir", "test_logic_reset"} => irShift' = irShift
  BY <1>1, <1>2 DEF IrNext
<1> QED BY <1>3, <1>4, <1>5

LEMMA WayDomain ==
    /\ DOMAIN Way = {"shift_dr", "update_dr", "run_test_idle", "capture_ir", "shift_ir", "update_ir"}
    /\ \A to \in DOMAIN Way : to \in DOMAIN Way[to] /\ Way[to][to] = <<>> /\ to \in States
    /\ \A to \in DOMAIN Way : DOMAIN Way[to] \subseteq States
<1>1. DOMAIN Way = {"shift_dr", "update_dr", "run_test_idle", "capture_ir", "shift_ir", "update_ir"}
  BY DEF Way
<1>2. \A to \in DOMAIN Way : to \in DOMAIN Way[to] /\ Way[to][to] = <<>> /\ to \in States
  BY <1>1, WayTable, ExitTable
<1>3. \A to \in DOMAIN Way : DOMAIN Way[to] \subseteq States
  BY <1>1, WayTable, ExitTable
<1> QED BY <1>1, <1>2, <1>3

LEMMA WaysAreBits ==
    ASSUME NEW to \in DOMAIN Way, NEW s \in DOMAIN Way[to]
    PROVE  Way[to][s] \in Seq(Bit)
<1>1. 0 \in Bit /\ 1 \in Bit
  BY DEF Bit
<1>2. ASSUME NEW x \in Bit, NEW y \in Bit, NEW z \in Bit, NEW u \in Bit
      PROVE  /\ <<>> \in Seq(Bit) /\ <<x>> \in Seq(Bit) /\ <<x, y>> \in Seq(Bit)
             /\ <<x, y, z>> \in Seq(Bit) /\ <<x, y, z, u>> \in Seq(Bit)
  OBVIOUS
<1>3. /\ <<>> \in Seq(Bit) /\ <<0>> \in Seq(Bit) /\ <<1>> \in Seq(Bit)
      /\ <<0, 0>> \in Seq(Bit) /\ <<1, 0>> \in Seq(Bit) /\ <<1, 1>> \in Seq(Bit)
      /\ <<1, 0, 0>> \in Seq(Bit) /\ <<1, 1, 0>> \in Seq(Bit)
      /\ <<0, 1, 0, 0>> \in Seq(Bit) /\ <<1, 1, 0, 0>> \in Seq(Bit)
  BY <1>1, <1>2
<1>4. CASE to = "shift_dr"
  <2>1. CASE s = "test_logic_reset"
    BY <1>3, <1>4, <2>1, WayTable
  <2>2. CASE s = "run_test_idle"
    BY <1>3, <1>4, <2>2, WayTable
  <2>3. CASE s = "update_dr"
    BY <1>3, <1>4, <2>3, WayTable
  <2>4. CASE s = "update_ir"
    BY <1>3, <1>4, <2>4, WayTable
  <2>5. CASE s = "select_dr_scan"
    BY <1>3, <1>4, <2>5, WayTable
  <2>6. CASE s = "capture_dr"
    BY <1>3, <1>4, <2>6, WayTable
  <2>7. CASE s = "shift_dr"
    BY <1>3, <1>4, <2>7, WayTable
  <2> QED BY <1>4, <2>1, <2>2, <2>3, <2>4, <2>5, <2>6, <2>7, WayTable
<1>5. CASE to = "update_dr"
  BY <1>3, <1>5, WayTable
<1>6. CASE to = "run_test_idle"
  BY <1>3, <1>6, WayTable
<1>7. CASE to = "capture_ir"
  BY <1>3, <1>7, WayTable
<1>8. CASE to = "shift_ir"
  BY <1>3, <1>8, WayTable
<1>9. CASE to = "update_ir"
  BY <1>3, <1>9, WayTable
<1> QED BY <1>4, <1>5, <1>6, <1>7, <1>8, <1>9, WayDomain

(* The end of a way is reached with the last of its edges. *)
LEMMA EndOfWay ==
    ASSUME wire \in Seq(Edges), NEW x, OnWay(x) PROVE wire = <<>> <=> tap = sm
<1>1. sm \in DOMAIN Way /\ tap \in DOMAIN Way[sm] /\ Len(wire) = Len(Way[sm][tap])
  BY DEF OnWay
<1>2. wire = <<>> <=> Len(wire) = 0
  <2>1. wire # <<>> => Len(wire) \in Nat \ {0}
    BY EmptySeq
  <2>2. Len(<<>>) = 0
    OBVIOUS
  <2> QED BY <2>1, <2>2
<1>3. CASE tap = sm
  <2>1. Way[sm][tap] = <<>> /\ Len(<<>>) = 0
    BY <1>1, <1>3, WayDomain
  <2> QED BY <2>1, <1>1, <1>2, <1>3
<1>4. CASE tap # sm
  <2>1. Way[sm][tap] # <<>> /\ Way[sm][tap] \in Seq(Bit)
    BY <1>1, <1>4, WayGoesOn, WaysAreBits
  <2>2. Len(Way[sm][tap]) # 0
    BY <2>1, EmptySeq
  <2> QED BY <2>2, <1>1, <1>2, <1>4
<1> QED BY <1>3, <1>4

LEMMA EdgeOnWay ==
    ASSUME TypeInv, TckEdge, NEW x, OnWay(x)
    PROVE  /\ OnWay(x)' /\ tap # sm /\ ~wire[1].sampled /\ (Ftdi => wire[1].tdi = x)
           /\ tap' = Exits[tap][Head(Way[sm][tap]) + 1]
<1>1. /\ sm \in DOMAIN Way /\ tap \in DOMAIN Way[sm] /\ Len(wire) = Len(Way[sm][tap])
      /\ \A i \in 1..Len(wire) :
             wire[i].tms = Way[sm][tap][i] /\ ~wire[i].sampled /\ (Ftdi => wire[i].tdi = x)
  BY DEF OnWay
<1>2. /\ wire # <<>> /\ Len(wire) \in Nat \ {0} /\ Len(wire') = Len(wire) - 1
      /\ \A i \in 1..Len(wire') : wire'[i] = wire[i + 1] /\ i + 1 \in 1..Len(wire)
      /\ tap' = Exits[tap][wire[1].tms + 1] /\ sm' = sm
  BY EdgeMoves DEF hostVars
<1>3. tap # sm
  <2>1. wire \in Seq(Edges)
    BY DEF TypeInv
  <2> QED BY <2>1, <1>2, EndOfWay
<1>4. PICK e : e = Way[sm][tap]
  OBVIOUS
<1>5. /\ e \in Seq(Bit) /\ e # <<>> /\ Len(e) = Len(Tail(e)) + 1
      /\ Exits[tap][Head(e) + 1] \in DOMAIN Way[sm]
      /\ Way[sm][Exits[tap][Head(e) + 1]] = Tail(e)
  BY <1>1, <1>3, <1>4, WayGoesOn, WaysAreBits
<1>6. Head(e) = e[1] /\ \A i \in 1..Len(Tail(e)) : Tail(e)[i] = e[i + 1]
  BY <1>5, HeadTailProperties
<1>7. wire[1].tms = Head(e) /\ ~wire[1].sampled /\ (Ftdi => wire[1].tdi = x)
  <2>1. 1 \in 1..Len(wire)
    BY <1>2
  <2> QED BY <2>1, <1>1, <1>4, <1>6
<1>8. tap' \in DOMAIN Way[sm] /\ Way[sm][tap'] = Tail(e) /\ Len(wire') = Len(Way[sm][tap'])
  <2>1. tap' \in DOMAIN Way[sm] /\ Way[sm][tap'] = Tail(e)
    BY <1>2, <1>5, <1>7
  <2>2. Len(Tail(e)) \in Nat /\ Len(e) = Len(wire)
    BY <1>1, <1>4, <1>5, HeadTailProperties, LenProperties
  <2> QED BY <2>1, <2>2, <1>2, <1>5
<1>9. ASSUME NEW i \in 1..Len(wire')
      PROVE  wire'[i].tms = Way[sm][tap'][i] /\ ~wire'[i].sampled /\ (Ftdi => wire'[i].tdi = x)
  <2>1. wire'[i] = wire[i + 1] /\ i + 1 \in 1..Len(wire)
    BY <1>2
  <2>2. Way[sm][tap'][i] = e[i + 1]
    BY <1>6, <1>8
  <2> QED BY <2>1, <2>2, <1>1, <1>4
<1>10. OnWay(x)'
  BY <1>1, <1>2, <1>8, <1>9 DEF OnWay, Ftdi
<1> QED BY <1>2, <1>3, <1>4, <1>7, <1>10

LEMMA EdgeInTransit ==
    ASSUME TypeInv, TckEdge, InTransit
    PROVE  /\ InTransit' /\ tap # sm /\ ~wire[1].sampled
           /\ sm \in DOMAIN Way /\ tap \in DOMAIN Way[sm] /\ tap' \in DOMAIN Way[sm]
           /\ tap' = Exits[tap][Head(Way[sm][tap]) + 1]
<1>1. PICK x \in Bit : OnWay(x)
  BY DEF InTransit
<1>2. /\ OnWay(x)' /\ tap # sm /\ ~wire[1].sampled
      /\ tap' = Exits[tap][Head(Way[sm][tap]) + 1]
  BY <1>1, EdgeOnWay
<1>3. sm' = sm
  BY EdgeMoves DEF hostVars
<1> QED BY <1>1, <1>2, <1>3 DEF InTransit, OnWay

(* The states a way leads through, one by one. *)
LEMMA OnTheWay ==
    ASSUME NEW to \in DOMAIN Way, NEW s \in DOMAIN Way[to], s # to,
           NEW n, n = Exits[s][Head(Way[to][s]) + 1]
    PROVE  /\ to = "shift_dr" =>
                  /\ s \notin {"exit_1_ir", "exit_2_ir", "shift_dr", "shift_ir"}
                  /\ n \notin {"test_logic_reset", "update_ir", "update_dr"}
                  /\ n = "shift_dr" <=> s = "capture_dr"
           /\ to = "update_dr" => \/ (s = "shift_dr" /\ n = "exit_1_dr")
                                 \/ (s = "exit_1_dr" /\ n = "update_dr")
           /\ to = "run_test_idle" => s = "update_dr" /\ n = "run_test_idle"
           /\ to = "capture_ir" =>
                  /\ s \in {"run_test_idle", "select_dr_scan", "select_ir_scan"}
                  /\ n \in {"select_dr_scan", "select_ir_scan", "capture_ir"}
           /\ to = "shift_ir" =>
                  /\ s \in {"run_test_idle", "update_dr", "select_dr_scan", "select_ir_scan", "capture_ir"}
                  /\ n \in {"select_dr_scan", "select_ir_scan", "capture_ir", "shift_ir"}
                  /\ s = "capture_ir" => n = "shift_ir"
           /\ to = "update_ir" => \/ (s = "shift_ir" /\ n = "exit_1_ir")
                                 \/ (s = "exit_1_ir" /\ n = "update_ir")
<1>1. ASSUME NEW x, NEW y, NEW z, NEW u
      PROVE  Head(<<x>>) = x /\ Head(<<x, y>>) = x /\ Head(<<x, y, z>>) = x /\ Head(<<x, y, z, u>>) = x
  OBVIOUS
<1>2. CASE to = "shift_dr"
  <2>1. CASE s = "test_logic_reset"
    BY <1>1, <1>2, <2>1, ExitTable, WayTable
  <2>2. CASE s = "run_test_idle"
    BY <1>1, <1>2, <2>2, ExitTable, WayTable
  <2>3. CASE s = "update_dr"
    BY <1>1, <1>2, <2>3, ExitTable, WayTable
  <2>4. CASE s = "update_ir"
    BY <1>1, <1>2, <2>4, ExitTable, WayTable
  <2>5. CASE s = "select_dr_scan"
    BY <1>1, <1>2, <2>5, ExitTable, WayTable
  <2>6. CASE s = "capture_dr"
    BY <1>1, <1>2, <2>6, ExitTable, WayTable
  <2> QED BY <1>2, <2>1, <2>2, <2>3, <2>4, <2>5, <2>6, WayTable
<1>3. CASE to = "update_dr"
  BY <1>1, <1>3, ExitTable, WayTable
<1>4. CASE to = "run_test_idle"
  BY <1>1, <1>4, ExitTable, WayTable
<1>5. CASE to = "capture_ir"
  BY <1>1, <1>5, ExitTable, WayTable
<1>6. CASE to = "shift_ir"
  <2>1. CASE s = "run_test_idle"
    BY <1>1, <1>6, <2>1, ExitTable, WayTable
  <2>2. CASE s = "update_dr"
    BY <1>1, <1>6, <2>2, ExitTable, WayTable
  <2>3. CASE s = "select_dr_scan"
    BY <1>1, <1>6, <2>3, ExitTable, WayTable
  <2>4. CASE s = "select_ir_scan"
    BY <1>1, <1>6, <2>4, ExitTable, WayTable
  <2>5. CASE s = "capture_ir"
    BY <1>1, <1>6, <2>5, ExitTable, WayTable
  <2> QED BY <1>6, <2>1, <2>2, <2>3, <2>4, <2>5, WayTable
<1>7. CASE to = "update_ir"
  BY <1>1, <1>7, ExitTable, WayTable
<1> QED BY <1>2, <1>3, <1>4, <1>5, <1>6, <1>7, WayDomain

-----------------------------------------------------------------------------
(* An edge of TCK keeps the progress of every operation. *)
LEMMA JobTypes ==
    ASSUME NEW r \in DOMAIN Code, NEW w \in Seq(Bit), NEW l \in Seq(Jobs)
    PROVE  Job(r, w) \in Seq(Jobs) /\ Job(r, w) \o l \in Seq(Jobs)
<1>1. Job(r, w) \in Seq(Jobs)
  <2>1. CASE r = "idcode"
    BY <2>1 DEF Job
  <2>2. CASE r # "idcode"
    <3>1. <<r, w>> \in Jobs
      BY <2>2, CodesDiffer DEF Jobs
    <3>2. PICK j \in Jobs : j = <<r, w>>
      BY <3>1
    <3>3. <<j>> \in Seq(Jobs)
      OBVIOUS
    <3> QED BY <2>2, <3>2, <3>3 DEF Job
  <2> QED BY <2>1, <2>2
<1> QED BY <1>1, ConcatProperties

LEMMA SituationTypes ==
    ASSUME NEW b \in Situation
    PROVE  b.reg \in DOMAIN Code /\ b.left \in Seq(Jobs) /\ b.read \in BOOLEAN /\ b.at \in Stops
BY CodesDiffer DEF Situation

LEMMA EdgeOwes ==
    ASSUME TckEdge, ~Acts \/ owed = <<>> PROVE owed' = owed
<1>1. Update
  BY DEF TckEdge
<1> QED BY <1>1 DEF Update, Acts

LEMMA EdgeKept ==
    ASSUME TypeInv, TckEdge, NEW b, Kept(b), ~wire[1].sampled, tap # "capture_dr"
    PROVE  Kept(b)'
<1>1. got' = got /\ captured' = captured
  BY EdgeRegisters
<1> QED BY <1>1 DEF Kept

LEMMA EdgeStill ==
    ASSUME TypeInv, TckEdge, Still, tap \in {"shift_dr", "shift_ir", "run_test_idle"}
    PROVE  Still' /\ tap' = tap /\ sm' = sm
<1>1. /\ Len(wire) \in Nat \ {0} /\ tap' = Exits[tap][wire[1].tms + 1] /\ sm' = sm
      /\ \A i \in 1..Len(wire') : wire'[i] = wire[i + 1] /\ i + 1 \in 1..Len(wire)
  BY EdgeMoves DEF hostVars
<1>2. wire[1].tms = 0
  BY <1>1 DEF Still
<1>3. tap' = tap
  BY <1>1, <1>2, ExitTable
<1> QED BY <1>1, <1>3 DEF Still

LEMMA EdgeUnsampled ==
    ASSUME TypeInv, TckEdge, Unsampled PROVE Unsampled' /\ ~wire[1].sampled
<1>1. /\ Len(wire) \in Nat \ {0}
      /\ \A i \in 1..Len(wire') : wire'[i] = wire[i + 1] /\ i + 1 \in 1..Len(wire)
  BY EdgeMoves
<1> QED BY <1>1 DEF Unsampled

LEMMA EdgeShifts ==
    ASSUME TypeInv, TckEdge, NEW w, NEW k \in Nat, Shifts(w, k)
    PROVE  /\ Shifts(w, k)' /\ wire[1].tdi = w[k - Len(wire) + 1]
           /\ Len(wire) \in 1..k /\ k - Len(wire') = (k - Len(wire)) + 1 /\ k - Len(wire) \in Nat
<1>1. /\ Len(wire) \in Nat \ {0} /\ Len(wire') = Len(wire) - 1
      /\ \A i \in 1..Len(wire') : wire'[i] = wire[i + 1] /\ i + 1 \in 1..Len(wire)
  BY EdgeMoves
<1>2. Len(wire) <= k /\ \A i \in 1..Len(wire) : wire[i].tdi = w[k - Len(wire) + i]
  BY DEF Shifts
<1>3. /\ wire[1].tdi = w[k - Len(wire) + 1] /\ Len(wire) \in 1..k /\ k - Len(wire) \in Nat
      /\ k - Len(wire') = (k - Len(wire)) + 1
  BY <1>1, <1>2
<1>4. ASSUME NEW i \in 1..Len(wire') PROVE wire'[i].tdi = w[k - Len(wire') + i]
  <2>1. wire'[i].tdi = w[k - Len(wire) + (i + 1)]
    BY <1>1, <1>2
  <2>2. k - Len(wire) + (i + 1) = k - Len(wire') + i
    BY <1>1
  <2> QED BY <2>1, <2>2
<1>5. Len(wire') <= k
  BY <1>1, <1>2
<1> QED BY <1>3, <1>4, <1>5 DEF Shifts

LEMMA EdgeIrComing ==
    ASSUME TypeInv, TckEdge, NEW b \in Situation, IrComing(b) PROVE IrComing(b)'
<1>1. PICK w \in Strings :
          /\ steps = <<Put(w), Goto("update_ir")>>
          /\ sm = "shift_ir" /\ InTransit /\ b.at = "update_ir"
          /\ Ftdi => w = Code[b.reg] /\ Owed(b.left) /\ Kept(b)
  BY DEF IrComing
<1>2. steps' = steps /\ sm' = sm
  BY EdgeMoves DEF hostVars
<1>3. InTransit' /\ ~wire[1].sampled /\ tap # "capture_dr" /\ tap' # "update_dr"
  BY <1>1, EdgeInTransit, OnTheWay
<1>4. ASSUME Ftdi PROVE Owed(b.left)' /\ Kept(b)'
  <2>1. Kept(b)'
    BY <1>1, <1>3, <1>4, EdgeKept
  <2>2. Owed(b.left)'
    BY <1>1, <1>3, <1>4, EdgeOwed, OwedAway, SituationTypes
  <2> QED BY <2>1, <2>2
<1>5. Ftdi' <=> Ftdi
  BY DEF Ftdi
<1> QED BY <1>1, <1>2, <1>3, <1>4, <1>5 DEF IrComing

LEMMA EdgeIrShifting ==
    ASSUME TypeInv, TckEdge, NEW b \in Situation, IrShifting(b) PROVE IrShifting(b)'
<1>1. PICK w \in Strings :
          /\ steps = <<Goto("update_ir")>> /\ last = <<w[Len(w)]>>
          /\ sm = "shift_ir" /\ Still /\ Unsampled /\ b.at = "update_ir"
          /\ Ftdi => /\ w = Code[b.reg] /\ Shifts(w, 4) /\ Filled(irShift, w, 4 - Len(wire))
                     /\ Owed(b.left) /\ Kept(b)
  BY DEF IrShifting
<1>2. steps' = steps /\ last' = last
  BY EdgeMoves DEF hostVars
<1>3. Still' /\ Unsampled' /\ tap = "shift_ir" /\ tap' = "shift_ir" /\ sm' = sm /\ ~wire[1].sampled
  BY <1>1, EdgeStill, EdgeUnsampled DEF Still
<1>4. ASSUME Ftdi
      PROVE  Shifts(w, 4)' /\ Filled(irShift, w, 4 - Len(wire))' /\ Owed(b.left)' /\ Kept(b)'
  <2>1. Kept(b)'
    BY <1>1, <1>3, <1>4, EdgeKept
  <2>2. Owed(b.left)'
    BY <1>1, <1>3, <1>4, EdgeOwed, OwedAway, SituationTypes
  <2>3. /\ Shifts(w, 4)' /\ wire[1].tdi = w[4 - Len(wire) + 1] /\ Len(wire) \in 1..4
        /\ 4 - Len(wire') = (4 - Len(wire)) + 1 /\ 4 - Len(wire) \in Nat
    <3>1. 4 \in Nat /\ Shifts(w, 4)
      BY <1>1, <1>4
    <3> QED BY <3>1, EdgeShifts
  <2>4. PICK j \in Nat : j = 4 - Len(wire)
    BY <2>3
  <2>5. /\ irShift' = ShiftIn(irShift, wire[1].tdi) /\ wire[1].tdi \in Bit
        /\ irShift \in Strings /\ j < Len(irShift)
    <3>1. irShift' = ShiftIn(irShift, wire[1].tdi) /\ wire[1].tdi \in Bit
      BY <1>3, EdgeRegisters, EdgeMoves
    <3>2. irShift \in Seq(Bit) /\ Len(irShift) = 5
      BY DEF TypeInv
    <3>3. irShift # <<>>
      BY <3>2, EmptySeq
    <3> QED BY <3>1, <3>2, <3>3, <2>3, <2>4 DEF Strings
  <2>6. Filled(irShift, w, j) /\ wire[1].tdi = w[j + 1]
    BY <1>1, <1>4, <2>3, <2>4
  <2>7. Filled(ShiftIn(irShift, wire[1].tdi), w, j + 1)
    BY <2>5, <2>6, ShiftFills
  <2>8. Filled(irShift, w, 4 - Len(wire))'
    <3>1. 4 - Len(wire') = j + 1
      BY <2>3, <2>4
    <3> QED BY <3>1, <2>5, <2>7 DEF Filled
  <2> QED BY <2>1, <2>2, <2>3, <2>8
<1>5. Ftdi' <=> Ftdi
  BY DEF Ftdi
<1> QED BY <1>1, <1>2, <1>3, <1>4, <1>5 DEF IrShifting

LEMMA EdgeIrLeaving ==
    ASSUME TypeInv, TckEdge, NEW b \in Situation, IrLeaving(b) PROVE IrLeaving(b)'
<1> DEFINE w == Code[b.reg]
<1>1. /\ steps = <<>> /\ sm = "update_ir" /\ b.at = "update_ir" /\ OnWay(w[5])
      /\ Ftdi => /\ IF tap = "shift_ir" THEN Filled(irShift, w, 4) ELSE irShift = w
                 /\ Owed(b.left) /\ Kept(b)
  BY DEF IrLeaving
<1>2. steps' = steps /\ sm' = sm
  BY EdgeMoves DEF hostVars
<1>3. /\ OnWay(w[5])' /\ ~wire[1].sampled /\ (Ftdi => wire[1].tdi = w[5])
      /\ (tap = "shift_ir" /\ tap' = "exit_1_ir") \/ (tap = "exit_1_ir" /\ tap' = "update_ir")
  <2>1. /\ OnWay(w[5])' /\ ~wire[1].sampled /\ (Ftdi => wire[1].tdi = w[5])
        /\ tap # sm /\ tap' = Exits[tap][Head(Way[sm][tap]) + 1]
    BY <1>1, EdgeOnWay
  <2>2. sm \in DOMAIN Way /\ tap \in DOMAIN Way[sm]
    BY <1>1 DEF OnWay
  <2> QED BY <1>1, <2>1, <2>2, OnTheWay
<1>4. ASSUME Ftdi PROVE irShift' = w /\ Owed(b.left)' /\ Kept(b)'
  <2>1. Kept(b)'
    BY <1>1, <1>3, <1>4, EdgeKept
  <2>2. Owed(b.left)'
    BY <1>1, <1>3, <1>4, EdgeOwed, OwedAway, SituationTypes
  <2>3. w \in Strings /\ Len(w) = 5
    BY CodesAreStrings, SituationTypes
  <2>4. CASE tap = "shift_ir"
    <3>1. irShift \in Strings /\ Len(irShift) = 5
      <4>1. irShift \in Seq(Bit) /\ Len(irShift) = 5
        BY DEF TypeInv
      <4> QED BY <4>1, EmptySeq DEF Strings
    <3>2. irShift' = ShiftIn(irShift, wire[1].tdi) /\ wire[1].tdi \in Bit
      BY <2>4, EdgeRegisters, EdgeMoves
    <3>3. Filled(irShift, w, 4) /\ wire[1].tdi = w[4 + 1]
      BY <1>1, <1>3, <1>4, <2>4
    <3>4. 4 \in Nat /\ 4 < Len(irShift)
      BY <3>1
    <3>5. Filled(irShift', w, 4 + 1)
      <4> HIDE DEF w
      <4> QED BY <3>1, <3>2, <3>3, <3>4, ShiftFills
    <3>6. irShift' \in Seq(Bit) /\ Len(irShift') = Len(w)
      BY <2>3, <3>1, <3>2, ShiftTypes DEF Strings
    <3>7. Filled(irShift', w, Len(w)) /\ w \in Seq(Bit)
      BY <2>3, <3>5 DEF Strings
    <3> QED BY <3>6, <3>7, FilledUp, <2>1, <2>2
  <2>5. CASE tap = "exit_1_ir"
    <3>1. irShift' = irShift
      BY <2>5, EdgeRegisters
    <3> QED BY <1>1, <1>4, <2>5, <3>1, <2>1, <2>2
  <2> QED BY <1>3, <2>4, <2>5
<1>5. Ftdi' <=> Ftdi
  BY DEF Ftdi
<1> QED BY <1>1, <1>2, <1>3, <1>4, <1>5 DEF IrLeaving

LEMMA EdgeDrComing ==
    ASSUME TypeInv, TckEdge, NEW b \in Situation, DrComing(b) PROVE DrComing(b)'
<1>1. PICK w \in Strings :
          /\ steps = <<Put(w), Goto("update_dr")>>
          /\ sm = "shift_dr" /\ InTransit /\ b.at = "update_dr"
          /\ Ftdi => /\ InForce(b.reg) /\ Len(w) = Size(b.reg) /\ ~b.read /\ got = <<>>
                     /\ Owed(Job(b.reg, w) \o b.left)
                     /\ tap = "shift_dr" => Len(dr) = Len(w)
  BY DEF DrComing
<1>2. steps' = steps /\ sm' = sm
  BY EdgeMoves DEF hostVars
<1>3. /\ InTransit' /\ ~wire[1].sampled /\ tap \notin {"exit_1_ir", "exit_2_ir", "shift_dr"}
      /\ tap' \notin {"test_logic_reset", "update_ir", "update_dr"}
      /\ (tap' = "shift_dr" <=> tap = "capture_dr")
  BY <1>1, EdgeInTransit, OnTheWay
<1>4. ASSUME Ftdi
      PROVE  /\ InForce(b.reg)' /\ Owed(Job(b.reg, w) \o b.left)' /\ got' = <<>>
             /\ tap' = "shift_dr" => Len(dr') = Len(w)
  <2>1. InForce(b.reg)'
    BY <1>1, <1>3, <1>4, EdgeInForce, SituationTypes
  <2>2. Owed(Job(b.reg, w) \o b.left)'
    <3>1. Job(b.reg, w) \o b.left \in Seq(Jobs)
      BY SituationTypes, JobTypes DEF Strings
    <3>2. PICK l \in Seq(Jobs) : l = Job(b.reg, w) \o b.left
      BY <3>1
    <3>3. Owed(l)'
      BY <3>2, <1>1, <1>3, <1>4, EdgeOwed, OwedAway
    <3> QED BY <3>2, <3>3
  <2>3. got' = <<>>
    BY <1>1, <1>3, <1>4, EdgeRegisters
  <2>4. ASSUME tap = "capture_dr" PROVE Len(dr') = Len(w)
    <3>1. Selected = b.reg /\ b.reg # "bypass"
      BY <2>4, <1>1, <1>4, SelectedIsThatOfIr, SituationTypes, CodesDiffer DEF InForce
    <3>2. dr' \in Loaded
      BY <2>4, EdgeRegisters
    <3> QED BY <3>1, <3>2, <1>1, <1>4, LoadedFits
  <2> QED BY <2>1, <2>2, <2>3, <2>4, <1>3
<1>5. Ftdi' <=> Ftdi
  BY DEF Ftdi
<1> QED BY <1>1, <1>2, <1>3, <1>4, <1>5 DEF DrComing

LEMMA EdgeRdComing ==
    ASSUME TypeInv, TckEdge, NEW b \in Situation, RdComing(b) PROVE RdComing(b)'
<1>1. PICK k \in Nat \ {0} :
          /\ steps = <<Get(k), Goto("update_dr")>> /\ last = <<>>
          /\ sm = "shift_dr" /\ InTransit /\ b.at = "update_dr"
          /\ Ftdi => /\ InForce(b.reg) /\ k = Size(b.reg) /\ b.read
                     /\ Owed(Job(b.reg, Zeros(k)) \o b.left)
                     /\ tap = "shift_dr" => Len(dr) = k /\ dr = captured
  BY DEF RdComing
<1>2. steps' = steps /\ sm' = sm /\ last' = last
  BY EdgeMoves DEF hostVars
<1>3. /\ InTransit' /\ ~wire[1].sampled /\ tap \notin {"exit_1_ir", "exit_2_ir", "shift_dr"}
      /\ tap' \notin {"test_logic_reset", "update_ir", "update_dr"}
      /\ (tap' = "shift_dr" <=> tap = "capture_dr")
  BY <1>1, EdgeInTransit, OnTheWay
<1>4. ASSUME Ftdi
      PROVE  /\ InForce(b.reg)' /\ Owed(Job(b.reg, Zeros(k)) \o b.left)'
             /\ tap' = "shift_dr" => Len(dr') = k /\ dr' = captured'
  <2>1. InForce(b.reg)'
    BY <1>1, <1>3, <1>4, EdgeInForce, SituationTypes
  <2>2. Owed(Job(b.reg, Zeros(k)) \o b.left)'
    <3>1. Job(b.reg, Zeros(k)) \o b.left \in Seq(Jobs)
      BY SituationTypes, JobTypes, ZerosAreStrings DEF Strings
    <3>2. PICK l \in Seq(Jobs) : l = Job(b.reg, Zeros(k)) \o b.left
      BY <3>1
    <3>3. Owed(l)'
      BY <3>2, <1>1, <1>3, <1>4, EdgeOwed, OwedAway
    <3> QED BY <3>2, <3>3
  <2>3. ASSUME tap = "capture_dr" PROVE Len(dr') = k /\ dr' = captured'
    <3>1. Selected = b.reg /\ b.reg # "bypass"
      BY <2>3, <1>1, <1>4, SelectedIsThatOfIr, SituationTypes, CodesDiffer DEF InForce
    <3>2. dr' \in Loaded /\ captured' = dr'
      BY <2>3, EdgeRegisters
    <3> QED BY <3>1, <3>2, <1>1, <1>4, LoadedFits
  <2> QED BY <2>1, <2>2, <2>3, <1>3
<1>5. Ftdi' <=> Ftdi
  BY DEF Ftdi
<1> QED BY <1>1, <1>2, <1>3, <1>4, <1>5 DEF RdComing

LEMMA EdgeDelivering ==
    ASSUME TypeInv, TckEdge, NEW b \in Situation, NEW w, Delivering(w, b),
           tap \in {"shift_dr", "exit_1_dr"}
    PROVE  Delivering(w, b)'
<1>1. tap' # "test_logic_reset" /\ owed' = owed
  <2>1. PICK t \in Bit : tap' = Exits[tap][t + 1]
    BY EdgeMoves
  <2>2. tap' # "test_logic_reset"
    BY <2>1, ExitTable DEF Bit
  <2>3. owed' = owed
    BY EdgeOwes DEF Acts
  <2> QED BY <2>2, <2>3
<1>2. InForce(b.reg)'
  BY <1>1, EdgeInForce, SituationTypes DEF Delivering
<1> QED BY <1>1, <1>2 DEF Delivering

LEMMA EdgeDrShifting ==
    ASSUME TypeInv, TckEdge, NEW b \in Situation, DrShifting(b) PROVE DrShifting(b)'
<1>1. PICK w \in Strings :
          /\ steps = <<Goto("update_dr")>> /\ last = <<w[Len(w)]>>
          /\ sm = "shift_dr" /\ Still /\ Unsampled /\ b.at = "update_dr"
          /\ Ftdi => /\ Delivering(w, b) /\ Shifts(w, Len(w) - 1) /\ ~b.read /\ got = <<>>
                     /\ Len(dr) = Len(w) /\ Filled(dr, w, Len(w) - 1 - Len(wire))
  BY DEF DrShifting
<1>2. steps' = steps /\ last' = last
  BY EdgeMoves DEF hostVars
<1>3. Still' /\ Unsampled' /\ tap = "shift_dr" /\ sm' = sm /\ ~wire[1].sampled
  BY <1>1, EdgeStill, EdgeUnsampled DEF Still
<1>4. ASSUME Ftdi
      PROVE  /\ Delivering(w, b)' /\ Shifts(w, Len(w) - 1)' /\ got' = <<>>
             /\ Len(dr') = Len(w) /\ Filled(dr', w, Len(w) - 1 - Len(wire'))
  <2>1. Delivering(w, b)' /\ got' = <<>>
    BY <1>1, <1>3, <1>4, EdgeDelivering, EdgeRegisters
  <2>2. PICK k \in Nat : k = Len(w) - 1
    <3>1. Len(w) \in Nat \ {0}
      BY EmptySeq DEF Strings
    <3> QED BY <3>1
  <2>3. /\ Shifts(w, k)' /\ wire[1].tdi = w[k - Len(wire) + 1] /\ Len(wire) \in 1..k
        /\ k - Len(wire') = (k - Len(wire)) + 1 /\ k - Len(wire) \in Nat
    <3>1. Shifts(w, k)
      BY <1>1, <1>4, <2>2
    <3> QED BY <3>1, EdgeShifts
  <2>4. PICK j \in Nat : j = k - Len(wire)
    BY <2>3
  <2>5. /\ dr' = ShiftIn(dr, wire[1].tdi) /\ wire[1].tdi \in Bit
        /\ dr \in Strings /\ j < Len(dr)
    <3>1. dr' = ShiftIn(dr, wire[1].tdi) /\ wire[1].tdi \in Bit /\ dr \in Strings
      BY <1>3, EdgeRegisters, EdgeMoves DEF TypeInv
    <3>2. Len(dr) \in Nat \ {0} /\ Len(dr) = Len(w)
      BY <3>1, <1>1, <1>4, EmptySeq DEF Strings
    <3> QED BY <3>1, <3>2, <2>2, <2>3, <2>4
  <2>6. Filled(dr, w, j) /\ wire[1].tdi = w[j + 1]
    BY <1>1, <1>4, <2>2, <2>3, <2>4
  <2>7. Filled(dr', w, j + 1) /\ Len(dr') = Len(dr)
    BY <2>5, <2>6, ShiftFills, ShiftTypes
  <2>8. Len(w) - 1 - Len(wire') = j + 1
    BY <2>2, <2>3, <2>4
  <2>9. Shifts(w, Len(w) - 1)'
    BY <2>2, <2>3
  <2> QED BY <1>1, <1>4, <2>1, <2>7, <2>8, <2>9
<1>5. Ftdi' <=> Ftdi
  BY DEF Ftdi
<1> QED BY <1>1, <1>2, <1>3, <1>4, <1>5 DEF DrShifting

LEMMA EdgeRdShifting ==
    ASSUME TypeInv, TckEdge, NEW b \in Situation, RdShifting(b) PROVE RdShifting(b)'
<1>1. PICK k \in Nat \ {0} :
          /\ steps = <<Goto("update_dr")>> /\ last = <<>>
          /\ sm = "shift_dr" /\ Still /\ b.at = "update_dr"
          /\ \A i \in 1..Len(wire) : wire[i].sampled /\ wire[i].tdi = 0
          /\ Ftdi => /\ Delivering(Zeros(k), b) /\ b.read /\ Len(wire) <= k
                     /\ Len(dr) = k /\ Filled(dr, Zeros(k), k - Len(wire))
                     /\ \A i \in 1..Len(wire) : dr[i] = captured[k - Len(wire) + i]
                     /\ Len(captured) = k /\ Len(got) = k - Len(wire)
                     /\ \A i \in 1..Len(got) : got[i] = captured[i]
  BY DEF RdShifting
<1>2. steps' = steps /\ last' = last
  BY EdgeMoves DEF hostVars
<1>3. Still' /\ tap = "shift_dr" /\ sm' = sm
  BY <1>1, EdgeStill DEF Still
<1>4. /\ Len(wire) \in Nat \ {0} /\ Len(wire') = Len(wire) - 1
      /\ \A i \in 1..Len(wire') : wire'[i] = wire[i + 1] /\ i + 1 \in 1..Len(wire)
  BY EdgeMoves
<1>5. wire[1].sampled /\ wire[1].tdi = 0 /\ \A i \in 1..Len(wire') : wire'[i].sampled /\ wire'[i].tdi = 0
  BY <1>1, <1>4
<1>6. ASSUME Ftdi
      PROVE  /\ Delivering(Zeros(k), b)' /\ Len(wire') <= k
             /\ Len(dr') = k /\ Filled(dr', Zeros(k), k - Len(wire'))
             /\ \A i \in 1..Len(wire') : dr'[i] = captured'[k - Len(wire') + i]
             /\ Len(captured') = k /\ Len(got') = k - Len(wire')
             /\ \A i \in 1..Len(got') : got'[i] = captured'[i]
  <2>1. Delivering(Zeros(k), b)'
    BY <1>1, <1>3, <1>6, EdgeDelivering
  <2>2. /\ dr' = ShiftIn(dr, 0) /\ 0 \in Bit /\ captured' = captured /\ got' = Append(got, dr[1])
        /\ dr \in Strings /\ got \in Seq(Bit)
    BY <1>3, <1>5, EdgeRegisters DEF TypeInv, Bit
  <2>3. PICK j \in Nat : j = k - Len(wire) /\ j < k
    BY <1>1, <1>4, <1>6
  <2>4. /\ Len(dr') = k /\ \A i \in 1 .. k - 1 : dr'[i] = dr[i + 1]
    <3>1. Len(dr) = k
      BY <1>1, <1>6
    <3>2. Len(dr') = Len(dr) /\ \A i \in 1 .. Len(dr) - 1 : dr'[i] = dr[i + 1]
      BY <2>2, ShiftTypes
    <3> QED BY <3>1, <3>2
  <2>5. Filled(dr', Zeros(k), k - Len(wire'))
    <3>1. Filled(dr, Zeros(k), j) /\ j < Len(dr) /\ 0 = Zeros(k)[j + 1]
      BY <1>1, <1>6, <2>3 DEF Zeros
    <3>2. Filled(dr', Zeros(k), j + 1)
      BY <3>1, <2>2, ShiftFills
    <3>3. k - Len(wire') = j + 1
      BY <1>4, <2>3
    <3> QED BY <3>2, <3>3
  <2>6. ASSUME NEW i \in 1..Len(wire') PROVE dr'[i] = captured'[k - Len(wire') + i]
    <3>1. dr'[i] = dr[i + 1] /\ i + 1 \in 1..Len(wire)
      BY <2>3, <2>4, <1>4
    <3>2. dr[i + 1] = captured[k - Len(wire) + (i + 1)]
      BY <3>1, <1>1, <1>6
    <3>3. k - Len(wire) + (i + 1) = k - Len(wire') + i
      BY <1>4
    <3> QED BY <3>1, <3>2, <3>3, <2>2
  <2>7. dr[1] \in Bit /\ dr[1] = captured[j + 1]
    <3>1. dr[1] = captured[k - Len(wire) + 1]
      BY <1>1, <1>4, <1>6
    <3>2. dr \in Seq(Bit) /\ 1 \in 1..Len(dr)
      BY <1>1, <1>6, <2>2 DEF Strings
    <3>3. dr[1] \in Bit
      BY <3>2, ElementOfSeq
    <3> QED BY <3>1, <3>3, <2>3
  <2>8. /\ Len(got') = j + 1 /\ got'[j + 1] = captured[j + 1]
        /\ \A i \in 1..j : got'[i] = captured[i]
    <3>1. Len(got) = j /\ \A i \in 1..j : got[i] = captured[i]
      BY <1>1, <1>6, <2>3
    <3>2. /\ Len(got') = Len(got) + 1 /\ got'[Len(got) + 1] = dr[1]
          /\ \A i \in 1..Len(got) : got'[i] = got[i]
      BY <2>2, <2>7, AppendProperties
    <3> QED BY <3>1, <3>2, <2>7
  <2>9. Len(got') = k - Len(wire') /\ \A i \in 1..Len(got') : got'[i] = captured'[i]
    <3>1. k - Len(wire') = j + 1
      BY <2>3, <1>4
    <3>2. ASSUME NEW i \in 1 .. j + 1 PROVE got'[i] = captured[i]
      BY <2>3, <2>8
    <3> QED BY <2>2, <2>8, <3>1, <3>2
  <2>10. Len(wire') <= k /\ Len(captured') = k
    BY <1>1, <1>4, <1>6, <2>2
  <2> QED BY <2>1, <2>4, <2>5, <2>6, <2>9, <2>10
<1>7. Ftdi' <=> Ftdi
  BY DEF Ftdi
<1> QED BY <1>1, <1>2, <1>3, <1>5, <1>6, <1>7 DEF RdShifting

LEMMA EdgeDrLeaving ==
    ASSUME TypeInv, TckEdge, NEW b \in Situation, DrLeaving(b) PROVE DrLeaving(b)'
<1>1. PICK w \in Strings :
          /\ steps = <<>> /\ sm = "update_dr" /\ b.at = "update_dr"
          /\ OnWay(w[Len(w)])
          /\ Ftdi => /\ Delivering(w, b) /\ Kept(b) /\ (b.read => w = Zeros(Size(b.reg)))
                     /\ Len(dr) = Len(w)
                     /\ IF tap = "shift_dr" THEN Filled(dr, w, Len(w) - 1) ELSE dr = w
  BY DEF DrLeaving
<1>2. steps' = steps /\ sm' = sm
  BY EdgeMoves DEF hostVars
<1>3. /\ OnWay(w[Len(w)])' /\ ~wire[1].sampled /\ (Ftdi => wire[1].tdi = w[Len(w)])
      /\ (tap = "shift_dr" /\ tap' = "exit_1_dr") \/ (tap = "exit_1_dr" /\ tap' = "update_dr")
  <2>1. /\ OnWay(w[Len(w)])' /\ ~wire[1].sampled /\ (Ftdi => wire[1].tdi = w[Len(w)])
        /\ tap # sm /\ tap' = Exits[tap][Head(Way[sm][tap]) + 1]
    BY <1>1, EdgeOnWay
  <2>2. sm \in DOMAIN Way /\ tap \in DOMAIN Way[sm]
    BY <1>1 DEF OnWay
  <2> QED BY <1>1, <2>1, <2>2, OnTheWay
<1>4. ASSUME Ftdi PROVE dr' = w /\ Delivering(w, b)' /\ Kept(b)'
  <2>1. Kept(b)' /\ Delivering(w, b)'
    BY <1>1, <1>3, <1>4, EdgeKept, EdgeDelivering
  <2>2. w \in Seq(Bit) /\ Len(w) \in Nat \ {0} /\ dr \in Strings
    BY EmptySeq DEF Strings, TypeInv
  <2>3. CASE tap = "shift_dr"
    <3>1. dr' = ShiftIn(dr, wire[1].tdi) /\ wire[1].tdi \in Bit
      BY <2>3, EdgeRegisters, EdgeMoves
    <3>2. PICK j \in Nat : j = Len(w) - 1 /\ j + 1 = Len(w)
      BY <2>2
    <3>3. Filled(dr, w, j) /\ wire[1].tdi = w[j + 1] /\ j < Len(dr)
      BY <1>1, <1>3, <1>4, <2>2, <2>3, <3>2
    <3>4. Filled(dr', w, Len(w))
      BY <2>2, <3>1, <3>2, <3>3, ShiftFills
    <3>5. dr' \in Seq(Bit) /\ Len(dr') = Len(w)
      BY <1>1, <1>4, <2>2, <3>1, ShiftTypes DEF Strings
    <3> QED BY <2>1, <2>2, <3>4, <3>5, FilledUp
  <2>4. CASE tap = "exit_1_dr"
    <3>1. dr' = dr
      BY <2>4, EdgeRegisters
    <3> QED BY <1>1, <1>4, <2>1, <2>4, <3>1
  <2> QED BY <1>3, <2>3, <2>4
<1>5. Ftdi' <=> Ftdi
  BY DEF Ftdi
<1> QED BY <1>1, <1>2, <1>3, <1>4, <1>5 DEF DrLeaving

LEMMA EdgeArriving ==
    ASSUME TypeInv, TckEdge, NEW b \in Situation, Arriving(b) PROVE Arriving(b)'
<1>1. /\ steps = <<>> /\ sm = b.at /\ b.at \in {"run_test_idle", "capture_ir"} /\ InTransit
      /\ Ftdi => InForce(b.reg) /\ Owed(b.left) /\ Kept(b)
  BY DEF Arriving
<1>2. steps' = steps /\ sm' = sm
  BY EdgeMoves DEF hostVars
<1>3. /\ InTransit' /\ ~wire[1].sampled /\ tap \notin {"exit_1_ir", "exit_2_ir", "capture_dr"}
      /\ tap' \notin {"test_logic_reset", "update_dr"}
  <2>1. /\ InTransit' /\ ~wire[1].sampled /\ tap # sm /\ sm \in DOMAIN Way /\ tap \in DOMAIN Way[sm]
        /\ tap' = Exits[tap][Head(Way[sm][tap]) + 1]
    BY <1>1, EdgeInTransit
  <2>2. CASE sm = "run_test_idle"
    BY <2>1, <2>2, OnTheWay
  <2>3. CASE sm = "capture_ir"
    BY <2>1, <2>3, OnTheWay
  <2> QED BY <1>1, <2>2, <2>3
<1>4. ASSUME Ftdi PROVE InForce(b.reg)' /\ Owed(b.left)' /\ Kept(b)'
  BY <1>1, <1>3, <1>4, EdgeInForce, EdgeKept, EdgeOwed, OwedAway, SituationTypes
<1>5. Ftdi' <=> Ftdi
  BY DEF Ftdi
<1> QED BY <1>1, <1>2, <1>3, <1>4, <1>5 DEF Arriving

LEMMA EdgePushComing ==
    ASSUME TypeInv, TckEdge, NEW b \in Situation, PushComing(b) PROVE PushComing(b)'
<1>1. /\ \E w \in Seq(Bit) : steps = <<Push(w)>>
      /\ sm = "shift_ir" /\ b.at = "shift_ir" /\ tap \in {"capture_ir", "shift_ir"} /\ InTransit
      /\ Ftdi => InForce(b.reg) /\ Owed(b.left) /\ Kept(b)
  BY DEF PushComing
<1>2. steps' = steps /\ sm' = sm
  BY EdgeMoves DEF hostVars
<1>3. InTransit' /\ ~wire[1].sampled /\ tap = "capture_ir" /\ tap' = "shift_ir"
  BY <1>1, EdgeInTransit, OnTheWay
<1>4. ASSUME Ftdi PROVE InForce(b.reg)' /\ Owed(b.left)' /\ Kept(b)'
  BY <1>1, <1>3, <1>4, EdgeInForce, EdgeKept, EdgeOwed, OwedAway, SituationTypes
<1>5. Ftdi' <=> Ftdi
  BY DEF Ftdi
<1> QED BY <1>1, <1>2, <1>3, <1>4, <1>5 DEF PushComing

LEMMA EdgeStaying ==
    ASSUME TypeInv, TckEdge, NEW b \in Situation, Staying(b) PROVE Staying(b)'
<1>1. /\ steps = <<>> /\ sm = b.at /\ b.at \in {"run_test_idle", "shift_ir"} /\ Still /\ Unsampled
      /\ Ftdi => InForce(b.reg) /\ Owed(b.left) /\ Kept(b)
  BY DEF Staying
<1>2. steps' = steps /\ sm' = sm
  BY EdgeMoves DEF hostVars
<1>3. /\ Still' /\ Unsampled' /\ ~wire[1].sampled /\ tap' = tap
      /\ tap \in {"run_test_idle", "shift_ir"}
  BY <1>1, EdgeStill, EdgeUnsampled DEF Still
<1>4. ASSUME Ftdi PROVE InForce(b.reg)' /\ Owed(b.left)' /\ Kept(b)'
  BY <1>1, <1>3, <1>4, EdgeInForce, EdgeKept, EdgeOwed, OwedAway, SituationTypes
<1>5. Ftdi' <=> Ftdi
  BY DEF Ftdi
<1> QED BY <1>1, <1>2, <1>3, <1>4, <1>5 DEF Staying

(* Five ones lead from anywhere to Test-Logic-Reset. *)
LEMMA OnesLeadOn ==
    ASSUME NEW n \in Nat \ {0}, NEW s \in OnesLead(n)
    PROVE  Exits[s][2] \in OnesLead(n - 1)
<1>1. s \in States
  BY ExitTable DEF OnesLead
<1>2. CASE s = "test_logic_reset"
  BY <1>2, ExitTable DEF OnesLead
<1>3. CASE s = "select_ir_scan"
  BY <1>3, ExitTable DEF OnesLead
<1>4. CASE s = "select_dr_scan"
  BY <1>4, ExitTable DEF OnesLead
<1>5. CASE s \in {"run_test_idle", "update_dr", "update_ir"}
  BY <1>5, ExitTable DEF OnesLead
<1>6. CASE s \in {"exit_1_dr", "exit_2_dr", "exit_1_ir", "exit_2_ir"}
  BY <1>6, ExitTable DEF OnesLead
<1>7. CASE s \in {"capture_dr", "shift_dr", "pause_dr", "capture_ir", "shift_ir", "pause_ir"}
  BY <1>7, ExitTable DEF OnesLead
<1> QED BY <1>1, <1>2, <1>3, <1>4, <1>5, <1>6, <1>7, ExitTable

LEMMA EdgeResetting ==
    ASSUME TypeInv, TckEdge, NEW b \in Situation, Resetting(b) PROVE Resetting(b)'
<1>1. /\ steps = <<>> /\ Cold(b) /\ tap \in OnesLead(Len(wire))
      /\ Unsampled /\ \A i \in 1..Len(wire) : wire[i].tms = 1
  BY DEF Resetting
<1>2. /\ Len(wire) \in Nat \ {0} /\ Len(wire') = Len(wire) - 1 /\ steps' = steps /\ sm' = sm
      /\ opened' = opened /\ tap' = Exits[tap][wire[1].tms + 1]
      /\ \A i \in 1..Len(wire') : wire'[i] = wire[i + 1] /\ i + 1 \in 1..Len(wire)
  BY EdgeMoves DEF hostVars
<1>3. wire[1].tms = 1 /\ \A i \in 1..Len(wire') : wire'[i].tms = 1
  BY <1>1, <1>2
<1>4. tap' \in OnesLead(Len(wire'))
  BY <1>1, <1>2, <1>3, OnesLeadOn
<1>5. Unsampled' /\ ~wire[1].sampled
  BY <1>1, EdgeUnsampled
<1>6. owed' = owed /\ got' = got
  BY <1>1, <1>5, EdgeOwes, EdgeRegisters DEF Cold
<1>7. Cold(b)'
  BY <1>1, <1>2, <1>6 DEF Cold
<1> QED BY <1>1, <1>2, <1>3, <1>4, <1>5, <1>7 DEF Resetting

LEMMA EdgeDoing ==
    ASSUME TypeInv, TckEdge, NEW b \in Situation, Doing(b) PROVE Doing(b)'
<1>1. wire # <<>>
  BY EdgeMoves
<1>2. ~AtRest(b) /\ ~Ready(b) /\ ~ToReset(b)
  BY <1>1 DEF AtRest, Ready, ToReset, Settled
<1>3. \/ IrComing(b) \/ IrShifting(b) \/ IrLeaving(b) \/ DrComing(b) \/ DrShifting(b)
      \/ RdComing(b) \/ RdShifting(b) \/ DrLeaving(b)
      \/ Arriving(b) \/ PushComing(b) \/ Staying(b) \/ Resetting(b)
  BY <1>2 DEF Doing
<1>4. \/ IrComing(b)' \/ IrShifting(b)' \/ IrLeaving(b)' \/ DrComing(b)' \/ DrShifting(b)'
      \/ RdComing(b)' \/ RdShifting(b)' \/ DrLeaving(b)'
      \/ Arriving(b)' \/ PushComing(b)' \/ Staying(b)' \/ Resetting(b)'
  BY <1>3, EdgeIrComing, EdgeIrShifting, EdgeIrLeaving, EdgeDrComing, EdgeDrShifting, EdgeRdComing,
     EdgeRdShifting, EdgeDrLeaving, EdgeArriving, EdgePushComing, EdgeStaying, EdgeResetting
<1> QED BY <1>4 DEF Doing

-----------------------------------------------------------------------------
(* What the operations of the controller put on the wire. *)
Sent == wire' \in Seq(Edges) /\ last' \in {<<>>} \cup {<<x>> : x \in Bit} /\ got' \in Seq(Bit)

LEMMA OpLeaves ==
    ASSUME TypeInv, ControllerOp
    PROVE  /\ wire = <<>> /\ steps # <<>> /\ Send(Head(steps)) /\ steps' = Tail(steps)
           /\ UNCHANGED <<opened, currentir, plan, tap, irShift, ir, dr, owed, captured>>
           /\ last \in {<<>>} \cup {<<x>> : x \in Bit} /\ got \in Seq(Bit)
BY DEF ControllerOp, tapVars, TypeInv

LEMMA OpTypes ==
    ASSUME TypeInv, ControllerOp, Sent, sm' \in States PROVE TypeInv'
<1>1. Tail(steps) \in Calling
  <2>1. steps \in Seq(Ops) /\ steps # <<>>
    BY OpLeaves DEF TypeInv, Calling
  <2> QED BY <2>1, HeadTailProperties DEF Calling
<1>2. /\ steps' = Tail(steps)
      /\ UNCHANGED <<opened, currentir, plan, tap, irShift, ir, dr, owed, captured>>
  BY OpLeaves
<1> QED BY <1>1, <1>2 DEF TypeInv, Sent

LEMMA EdgesFromBits ==
    ASSUME NEW n \in Nat, NEW f \in [1..n -> Edges] PROVE f \in Seq(Edges) /\ Len(f) = n
OBVIOUS

LEMMA HeldBits ==
    ASSUME TypeInv
    PROVE  /\ (IF last = <<>> THEN 0 ELSE last[1]) \in Bit
           /\ \A i : HeldBit(i) \in Bit
           /\ Ftdi => \A i : HeldBit(i) = IF last = <<>> THEN 0 ELSE last[1]
<1>1. 0 \in Bit
  BY DEF Bit
<1>2. CASE last = <<>>
  BY <1>1, <1>2 DEF HeldBit
<1>3. CASE last # <<>>
  <2>1. PICK x \in Bit : last = <<x>>
    BY <1>3 DEF TypeInv
  <2>2. last[1] = x
    BY <2>1
  <2> QED BY <1>1, <1>3, <2>2 DEF HeldBit, Ftdi
<1> QED BY <1>2, <1>3

LEMMA TmsEdgesOf ==
    ASSUME TypeInv, NEW e \in Seq(Bit)
    PROVE  /\ TmsEdges(e) \in Seq(Edges) /\ Len(TmsEdges(e)) = Len(e)
           /\ \A i \in 1..Len(e) : /\ TmsEdges(e)[i].tms = e[i] /\ ~TmsEdges(e)[i].sampled
                                   /\ TmsEdges(e)[i].tdi = HeldBit(i)
<1>1. Len(e) \in Nat /\ \A i \in 1..Len(e) : e[i] \in Bit
  BY LenProperties, ElementOfSeq
<1>2. \A i \in 1..Len(e) : TmsEdges(e)[i] = Edge(e[i], HeldBit(i))
  BY DEF TmsEdges
<1>3. TmsEdges(e) \in [1..Len(e) -> Edges]
  BY <1>1, HeldBits DEF TmsEdges, Edges, Edge
<1> QED BY <1>1, <1>2, <1>3, EdgesFromBits DEF Edge

LEMMA GotoSends ==
    ASSUME TypeInv, ControllerOp, NEW to, Head(steps) = Goto(to), tap = sm, <<sm, to>> \in Gotos,
           NEW x \in Bit, Ftdi => x = IF last = <<>> THEN 0 ELSE last[1]
    PROVE  /\ OnWay(x)' /\ sm' = to /\ got' = got /\ TypeInv'
           /\ sm # to => last' = <<>>
<1>1. Send(Goto(to)) /\ tap' = tap /\ got \in Seq(Bit)
  BY OpLeaves
<1>2. SendTms(find_path(sm, to), to)
  BY <1>1 DEF Send, Goto
<1>3. PICK g \in Gotos : g = <<sm, to>>
  OBVIOUS
<1>4. g[1] = sm /\ g[2] = to
  BY <1>3
<1>5. to \in DOMAIN Way /\ sm \in DOMAIN Way[to] /\ find_path(sm, to) = Way[to][sm]
  BY <1>3, <1>4, PathIsTheWay
<1>6. PICK e : e = Way[to][sm]
  OBVIOUS
<1>7. e \in Seq(Bit)
  BY <1>5, <1>6, WaysAreBits
<1>8. wire' = TmsEdges(e) /\ sm' = to /\ last' = (IF e = <<>> THEN last ELSE <<>>) /\ got' = got
  BY <1>2, <1>5, <1>6 DEF SendTms
<1>9. OnWay(x)'
  <2>1. Len(wire') = Len(Way[sm'][tap']) /\ sm' \in DOMAIN Way /\ tap' \in DOMAIN Way[sm']
    BY <1>1, <1>5, <1>6, <1>7, <1>8, TmsEdgesOf
  <2>2. ASSUME NEW i \in 1..Len(wire')
        PROVE  wire'[i].tms = Way[sm'][tap'][i] /\ ~wire'[i].sampled /\ (Ftdi => wire'[i].tdi = x)
    <3>1. /\ wire'[i].tms = e[i] /\ ~wire'[i].sampled /\ wire'[i].tdi = HeldBit(i)
      BY <1>7, <1>8, TmsEdgesOf
    <3>2. Ftdi => HeldBit(i) = x
      BY HeldBits
    <3> QED BY <3>1, <3>2, <1>1, <1>6, <1>8
  <2> QED BY <2>1, <2>2 DEF OnWay, Ftdi
<1>10. sm # to => last' = <<>>
  <2>1. sm # to => e # <<>>
    BY <1>5, <1>6, WayGoesOn
  <2> QED BY <2>1, <1>8
<1>11. TypeInv'
  <2>1. sm' \in States
    BY <1>5, <1>8, WayDomain
  <2>2. Sent
    BY <1>1, <1>7, <1>8, TmsEdgesOf, OpLeaves DEF Sent
  <2> QED BY <2>1, <2>2, OpTypes
<1> QED BY <1>8, <1>9, <1>10, <1>11

LEMMA ShiftedOf ==
    ASSUME NEW e \in Seq(Bit)
    PROVE  /\ Shifted(e) \in Seq(Edges) /\ Len(Shifted(e)) = Len(e)
           /\ \A i \in 1..Len(e) : /\ Shifted(e)[i].tms = 0 /\ ~Shifted(e)[i].sampled
                                   /\ Shifted(e)[i].tdi = e[i]
<1>1. Len(e) \in Nat /\ \A i \in 1..Len(e) : e[i] \in Bit
  BY LenProperties, ElementOfSeq
<1>2. \A i \in 1..Len(e) : Shifted(e)[i] = Edge(0, e[i])
  BY DEF Shifted
<1>3. Shifted(e) \in [1..Len(e) -> Edges]
  BY <1>1 DEF Shifted, Edges, Edge, Bit
<1> QED BY <1>1, <1>2, <1>3, EdgesFromBits DEF Edge

LEMMA PutSends ==
    ASSUME TypeInv, ControllerOp, NEW w \in Strings, Head(steps) = Put(w), tap = sm
    PROVE  /\ Still' /\ Unsampled' /\ Shifts(w, Len(w) - 1)' /\ Len(wire') = Len(w) - 1
           /\ last' = <<w[Len(w)]>> /\ sm' = sm /\ got' = got /\ TypeInv'
<1>1. Send(Put(w)) /\ tap' = tap /\ got \in Seq(Bit) /\ sm \in States
  BY OpLeaves DEF TypeInv
<1>2. wire' = Shifted(Front(w)) /\ last' = <<w[Len(w)]>> /\ sm' = sm /\ got' = got
  BY <1>1 DEF Send, Put, Last
<1>3. w \in Seq(Bit) /\ Len(w) \in Nat \ {0} /\ \A i \in 1..Len(w) : w[i] \in Bit
  BY EmptySeq, ElementOfSeq DEF Strings
<1>4. PICK f : f = Front(w)
  OBVIOUS
<1>5. f \in Seq(Bit) /\ Len(f) = Len(w) - 1 /\ \A i \in 1 .. Len(w) - 1 : f[i] = w[i]
  <2>1. PICK n \in Nat : n = Len(w) - 1
    <3>1. Len(w) \in Nat \ {0}
      BY <1>3
    <3>2. Len(w) - 1 \in Nat
      BY <3>1
    <3> QED BY <3>2
  <2>2. f = SubSeq(w, 1, n)
    BY <1>4, <2>1 DEF Front
  <2>3. 1 \in Int /\ n \in Int /\ \A i \in 1..n : w[i] \in Bit
    BY <1>3, <2>1
  <2>4. /\ f \in Seq(Bit)
        /\ Len(f) = IF 1 <= n THEN n - 1 + 1 ELSE 0
        /\ \A i \in 1 .. n - 1 + 1 : f[i] = w[1 + i - 1]
    BY <2>2, <2>3, SubSeqProperties
  <2>5. Len(f) = n
    BY <2>4
  <2>6. ASSUME NEW i \in 1..n PROVE f[i] = w[i]
    <3>1. i \in 1 .. n - 1 + 1 /\ 1 + i - 1 = i
      OBVIOUS
    <3> QED BY <3>1, <2>4
  <2> QED BY <2>1, <2>4, <2>5, <2>6
<1>6. /\ wire' \in Seq(Edges) /\ Len(wire') = Len(w) - 1
      /\ \A i \in 1 .. Len(w) - 1 : wire'[i].tms = 0 /\ ~wire'[i].sampled /\ wire'[i].tdi = w[i]
  BY <1>2, <1>4, <1>5, ShiftedOf
<1>7. Still' /\ Unsampled'
  BY <1>1, <1>2, <1>6 DEF Still, Unsampled
<1>8. Shifts(w, Len(w) - 1)'
  BY <1>3, <1>6 DEF Shifts
<1>9. TypeInv'
  <2>1. Sent
    BY <1>1, <1>2, <1>3, <1>6 DEF Sent
  <2> QED BY <2>1, <1>1, <1>2, OpTypes
<1> QED BY <1>2, <1>6, <1>7, <1>8, <1>9

LEMMA PushSends ==
    ASSUME TypeInv, ControllerOp, NEW w \in Seq(Bit), Head(steps) = Push(w), tap = sm
    PROVE  Still' /\ Unsampled' /\ sm' = sm /\ got' = got /\ TypeInv'
<1>1. Send(Push(w)) /\ tap' = tap /\ got \in Seq(Bit) /\ sm \in States
  BY OpLeaves DEF TypeInv
<1>2. wire' = Shifted(w) /\ last' = last /\ sm' = sm /\ got' = got
  BY <1>1 DEF Send, Push
<1>3. Still' /\ Unsampled'
  BY <1>1, <1>2, ShiftedOf DEF Still, Unsampled
<1>4. Sent
  BY <1>1, <1>2, ShiftedOf, OpLeaves DEF Sent
<1> QED BY <1>1, <1>2, <1>3, <1>4, OpTypes

LEMMA WaitSends ==
    ASSUME TypeInv, ControllerOp, NEW k \in Nat, Head(steps) = Wait(k), tap = sm
    PROVE  Still' /\ Unsampled' /\ sm' = sm /\ got' = got /\ TypeInv'
<1>1. Send(Wait(k)) /\ tap' = tap /\ got \in Seq(Bit) /\ sm \in States
  BY OpLeaves DEF TypeInv
<1>2. SendTms(Zeros(k), sm)
  BY <1>1 DEF Send, Wait
<1>3. PICK e : e = Zeros(k)
  OBVIOUS
<1>4. e \in Seq(Bit) /\ Len(e) = k /\ \A i \in 1..Len(e) : e[i] = 0
  <2>1. e \in [1..k -> Bit]
    BY <1>3 DEF Zeros, Bit
  <2> QED BY <2>1, <1>3 DEF Zeros
<1>5. wire' = TmsEdges(e) /\ sm' = sm /\ got' = got /\ last' = (IF e = <<>> THEN last ELSE <<>>)
  BY <1>2, <1>3 DEF SendTms
<1>6. Still' /\ Unsampled'
  BY <1>1, <1>4, <1>5, TmsEdgesOf DEF Still, Unsampled
<1>7. Sent
  BY <1>1, <1>4, <1>5, TmsEdgesOf, OpLeaves DEF Sent
<1> QED BY <1>1, <1>5, <1>6, <1>7, OpTypes

LEMMA OnesSend ==
    ASSUME TypeInv, ControllerOp, Head(steps) = Ones5
    PROVE  /\ Len(wire') = 5 /\ Unsampled' /\ \A i \in 1..Len(wire') : wire'[i].tms = 1
           /\ sm' = "test_logic_reset" /\ got' = got /\ TypeInv'
<1>1. Send(Ones5) /\ got \in Seq(Bit)
  BY OpLeaves
<1>2. SendTms(Ones(5), "test_logic_reset")
  BY <1>1 DEF Send, Ones5
<1>3. PICK e : e = Ones(5)
  OBVIOUS
<1>4. e \in Seq(Bit) /\ Len(e) = 5 /\ \A i \in 1..Len(e) : e[i] = 1
  <2>1. e \in [1..5 -> Bit]
    BY <1>3 DEF Ones, Bit
  <2> QED BY <2>1, <1>3 DEF Ones
<1>5. /\ wire' = TmsEdges(e) /\ sm' = "test_logic_reset" /\ got' = got
      /\ last' = IF e = <<>> THEN last ELSE <<>>
  BY <1>2, <1>3 DEF SendTms
<1>6. Unsampled' /\ Len(wire') = 5 /\ \A i \in 1..Len(wire') : wire'[i].tms = 1
  BY <1>4, <1>5, TmsEdgesOf DEF Unsampled
<1>7. Sent /\ sm' \in States
  BY <1>1, <1>4, <1>5, TmsEdgesOf, OpLeaves, ExitTable DEF Sent
<1> QED BY <1>5, <1>6, <1>7, OpTypes

LEMMA GetSends ==
    ASSUME TypeInv, ControllerOp, NEW k \in Nat, Head(steps) = Get(k), tap = sm
    PROVE  /\ Still' /\ Len(wire') = k /\ \A i \in 1..Len(wire') : wire'[i].sampled /\ wire'[i].tdi = 0
           /\ sm' = sm /\ got' = <<>> /\ last' = last /\ TypeInv'
<1>1. Send(Get(k)) /\ tap' = tap /\ sm \in States
  BY OpLeaves DEF TypeInv
<1>2. /\ wire' = [i \in 1..k |-> [tms |-> 0, tdi |-> 0, sampled |-> TRUE]]
      /\ got' = <<>> /\ sm' = sm /\ last' = last
  BY <1>1 DEF Send, Get
<1>3. wire' \in Seq(Edges) /\ Len(wire') = k
  <2>1. wire' \in [1..k -> Edges]
    BY <1>2 DEF Edges, Bit
  <2> QED BY <2>1, EdgesFromBits
<1>4. \A i \in 1..k : wire'[i] = [tms |-> 0, tdi |-> 0, sampled |-> TRUE]
  BY <1>2
<1>5. \A i \in 1..Len(wire') : wire'[i].tms = 0 /\ wire'[i].sampled /\ wire'[i].tdi = 0
  BY <1>3, <1>4
<1>6. Still'
  BY <1>1, <1>2, <1>5 DEF Still
<1>7. Sent
  BY <1>2, <1>3, OpLeaves DEF Sent
<1> QED BY <1>1, <1>2, <1>3, <1>5, <1>6, <1>7, OpTypes

-----------------------------------------------------------------------------
(* The controller takes the operations of a call one by one. *)
LEMMA Operations ==
    ASSUME NEW x, NEW y, NEW z
    PROVE  /\ Head(<<x>>) = x /\ Tail(<<x>>) = <<>>
           /\ Head(<<x, y>>) = x /\ Tail(<<x, y>>) = <<y>>
           /\ Head(<<x, y, z>>) = x /\ Tail(<<x, y, z>>) = <<y, z>>
OBVIOUS

LEMMA OpKeeps ==
    ASSUME ControllerOp, TypeInv
    PROVE  /\ Ftdi' <=> Ftdi
           /\ \A r : InForce(r) => InForce(r)'
           /\ \A l : Owed(l) => Owed(l)'
           /\ got' = got => \A s : Kept(s) => Kept(s)'
           /\ \A w, s : Delivering(w, s) => Delivering(w, s)'
<1>1. UNCHANGED <<tap, irShift, ir, dr, owed, captured>>
  BY OpLeaves
<1>2. Ftdi' <=> Ftdi
  BY DEF Ftdi
<1>3. Selected' = Selected
  BY <1>1 DEF Selected
<1>4. ASSUME NEW r, InForce(r) PROVE InForce(r)'
  BY <1>1, <1>4 DEF InForce
<1>5. ASSUME NEW l, Owed(l) PROVE Owed(l)'
  BY <1>1, <1>3, <1>5 DEF Owed, Acts
<1>6. ASSUME NEW s, Kept(s), got' = got PROVE Kept(s)'
  BY <1>1, <1>6 DEF Kept
<1>7. ASSUME NEW w, NEW s, Delivering(w, s) PROVE Delivering(w, s)'
  <2>1. InForce(s.reg)'
    BY <1>4, <1>7 DEF Delivering
  <2> QED BY <1>1, <1>7, <2>1 DEF Delivering
<1> QED BY <1>2, <1>4, <1>5, <1>6, <1>7

LEMMA OpGoto ==
    ASSUME TypeInv, ControllerOp, NEW to, Head(steps) = Goto(to), tap = sm, <<sm, to>> \in Gotos
    PROVE  InTransit' /\ sm' = to /\ got' = got /\ TypeInv' /\ (sm # to => last' = <<>>)
<1>1. PICK x \in Bit : x = IF last = <<>> THEN 0 ELSE last[1]
  BY HeldBits
<1>2. OnWay(x)' /\ sm' = to /\ got' = got /\ TypeInv' /\ (sm # to => last' = <<>>)
  BY <1>1, GotoSends
<1> QED BY <1>2 DEF InTransit

LEMMA OpWritesIr ==
    ASSUME TypeInv, ControllerOp, NEW a \in Situation, NEW b \in Situation,
           Settled(a), WritesIr(steps, a, b)
    PROVE  IrComing(b)' /\ TypeInv'
<1>1. PICK w \in Strings :
          /\ steps = write_ir(w) /\ (Ftdi => w = Code[b.reg])
          /\ a.at \in {"run_test_idle", "update_dr", "shift_ir"} /\ b.at = "update_ir"
          /\ b.left = a.left /\ b.read = a.read
  BY DEF WritesIr
<1>2. Head(steps) = Goto("shift_ir") /\ Tail(steps) = <<Put(w), Goto("update_ir")>>
  BY <1>1, Operations DEF write_ir
<1>3. tap = sm /\ <<sm, "shift_ir">> \in Gotos
  BY <1>1 DEF Settled, Gotos
<1>4. InTransit' /\ sm' = "shift_ir" /\ got' = got /\ TypeInv'
  BY <1>2, <1>3, OpGoto
<1>5. ASSUME Ftdi PROVE Owed(b.left)' /\ Kept(b)'
  <2>1. Owed(a.left)' /\ Kept(a)'
    BY <1>4, <1>5, OpKeeps DEF Settled
  <2> QED BY <1>1, <2>1 DEF Kept
<1> QED BY <1>1, <1>2, <1>4, <1>5, OpKeeps, OpLeaves DEF IrComing

LEMMA OpWritesDr ==
    ASSUME TypeInv, ControllerOp, NEW a \in Situation, NEW b \in Situation,
           Settled(a), WritesDr(steps, a, b)
    PROVE  DrComing(b)' /\ TypeInv'
<1>1. PICK w \in Strings :
          /\ steps = write_dr(w)
          /\ a.at \in {"run_test_idle", "update_dr", "update_ir"} /\ b.at = "update_dr"
          /\ b.reg = a.reg /\ b.read = a.read
          /\ Ftdi => /\ Len(w) = Size(a.reg) /\ ~a.read
                     /\ a.left = Job(a.reg, w) \o b.left
  BY DEF WritesDr
<1>2. Head(steps) = Goto("shift_dr") /\ Tail(steps) = <<Put(w), Goto("update_dr")>>
  BY <1>1, Operations DEF write_dr
<1>3. tap = sm /\ <<sm, "shift_dr">> \in Gotos /\ tap # "shift_dr" /\ tap' = tap
  BY <1>1, OpLeaves DEF Settled, Gotos
<1>4. InTransit' /\ sm' = "shift_dr" /\ got' = got /\ TypeInv'
  BY <1>2, <1>3, OpGoto
<1>5. ASSUME Ftdi
      PROVE  InForce(b.reg)' /\ Owed(Job(b.reg, w) \o b.left)' /\ got' = <<>> /\ ~b.read
  <2>1. InForce(a.reg)' /\ Owed(a.left)' /\ Kept(a)
    BY <1>5, OpKeeps DEF Settled
  <2>2. got = <<>>
    BY <1>1, <1>5, <2>1 DEF Kept
  <2> QED BY <1>1, <1>4, <1>5, <2>1, <2>2
<1> QED BY <1>1, <1>2, <1>3, <1>4, <1>5, OpKeeps, OpLeaves DEF DrComing

LEMMA OpReadsDr ==
    ASSUME TypeInv, ControllerOp, NEW a \in Situation, NEW b \in Situation,
           Settled(a), ReadsDr(steps, a, b)
    PROVE  RdComing(b)' /\ TypeInv'
<1>1. PICK k \in Nat \ {0} :
          /\ steps = read_dr(k)
          /\ a.at \in {"run_test_idle", "test_logic_reset"} /\ b.at = "update_dr"
          /\ b.reg = a.reg /\ b.read
          /\ Ftdi => /\ k = Size(a.reg) /\ ~a.read
                     /\ a.left = Job(a.reg, Zeros(k)) \o b.left
  BY DEF ReadsDr
<1>2. Head(steps) = Goto("shift_dr") /\ Tail(steps) = <<Get(k), Goto("update_dr")>>
  BY <1>1, Operations DEF read_dr
<1>3. tap = sm /\ <<sm, "shift_dr">> \in Gotos /\ tap # "shift_dr" /\ tap' = tap
  BY <1>1, OpLeaves DEF Settled, Gotos
<1>4. InTransit' /\ sm' = "shift_dr" /\ got' = got /\ TypeInv' /\ last' = <<>>
  BY <1>2, <1>3, OpGoto
<1>5. ASSUME Ftdi PROVE InForce(b.reg)' /\ Owed(Job(b.reg, Zeros(k)) \o b.left)'
  <2>1. InForce(a.reg)' /\ Owed(a.left)'
    BY <1>5, OpKeeps DEF Settled
  <2> QED BY <1>1, <1>5, <2>1
<1> QED BY <1>1, <1>2, <1>3, <1>4, <1>5, OpKeeps, OpLeaves DEF RdComing

LEMMA OpMoves ==
    ASSUME TypeInv, ControllerOp, NEW a \in Situation, NEW b \in Situation,
           Settled(a), GoesIdle(steps, a, b) \/ CapturesIr(steps, a, b)
    PROVE  Arriving(b)' /\ TypeInv'
<1>1. /\ steps = <<Goto(b.at)>> /\ b.at \in {"run_test_idle", "capture_ir"} /\ Same(a, b)
      /\ \/ (a.at = "run_test_idle")
         \/ (a.at = "update_dr" /\ b.at = "run_test_idle")
  BY DEF GoesIdle, CapturesIr, go_idle, capture_ir
<1>2. Head(steps) = Goto(b.at) /\ Tail(steps) = <<>>
  BY <1>1, Operations
<1>3. tap = sm /\ <<sm, b.at>> \in Gotos
  BY <1>1 DEF Settled, Gotos
<1>4. InTransit' /\ sm' = b.at /\ got' = got /\ TypeInv'
  BY <1>2, <1>3, OpGoto
<1>5. ASSUME Ftdi PROVE InForce(b.reg)' /\ Owed(b.left)' /\ Kept(b)'
  <2>1. InForce(a.reg)' /\ Owed(a.left)' /\ Kept(a)'
    BY <1>4, <1>5, OpKeeps DEF Settled
  <2> QED BY <1>1, <2>1 DEF Kept, Same
<1> QED BY <1>1, <1>2, <1>4, <1>5, OpKeeps, OpLeaves DEF Arriving

LEMMA OpWaits ==
    ASSUME TypeInv, ControllerOp, NEW a \in Situation, NEW b \in Situation,
           Settled(a), Waits(steps, a, b)
    PROVE  Staying(b)' /\ TypeInv'
<1>1. PICK k \in Nat : steps = write_tms(k) /\ a.at = "run_test_idle" /\ b.at = a.at /\ Same(a, b)
  BY DEF Waits
<1>2. Head(steps) = Wait(k) /\ Tail(steps) = <<>>
  BY <1>1, Operations DEF write_tms
<1>3. tap = sm /\ sm = b.at
  BY <1>1 DEF Settled
<1>4. Still' /\ Unsampled' /\ sm' = sm /\ got' = got /\ TypeInv'
  BY <1>2, <1>3, WaitSends
<1>5. ASSUME Ftdi PROVE InForce(b.reg)' /\ Owed(b.left)' /\ Kept(b)'
  <2>1. InForce(a.reg)' /\ Owed(a.left)' /\ Kept(a)'
    BY <1>4, <1>5, OpKeeps DEF Settled
  <2> QED BY <1>1, <2>1 DEF Kept, Same
<1> QED BY <1>1, <1>2, <1>3, <1>4, <1>5, OpKeeps, OpLeaves DEF Staying

LEMMA OpShiftsIr ==
    ASSUME TypeInv, ControllerOp, NEW a \in Situation, NEW b \in Situation,
           Settled(a), ShiftsIr(steps, a, b)
    PROVE  PushComing(b)' /\ TypeInv'
<1>1. PICK w \in Seq(Bit) :
          steps = shift_register(w) /\ a.at = "capture_ir" /\ b.at = "shift_ir" /\ Same(a, b)
  BY DEF ShiftsIr
<1>2. Head(steps) = Goto("shift_ir") /\ Tail(steps) = <<Push(w)>>
  BY <1>1, Operations DEF shift_register
<1>3. tap = sm /\ <<sm, "shift_ir">> \in Gotos /\ tap' = "capture_ir"
  BY <1>1, OpLeaves DEF Settled, Gotos
<1>4. InTransit' /\ sm' = "shift_ir" /\ got' = got /\ TypeInv'
  BY <1>2, <1>3, OpGoto
<1>5. ASSUME Ftdi PROVE InForce(b.reg)' /\ Owed(b.left)' /\ Kept(b)'
  <2>1. InForce(a.reg)' /\ Owed(a.left)' /\ Kept(a)'
    BY <1>4, <1>5, OpKeeps DEF Settled
  <2> QED BY <1>1, <2>1 DEF Kept, Same
<1> QED BY <1>1, <1>2, <1>3, <1>4, <1>5, OpKeeps, OpLeaves DEF PushComing

LEMMA EmptyWire == wire = <<>> => Len(wire) = 0
OBVIOUS

LEMMA FilledNone == ASSUME NEW reg, NEW w, NEW j, j = 0 PROVE Filled(reg, w, j)
<1>1. 1..0 = {}
  OBVIOUS
<1> QED BY <1>1 DEF Filled

LEMMA OpIrComing ==
    ASSUME TypeInv, ControllerOp, NEW b \in Situation, IrComing(b)
    PROVE  IrShifting(b)' /\ TypeInv'
<1>1. PICK w \in Strings :
          /\ steps = <<Put(w), Goto("update_ir")>>
          /\ sm = "shift_ir" /\ InTransit /\ b.at = "update_ir"
          /\ Ftdi => w = Code[b.reg] /\ Owed(b.left) /\ Kept(b)
  BY DEF IrComing
<1>2. Head(steps) = Put(w) /\ Tail(steps) = <<Goto("update_ir")>>
  BY <1>1, Operations
<1>3. tap = sm
  BY <1>1, EndOfWay, OpLeaves DEF InTransit, TypeInv
<1>4. /\ Still' /\ Unsampled' /\ Shifts(w, Len(w) - 1)' /\ Len(wire') = Len(w) - 1
      /\ last' = <<w[Len(w)]>> /\ sm' = sm /\ got' = got /\ TypeInv'
  BY <1>2, <1>3, PutSends
<1>5. ASSUME Ftdi
      PROVE  /\ w = Code[b.reg] /\ Owed(b.left)' /\ Kept(b)'
             /\ Shifts(w, 4)' /\ Filled(irShift', w, 4 - Len(wire'))
  <2>1. Owed(b.left)' /\ Kept(b)'
    BY <1>1, <1>4, <1>5, OpKeeps
  <2>2. Len(w) = 5
    BY <1>1, <1>5, CodesAreStrings, SituationTypes
  <2>3. Len(w) - 1 = 4 /\ 4 - Len(wire') = 0
    BY <1>4, <2>2
  <2>4. Shifts(w, 4)'
    BY <1>4, <2>3
  <2>5. Filled(irShift', w, 4 - Len(wire'))
    BY <2>3, FilledNone
  <2> QED BY <1>1, <1>5, <2>1, <2>4, <2>5
<1>6. steps' = <<Goto("update_ir")>> /\ sm' = "shift_ir"
  BY <1>1, <1>2, <1>4, OpLeaves
<1> QED BY <1>1, <1>4, <1>5, <1>6, OpKeeps DEF IrShifting

LEMMA OpIrShifting ==
    ASSUME TypeInv, ControllerOp, NEW b \in Situation, IrShifting(b)
    PROVE  IrLeaving(b)' /\ TypeInv'
<1>1. PICK w \in Strings :
          /\ steps = <<Goto("update_ir")>> /\ last = <<w[Len(w)]>>
          /\ sm = "shift_ir" /\ Still /\ Unsampled /\ b.at = "update_ir"
          /\ Ftdi => /\ w = Code[b.reg] /\ Shifts(w, 4) /\ Filled(irShift, w, 4 - Len(wire))
                     /\ Owed(b.left) /\ Kept(b)
  BY DEF IrShifting
<1>2. Head(steps) = Goto("update_ir") /\ Tail(steps) = <<>>
  BY <1>1, Operations
<1>3. tap = sm /\ <<sm, "update_ir">> \in Gotos /\ sm # "update_ir" /\ tap' = "shift_ir"
  BY <1>1, OpLeaves DEF Still, Gotos
<1>4. PICK x : x = Code[b.reg][5]
  OBVIOUS
<1>5. x \in Bit
  <2>1. PICK c \in Strings : c = Code[b.reg] /\ Len(c) = 5
    BY CodesAreStrings, SituationTypes
  <2>2. c \in Seq(Bit) /\ 5 \in 1..Len(c)
    BY <2>1 DEF Strings
  <2>3. c[5] \in Bit
    BY <2>2, ElementOfSeq
  <2> QED BY <1>4, <2>1, <2>3
<1>6. ASSUME Ftdi PROVE x = IF last = <<>> THEN 0 ELSE last[1]
  <2>1. w[Len(w)] = x
    BY <1>1, <1>4, <1>6, CodesAreStrings, SituationTypes
  <2>2. last = <<x>>
    BY <1>1, <2>1
  <2> QED BY <2>2
<1>7. OnWay(x)' /\ sm' = "update_ir" /\ got' = got /\ TypeInv'
  BY <1>2, <1>3, <1>5, <1>6, GotoSends
<1>8. ASSUME Ftdi PROVE Filled(irShift', Code[b.reg], 4) /\ Owed(b.left)' /\ Kept(b)'
  <2>1. Owed(b.left)' /\ Kept(b)'
    BY <1>1, <1>7, <1>8, OpKeeps
  <2>2. 4 - Len(wire) = 4
    BY OpLeaves, EmptyWire
  <2>3. Filled(irShift, Code[b.reg], 4)
    BY <1>1, <1>8, <2>2
  <2> QED BY <2>1, <2>3, OpLeaves
<1>9. OnWay(Code[b.reg][5])'
  BY <1>4, <1>7
<1> QED BY <1>1, <1>2, <1>3, <1>7, <1>8, <1>9, OpKeeps, OpLeaves DEF IrLeaving

LEMMA OpDrComing ==
    ASSUME TypeInv, ControllerOp, NEW b \in Situation, DrComing(b)
    PROVE  DrShifting(b)' /\ TypeInv'
<1>1. PICK w \in Strings :
          /\ steps = <<Put(w), Goto("update_dr")>>
          /\ sm = "shift_dr" /\ InTransit /\ b.at = "update_dr"
          /\ Ftdi => /\ InForce(b.reg) /\ Len(w) = Size(b.reg) /\ ~b.read /\ got = <<>>
                     /\ Owed(Job(b.reg, w) \o b.left)
                     /\ tap = "shift_dr" => Len(dr) = Len(w)
  BY DEF DrComing
<1>2. Head(steps) = Put(w) /\ Tail(steps) = <<Goto("update_dr")>>
  BY <1>1, Operations
<1>3. tap = sm
  BY <1>1, EndOfWay, OpLeaves DEF InTransit, TypeInv
<1>4. /\ Still' /\ Unsampled' /\ Shifts(w, Len(w) - 1)' /\ Len(wire') = Len(w) - 1
      /\ last' = <<w[Len(w)]>> /\ sm' = sm /\ got' = got /\ TypeInv'
  BY <1>2, <1>3, PutSends
<1>5. ASSUME Ftdi
      PROVE  /\ Delivering(w, b)' /\ ~b.read /\ got' = <<>>
             /\ Len(dr') = Len(w) /\ Filled(dr', w, Len(w) - 1 - Len(wire'))
  <2>1. owed = Job(b.reg, w) \o b.left
    BY <1>1, <1>3, <1>5 DEF Owed, Acts
  <2>2. Delivering(w, b)
    BY <1>1, <1>5, <2>1 DEF Delivering
  <2>3. Len(w) \in Nat
    BY LenProperties DEF Strings
  <2>4. Len(w) - 1 - Len(wire') = 0
    BY <1>4, <2>3
  <2>5. Filled(dr', w, Len(w) - 1 - Len(wire'))
    BY <2>4, FilledNone
  <2>6. Len(dr') = Len(w)
    BY <1>1, <1>3, <1>5, OpLeaves
  <2> QED BY <1>1, <1>4, <1>5, <2>2, <2>5, <2>6, OpKeeps
<1>6. steps' = <<Goto("update_dr")>> /\ sm' = "shift_dr"
  BY <1>1, <1>2, <1>4, OpLeaves
<1> QED BY <1>1, <1>4, <1>5, <1>6, OpKeeps DEF DrShifting

LEMMA OpDrShifting ==
    ASSUME TypeInv, ControllerOp, NEW b \in Situation, DrShifting(b)
    PROVE  DrLeaving(b)' /\ TypeInv'
<1>1. PICK w \in Strings :
          /\ steps = <<Goto("update_dr")>> /\ last = <<w[Len(w)]>>
          /\ sm = "shift_dr" /\ Still /\ Unsampled /\ b.at = "update_dr"
          /\ Ftdi => /\ Delivering(w, b) /\ Shifts(w, Len(w) - 1) /\ ~b.read /\ got = <<>>
                     /\ Len(dr) = Len(w) /\ Filled(dr, w, Len(w) - 1 - Len(wire))
  BY DEF DrShifting
<1>2. Head(steps) = Goto("update_dr") /\ Tail(steps) = <<>>
  BY <1>1, Operations
<1>3. tap = sm /\ <<sm, "update_dr">> \in Gotos /\ sm # "update_dr" /\ tap' = "shift_dr"
  BY <1>1, OpLeaves DEF Still, Gotos
<1>4. Len(w) \in Nat \ {0} /\ w[Len(w)] \in Bit
  <2>1. Len(w) \in Nat \ {0} /\ w \in Seq(Bit)
    BY EmptySeq DEF Strings
  <2>2. Len(w) \in 1..Len(w)
    BY <2>1
  <2> QED BY <2>1, <2>2, ElementOfSeq
<1>5. w[Len(w)] = IF last = <<>> THEN 0 ELSE last[1]
  BY <1>1
<1>6. OnWay(w[Len(w)])' /\ sm' = "update_dr" /\ got' = got /\ TypeInv'
  BY <1>2, <1>3, <1>4, <1>5, GotoSends
<1>7. ASSUME Ftdi
      PROVE  /\ Delivering(w, b)' /\ Kept(b)' /\ ~b.read
             /\ Len(dr') = Len(w) /\ Filled(dr', w, Len(w) - 1)
  <2>1. Delivering(w, b)'
    BY <1>1, <1>7, OpKeeps
  <2>2. Kept(b)'
    BY <1>1, <1>6, <1>7 DEF Kept
  <2>3. Len(w) - 1 - Len(wire) = Len(w) - 1
    BY <1>4, OpLeaves, EmptyWire
  <2>4. Filled(dr, w, Len(w) - 1)
    BY <1>1, <1>7, <2>3
  <2> QED BY <1>1, <1>7, <2>1, <2>2, <2>4, OpLeaves
<1> QED BY <1>1, <1>2, <1>3, <1>6, <1>7, OpKeeps, OpLeaves DEF DrLeaving

LEMMA OpRdComing ==
    ASSUME TypeInv, ControllerOp, NEW b \in Situation, RdComing(b)
    PROVE  RdShifting(b)' /\ TypeInv'
<1>1. PICK k \in Nat \ {0} :
          /\ steps = <<Get(k), Goto("update_dr")>> /\ last = <<>>
          /\ sm = "shift_dr" /\ InTransit /\ b.at = "update_dr"
          /\ Ftdi => /\ InForce(b.reg) /\ k = Size(b.reg) /\ b.read
                     /\ Owed(Job(b.reg, Zeros(k)) \o b.left)
                     /\ tap = "shift_dr" => Len(dr) = k /\ dr = captured
  BY DEF RdComing
<1>2. Head(steps) = Get(k) /\ Tail(steps) = <<Goto("update_dr")>>
  BY <1>1, Operations
<1>3. tap = sm
  BY <1>1, EndOfWay, OpLeaves DEF InTransit, TypeInv
<1>4. /\ Still' /\ Len(wire') = k /\ \A i \in 1..Len(wire') : wire'[i].sampled /\ wire'[i].tdi = 0
      /\ sm' = sm /\ got' = <<>> /\ last' = last /\ TypeInv'
  BY <1>2, <1>3, GetSends
<1>5. ASSUME Ftdi
      PROVE  /\ Delivering(Zeros(k), b)' /\ b.read /\ Len(wire') <= k
             /\ Len(dr') = k /\ Filled(dr', Zeros(k), k - Len(wire'))
             /\ \A i \in 1..Len(wire') : dr'[i] = captured'[k - Len(wire') + i]
             /\ Len(captured') = k /\ Len(got') = k - Len(wire')
             /\ \A i \in 1..Len(got') : got'[i] = captured'[i]
  <2>1. owed = Job(b.reg, Zeros(k)) \o b.left
    BY <1>1, <1>3, <1>5 DEF Owed, Acts
  <2>2. Delivering(Zeros(k), b)
    BY <1>1, <1>5, <2>1, ZerosAreStrings DEF Delivering
  <2>3. k - Len(wire') = 0 /\ Len(wire') <= k /\ Len(got') = 0
    BY <1>4, EmptySeq
  <2>4. Filled(dr', Zeros(k), k - Len(wire'))
    BY <2>3, FilledNone
  <2>5. dr' = captured' /\ Len(dr') = k
    BY <1>1, <1>3, <1>5, OpLeaves
  <2>6. \A i \in 1..Len(wire') : dr'[i] = captured'[k - Len(wire') + i]
    BY <2>3, <2>5, <1>4
  <2>7. 1..Len(got') = {}
    BY <2>3
  <2> QED BY <1>1, <1>5, <2>2, <2>3, <2>4, <2>5, <2>6, <2>7, OpKeeps
<1>6. steps' = <<Goto("update_dr")>> /\ sm' = "shift_dr"
  BY <1>1, <1>2, <1>4, OpLeaves
<1> QED BY <1>1, <1>4, <1>5, <1>6, OpKeeps DEF RdShifting

LEMMA OpRdShifting ==
    ASSUME TypeInv, ControllerOp, NEW b \in Situation, RdShifting(b)
    PROVE  DrLeaving(b)' /\ TypeInv'
<1>1. PICK k \in Nat \ {0} :
          /\ steps = <<Goto("update_dr")>> /\ last = <<>>
          /\ sm = "shift_dr" /\ Still /\ b.at = "update_dr"
          /\ Ftdi => /\ Delivering(Zeros(k), b) /\ b.read /\ Len(wire) <= k
                     /\ Len(dr) = k /\ Filled(dr, Zeros(k), k - Len(wire))
                     /\ Len(captured) = k /\ Len(got) = k - Len(wire)
                     /\ \A i \in 1..Len(got) : got[i] = captured[i]
  BY DEF RdShifting
<1>2. Head(steps) = Goto("update_dr") /\ Tail(steps) = <<>>
  BY <1>1, Operations
<1>3. tap = sm /\ <<sm, "update_dr">> \in Gotos /\ sm # "update_dr" /\ tap' = "shift_dr"
  BY <1>1, OpLeaves DEF Still, Gotos
<1>4. PICK w \in Strings : w = Zeros(k) /\ Len(w) = k /\ w[k] = 0
  <2>1. Zeros(k) \in Strings /\ Len(Zeros(k)) = k
    BY ZerosAreStrings
  <2>2. Zeros(k)[k] = 0
    BY DEF Zeros
  <2> QED BY <2>1, <2>2
<1>5. OnWay(0)' /\ sm' = "update_dr" /\ got' = got /\ TypeInv'
  <2>1. 0 \in Bit /\ 0 = IF last = <<>> THEN 0 ELSE last[1]
    BY <1>1 DEF Bit
  <2> QED BY <1>2, <1>3, <2>1, GotoSends
<1>6. ASSUME Ftdi
      PROVE  /\ Delivering(w, b)' /\ Kept(b)' /\ w = Zeros(Size(b.reg))
             /\ Len(dr') = Len(w) /\ Filled(dr', w, Len(w) - 1)
  <2>1. Delivering(w, b) /\ Delivering(w, b)' /\ k = Size(b.reg)
    BY <1>1, <1>4, <1>6, OpKeeps DEF Delivering
  <2>2. k - Len(wire) = k
    BY OpLeaves, EmptyWire
  <2>3. Kept(b)'
    <3>1. Len(got) = k /\ \A i \in 1..Len(got) : got[i] = captured[i]
      BY <1>1, <1>6, <2>2
    <3>2. got \in Seq(Bit) /\ captured \in Seq(Bit) /\ Len(captured) = Len(got)
      BY <1>1, <1>6, <3>1 DEF TypeInv, Strings
    <3>3. got = captured
      BY <3>1, <3>2, SeqEqual
    <3> QED BY <1>1, <1>5, <1>6, <3>3, OpLeaves DEF Kept
  <2>4. Filled(dr, w, k)
    BY <1>1, <1>4, <1>6, <2>2
  <2>5. Filled(dr, w, k - 1)
    <3> SUFFICES ASSUME NEW i \in 1 .. k - 1 PROVE dr[Len(dr) - (k - 1) + i] = w[i]
      BY DEF Filled
    <3>1. dr[Len(dr) - k + (i + 1)] = w[i + 1] /\ Len(dr) = k
      BY <1>1, <1>6, <2>4 DEF Filled
    <3>2. w[i + 1] = 0 /\ w[i] = 0
      BY <1>4 DEF Zeros
    <3>3. Len(dr) - k + (i + 1) = Len(dr) - (k - 1) + i
      BY <3>1
    <3> QED BY <3>1, <3>2, <3>3
  <2> QED BY <1>1, <1>4, <1>6, <2>1, <2>3, <2>5, OpLeaves
<1>7. OnWay(w[Len(w)])'
  BY <1>4, <1>5
<1> QED BY <1>1, <1>2, <1>3, <1>5, <1>6, <1>7, OpKeeps, OpLeaves DEF DrLeaving

LEMMA OpPushComing ==
    ASSUME TypeInv, ControllerOp, NEW b \in Situation, PushComing(b)
    PROVE  Staying(b)' /\ TypeInv'
<1>1. PICK w \in Seq(Bit) :
          /\ steps = <<Push(w)>> /\ sm = "shift_ir" /\ b.at = "shift_ir" /\ InTransit
          /\ Ftdi => InForce(b.reg) /\ Owed(b.left) /\ Kept(b)
  BY DEF PushComing
<1>2. Head(steps) = Push(w) /\ Tail(steps) = <<>>
  BY <1>1, Operations
<1>3. tap = sm
  BY <1>1, EndOfWay, OpLeaves DEF InTransit, TypeInv
<1>4. Still' /\ Unsampled' /\ sm' = sm /\ got' = got /\ TypeInv'
  BY <1>2, <1>3, PushSends
<1>5. ASSUME Ftdi PROVE InForce(b.reg)' /\ Owed(b.left)' /\ Kept(b)'
  BY <1>1, <1>4, <1>5, OpKeeps
<1> QED BY <1>1, <1>2, <1>4, <1>5, OpKeeps, OpLeaves DEF Staying

LEMMA OpToReset ==
    ASSUME TypeInv, ControllerOp, NEW b \in Situation, ToReset(b)
    PROVE  Resetting(b)' /\ TypeInv'
<1>1. steps = reset /\ Cold(b)
  BY DEF ToReset
<1>2. Head(steps) = Ones5 /\ Tail(steps) = <<>>
  BY <1>1, Operations DEF reset
<1>3. /\ Len(wire') = 5 /\ Unsampled' /\ \A i \in 1..Len(wire') : wire'[i].tms = 1
      /\ sm' = "test_logic_reset" /\ got' = got /\ TypeInv'
  BY <1>2, OnesSend
<1>4. tap' \in OnesLead(Len(wire'))
  BY <1>3 DEF OnesLead, TypeInv
<1>5. Cold(b)'
  BY <1>1, <1>3, OpLeaves DEF Cold
<1> QED BY <1>2, <1>3, <1>4, <1>5, OpLeaves DEF Resetting

LEMMA OpDoing ==
    ASSUME TypeInv, ControllerOp, NEW b \in Situation, Doing(b) PROVE Doing(b)' /\ TypeInv'
<1>1. steps # <<>>
  BY OpLeaves
<1>2. \/ Ready(b) \/ IrComing(b) \/ IrShifting(b) \/ DrComing(b) \/ DrShifting(b)
      \/ RdComing(b) \/ RdShifting(b) \/ PushComing(b) \/ ToReset(b)
  BY <1>1 DEF Doing, AtRest, IrLeaving, DrLeaving, Arriving, Staying, Resetting
<1>3. CASE Ready(b)
  <2>1. PICK a \in Situation : Settled(a) /\ Does(steps, a, b)
    BY <1>3 DEF Ready
  <2>2. \/ WritesIr(steps, a, b) \/ WritesDr(steps, a, b) \/ ReadsDr(steps, a, b)
        \/ GoesIdle(steps, a, b) \/ CapturesIr(steps, a, b)
        \/ Waits(steps, a, b) \/ ShiftsIr(steps, a, b)
    BY <2>1 DEF Does
  <2>3. TypeInv' /\ (\/ IrComing(b)' \/ DrComing(b)' \/ RdComing(b)' \/ Arriving(b)'
                     \/ Staying(b)' \/ PushComing(b)')
    BY <2>1, <2>2, OpWritesIr, OpWritesDr, OpReadsDr, OpMoves, OpWaits, OpShiftsIr
  <2> QED BY <2>3 DEF Doing
<1>4. CASE ~Ready(b)
  <2>1. TypeInv' /\ (\/ IrShifting(b)' \/ IrLeaving(b)' \/ DrShifting(b)' \/ DrLeaving(b)'
                     \/ RdShifting(b)' \/ Staying(b)' \/ Resetting(b)')
    BY <1>2, <1>4, OpIrComing, OpIrShifting, OpDrComing, OpDrShifting, OpRdComing, OpRdShifting,
       OpPushComing, OpToReset
  <2> QED BY <2>1 DEF Doing
<1> QED BY <1>3, <1>4

-----------------------------------------------------------------------------
(* The engine takes the next call when the TAP has come to rest.           *)
LEMMA LeavingDrSettles ==
    ASSUME TypeInv, NEW b \in Situation, DrLeaving(b), wire = <<>>
    PROVE  Settled(b)
<1>1. PICK w \in Strings :
          /\ sm = "update_dr" /\ b.at = "update_dr" /\ OnWay(w[Len(w)])
          /\ Ftdi => /\ Delivering(w, b) /\ Kept(b) /\ (b.read => w = Zeros(Size(b.reg)))
                     /\ IF tap = "shift_dr" THEN Filled(dr, w, Len(w) - 1) ELSE dr = w
  BY DEF DrLeaving
<1>2. tap = "update_dr"
  BY <1>1, EndOfWay DEF TypeInv
<1>3. ASSUME Ftdi
      PROVE  InForce(b.reg) /\ Owed(b.left) /\ Kept(b) /\ (b.read => dr = Zeros(Size(b.reg)))
  <2>1. InForce(b.reg) /\ owed = Job(b.reg, w) \o b.left /\ dr = w
    BY <1>1, <1>2, <1>3 DEF Delivering
  <2>2. Selected = b.reg
    BY <1>2, <2>1, SelectedIsThatOfIr, SituationTypes DEF InForce
  <2>3. CASE b.reg = "idcode"
    <3>1. owed = <<>> \o b.left
      BY <2>1, <2>3 DEF Job
    <3>2. owed = b.left
      BY <3>1, SituationTypes, ConcatEmptySeq
    <3> QED BY <1>1, <1>3, <2>1, <2>2, <2>3, <3>2 DEF Owed, Acts
  <2>4. CASE b.reg # "idcode"
    <3>1. Acts
      BY <1>2, <2>2, <2>4, SituationTypes, CodesDiffer DEF Acts
    <3>2. owed = <<<<Selected, dr>>>> \o b.left
      BY <2>1, <2>2, <2>4 DEF Job
    <3> QED BY <1>1, <1>3, <2>1, <3>1, <3>2 DEF Owed
  <2> QED BY <2>3, <2>4
<1> QED BY <1>1, <1>2, <1>3 DEF Settled

LEMMA ComesToRest ==
    ASSUME TypeInv, NEW b \in Situation, Doing(b), steps = <<>>, wire = <<>>
    PROVE  Settled(b)
<1>1. \A x, y : <<x>> # <<>> /\ <<x, y>> # <<>>
  OBVIOUS
<1>2. AtRest(b) \/ IrLeaving(b) \/ DrLeaving(b) \/ Arriving(b) \/ Staying(b) \/ Resetting(b)
  BY <1>1 DEF Doing, Ready, IrComing, IrShifting, DrComing, DrShifting, RdComing, RdShifting,
              PushComing, ToReset, reset
<1>3. CASE AtRest(b)
  BY <1>3 DEF AtRest
<1>4. CASE IrLeaving(b)
  <2>1. tap = "update_ir" /\ sm = "update_ir" /\ b.at = "update_ir"
    BY <1>4, EndOfWay DEF IrLeaving, TypeInv
  <2>2. Ftdi => InForce(b.reg) /\ Owed(b.left) /\ Kept(b)
    BY <1>4, <2>1 DEF IrLeaving, InForce
  <2> QED BY <2>1, <2>2 DEF Settled
<1>5. CASE DrLeaving(b)
  BY <1>5, LeavingDrSettles
<1>6. CASE Arriving(b)
  <2>1. sm = b.at /\ b.at \in {"run_test_idle", "capture_ir"} /\ InTransit
    BY <1>6 DEF Arriving
  <2>2. tap = sm
    BY <2>1, EndOfWay DEF InTransit, TypeInv
  <2> QED BY <1>6, <2>1, <2>2 DEF Settled, Arriving
<1>7. CASE Staying(b)
  BY <1>7 DEF Settled, Staying, Still
<1>8. CASE Resetting(b)
  <2>1. tap \in OnesLead(0) /\ Cold(b)
    BY <1>8, EmptyWire DEF Resetting
  <2>2. tap = "test_logic_reset"
    BY <2>1 DEF OnesLead
  <2> QED BY <2>1, <2>2 DEF Settled, Cold, InForce, Owed, Acts, Kept
<1> QED BY <1>2, <1>3, <1>4, <1>5, <1>6, <1>7, <1>8

LEMMA SettledStays ==
    ASSUME NEW s, Settled(s), wire' = wire, tap' = tap, sm' = sm, irShift' = irShift, ir' = ir,
           dr' = dr, owed' = owed, got' = got, captured' = captured
    PROVE  Settled(s)'
<1>1. (Ftdi' <=> Ftdi) /\ Selected' = Selected
  BY DEF Ftdi, Selected
<1>2. InForce(s.reg) => InForce(s.reg)'
  BY DEF InForce
<1>3. Owed(s.left) => Owed(s.left)'
  BY <1>1 DEF Owed, Acts
<1>4. Kept(s) => Kept(s)'
  BY DEF Kept
<1> QED BY <1>1, <1>2, <1>3, <1>4 DEF Settled

LEMMA DoesSomething == ASSUME NEW c, NEW a, NEW b, Does(c, a, b) PROVE c # <<>>
<1>1. \A x, y, z : <<x>> # <<>> /\ <<x, y>> # <<>> /\ <<x, y, z>> # <<>>
  OBVIOUS
<1> QED BY <1>1 DEF Does, WritesIr, WritesDr, ReadsDr, GoesIdle, Waits, CapturesIr, ShiftsIr,
                    write_ir, write_dr, read_dr, go_idle, write_tms, capture_ir, shift_register

LEMMA AheadStays ==
    ASSUME currentir' = currentir, NEW p, NEW b, Ahead(p, b)
    PROVE  \E z \in Situation : Leads(p, b, z) /\ Ends(z)'
BY DEF Ahead, Ends

LEMMA EngineCallSession ==
    ASSUME SessionInv, EngineCall PROVE SessionInv'
<1>1. /\ wire = <<>> /\ steps = <<>> /\ plan # <<>>
      /\ steps' = Head(plan) /\ plan' = Tail(plan)
      /\ UNCHANGED <<opened, currentir, wire, sm, last, tap, irShift, ir, dr, owed, captured, got>>
  BY DEF EngineCall, tapVars, history
<1>2. TypeInv /\ plan \in Seq(Calling)
  BY DEF SessionInv, TypeInv
<1>3. steps' \in Calling /\ plan' \in Seq(Calling)
  BY <1>1, <1>2, HeadTailProperties
<1>4. TypeInv'
  BY <1>1, <1>2, <1>3 DEF TypeInv
<1>5. opened # "closed"
  BY <1>1 DEF SessionInv
<1>6. \E b \in Situation : Doing(b)' /\ Ahead(plan, b)'
  <2>1. CASE Fresh
    <3>1. PICK b \in Situation : Cold(b) /\ Ahead(Tail(plan), b) /\ Head(plan) = reset
      BY <2>1 DEF Fresh
    <3>2. Cold(b)'
      BY <1>1, <3>1 DEF Cold
    <3>3. ToReset(b)'
      BY <1>1, <3>1, <3>2 DEF ToReset
    <3>4. Ahead(plan, b)'
      BY <1>1, <3>1, AheadStays DEF Ahead
    <3> QED BY <3>3, <3>4 DEF Doing
  <2>2. CASE \E b \in Situation : Doing(b) /\ Ahead(plan, b)
    <3>1. PICK b \in Situation : Doing(b) /\ Ahead(plan, b)
      BY <2>2
    <3>2. Settled(b)'
      <4>1. Settled(b)
        BY <1>1, <1>2, <3>1, ComesToRest
      <4> QED BY <4>1, <1>1, SettledStays
    <3>3. PICK z \in Situation : Leads(plan, b, z) /\ Ends(z)'
      BY <1>1, <3>1, AheadStays
    <3>4. PICK m \in Situation : Does(Head(plan), b, m) /\ Leads(Tail(plan), m, z)
      BY <1>1, <1>2, <3>3, LeadsFirst
    <3>5. Ready(m)'
      BY <1>1, <3>2, <3>4, DoesSomething DEF Ready, Does, WritesIr, WritesDr, ReadsDr, GoesIdle,
                                             Waits, CapturesIr, ShiftsIr, Ftdi
    <3>6. Ahead(plan, m)'
      BY <1>1, <3>3, <3>4 DEF Ahead, Leads
    <3> QED BY <3>5, <3>6 DEF Doing
  <2> QED BY <2>1, <2>2, <1>5 DEF SessionInv
<1>7. opened' # "open" => owed' = <<>>
  BY <1>1 DEF SessionInv
<1>8. opened' = "opening" => currentir' = "none"
  BY <1>1 DEF SessionInv
<1> QED BY <1>1, <1>4, <1>5, <1>6, <1>7, <1>8 DEF SessionInv

LEMMA TckEdgeSession ==
    ASSUME SessionInv, TckEdge PROVE SessionInv'
<1>1. TypeInv /\ TypeInv'
  BY EdgeTypes DEF SessionInv
<1>2. wire # <<>> /\ UNCHANGED <<opened, currentir, plan, steps, sm, last>>
  BY <1>1, EdgeMoves DEF hostVars
<1>3. opened # "closed" /\ ~Fresh
  BY <1>2 DEF SessionInv, Fresh
<1>4. PICK b \in Situation : Doing(b) /\ Ahead(plan, b)
  BY <1>3 DEF SessionInv
<1>5. Doing(b)' /\ Ahead(plan, b)'
  <2>1. Doing(b)'
    BY <1>1, <1>4, EdgeDoing
  <2>2. Ahead(plan, b)'
    BY <1>2, <1>4, AheadStays DEF Ahead
  <2> QED BY <2>1, <2>2
<1>6. opened' # "open" => owed' = <<>>
  BY <1>2, EdgeOwes DEF SessionInv
<1> QED BY <1>1, <1>2, <1>3, <1>5, <1>6 DEF SessionInv

LEMMA ControllerOpSession ==
    ASSUME SessionInv, ControllerOp PROVE SessionInv'
<1>1. TypeInv
  BY DEF SessionInv
<1>2. steps # <<>> /\ UNCHANGED <<opened, currentir, plan, owed>>
  BY <1>1, OpLeaves
<1>3. opened # "closed" /\ ~Fresh
  BY <1>2 DEF SessionInv, Fresh
<1>4. PICK b \in Situation : Doing(b) /\ Ahead(plan, b)
  BY <1>3 DEF SessionInv
<1>5. Doing(b)' /\ TypeInv' /\ Ahead(plan, b)'
  <2>1. Doing(b)' /\ TypeInv'
    BY <1>1, <1>4, OpDoing
  <2>2. Ahead(plan, b)'
    BY <1>2, <1>4, AheadStays DEF Ahead
  <2> QED BY <2>1, <2>2
<1>6. opened' # "open" => owed' = <<>>
  BY <1>2 DEF SessionInv
<1>7. opened' = "opening" => currentir' = "none"
  BY <1>2 DEF SessionInv
<1> QED BY <1>2, <1>3, <1>5, <1>6, <1>7 DEF SessionInv

LEMMA OpenedSession ==
    ASSUME SessionInv, Opened PROVE SessionInv'
<1>1. /\ opened = "opening" /\ plan = <<>> /\ opened' = "open"
      /\ UNCHANGED <<currentir, plan, steps, wire, sm, last, tap, irShift, ir, dr, owed, captured, got>>
  BY DEF Opened, Resting, tapVars, history
<1>2. TypeInv'
  BY <1>1 DEF SessionInv, TypeInv
<1>3. PICK b \in Situation : Doing(b) /\ Ahead(plan, b)
  BY <1>1 DEF SessionInv, Fresh
<1>4. Settled(b)
  BY <1>3, ComesToRest DEF Opened, Resting, SessionInv
<1>5. AtRest(b)'
  BY <1>1, <1>4, SettledStays DEF AtRest, Opened, Resting
<1>6. Ahead(plan, b)'
  BY <1>1, <1>3, AheadStays DEF Ahead
<1> QED BY <1>1, <1>2, <1>5, <1>6 DEF SessionInv, Doing

LEMMA CloseSession ==
    ASSUME SessionInv, Close PROVE SessionInv'
<1>1. /\ opened' = "closed" /\ plan' = <<>> /\ steps' = <<>> /\ wire' = <<>>
      /\ owed' = <<>> /\ got' = <<>>
      /\ UNCHANGED <<currentir, sm, last, tap, irShift, ir, dr, captured>>
  BY DEF Close, tapVars
<1>2. TypeInv'
  <2>1. <<>> \in Seq(Calling) /\ <<>> \in Calling /\ <<>> \in Seq(Edges) /\ <<>> \in Seq(Bit) /\ <<>> \in Seq(Jobs)
    BY EmptySeq DEF Calling
  <2> QED BY <1>1, <2>1 DEF SessionInv, TypeInv
<1> QED BY <1>1, <1>2 DEF SessionInv

-----------------------------------------------------------------------------
(* What the calls of PulpOCD and the opening of a session are made of.     *)
LEMMA OneMore ==
    ASSUME NEW S, NEW p \in Seq(S), p # <<>> PROVE p = <<Head(p)>> \o Tail(p)
<1>1. /\ Head(p) \in S /\ Tail(p) \in Seq(S) /\ Len(Tail(p)) = Len(p) - 1
      /\ \A i \in 1..Len(Tail(p)) : Tail(p)[i] = p[i + 1]
      /\ Len(p) \in Nat \ {0} /\ Head(p) = p[1]
  BY HeadTailProperties, EmptySeq
<1>2. PICK c \in S : c = Head(p)
  BY <1>1
<1>3. PICK t \in Seq(S) : t = Tail(p)
  BY <1>1
<1>4. <<c>> \in Seq(S) /\ Len(<<c>>) = 1 /\ <<c>>[1] = c
  OBVIOUS
<1>5. /\ Len(<<c>> \o t) = 1 + Len(t) /\ <<c>> \o t \in Seq(S)
      /\ \A i \in 1 .. 1 + Len(t) : (<<c>> \o t)[i] = IF i <= 1 THEN <<c>>[i] ELSE t[i - 1]
  BY <1>4, ConcatProperties
<1>6. PICK q \in Seq(S) : q = <<c>> \o t
  BY <1>5
<1>7. Len(q) = Len(p)
  BY <1>1, <1>3, <1>5, <1>6
<1>8. ASSUME NEW i \in 1..Len(q) PROVE q[i] = p[i]
  <2>1. CASE i = 1
    BY <1>1, <1>2, <1>4, <1>5, <1>6, <1>7, <2>1
  <2>2. CASE i # 1
    <3>1. i - 1 \in 1..Len(t) /\ (i - 1) + 1 = i
      BY <1>1, <1>3, <1>7, <2>2
    <3>2. q[i] = t[i - 1]
      BY <1>1, <1>3, <1>5, <1>6, <1>7, <2>2
    <3>3. t[i - 1] = p[(i - 1) + 1]
      BY <1>1, <1>3, <3>1
    <3> QED BY <3>1, <3>2, <3>3
  <2> QED BY <2>1, <2>2
<1>9. p = <<c>> \o t
  BY <1>6, <1>7, <1>8, SeqEqual
<1> QED BY <1>2, <1>3, <1>9

LEMMA LeadsStep ==
    ASSUME NEW p \in Seq(Calling), p # <<>>, NEW a \in Situation, NEW m \in Situation, NEW b,
           Does(Head(p), a, m), Leads(Tail(p), m, b)
    PROVE  Leads(p, a, b)
<1>1. Head(p) \in Calling /\ Tail(p) \in Seq(Calling)
  BY HeadTailProperties
<1>2. PICK c \in Calling : c = Head(p)
  BY <1>1
<1>3. PICK t \in Seq(Calling) : t = Tail(p)
  BY <1>1
<1>4. Leads(<<c>> \o t, a, b)
  BY <1>2, <1>3, LeadsOn
<1> QED BY <1>2, <1>3, <1>4, OneMore

LEMMA LeadsThrough ==
    ASSUME NEW p \in Seq(Calling), NEW q \in Seq(Calling), NEW a, NEW m, NEW b,
           Leads(p, a, m), Leads(q, m, b)
    PROVE  Leads(p \o q, a, b) /\ p \o q \in Seq(Calling)
<1>1. PICK s \in [1 .. Len(p) + 1 -> Situation] :
          /\ s[1] = a /\ s[Len(p) + 1] = m
          /\ \A i \in 1..Len(p) : Does(p[i], s[i], s[i + 1])
  BY DEF Leads
<1>2. PICK t \in [1 .. Len(q) + 1 -> Situation] :
          /\ t[1] = m /\ t[Len(q) + 1] = b
          /\ \A i \in 1..Len(q) : Does(q[i], t[i], t[i + 1])
  BY DEF Leads
<1>3. /\ p \o q \in Seq(Calling) /\ Len(p \o q) = Len(p) + Len(q)
      /\ \A i \in 1 .. Len(p) + Len(q) : (p \o q)[i] = IF i <= Len(p) THEN p[i] ELSE q[i - Len(p)]
      /\ Len(p) \in Nat /\ Len(q) \in Nat
  BY ConcatProperties, LenProperties
<1>4. PICK r : r = p \o q
  OBVIOUS
<1> DEFINE u == [i \in 1 .. Len(p) + Len(q) + 1 |-> IF i <= Len(p) THEN s[i] ELSE t[i - Len(p)]]
<1>5. u \in [1 .. Len(r) + 1 -> Situation]
  <2>1. ASSUME NEW i \in 1 .. Len(p) + Len(q) + 1
        PROVE  (IF i <= Len(p) THEN s[i] ELSE t[i - Len(p)]) \in Situation
    <3>1. CASE i <= Len(p)
      <4>1. i \in 1 .. Len(p) + 1
        BY <3>1, <1>3
      <4> QED BY <3>1, <4>1
    <3>2. CASE ~(i <= Len(p))
      <4>1. i - Len(p) \in 1 .. Len(q) + 1
        BY <3>2, <1>3
      <4> QED BY <3>2, <4>1
    <3> QED BY <3>1, <3>2
  <2>2. Len(r) + 1 = Len(p) + Len(q) + 1
    BY <1>3, <1>4
  <2> QED BY <2>1, <2>2
<1>6. u[1] = a
  <2>1. CASE Len(p) = 0
    BY <1>1, <1>2, <1>3, <2>1
  <2>2. CASE Len(p) # 0
    BY <1>1, <1>3, <2>2
  <2> QED BY <2>1, <2>2
<1>7. u[Len(r) + 1] = b
  <2>1. /\ Len(r) + 1 = Len(p) + Len(q) + 1 /\ Len(p) + Len(q) + 1 - Len(p) = Len(q) + 1
        /\ ~(Len(p) + Len(q) + 1 <= Len(p)) /\ Len(p) + Len(q) + 1 \in 1 .. Len(p) + Len(q) + 1
    BY <1>3, <1>4
  <2> QED BY <2>1, <1>2
<1>8. ASSUME NEW i \in 1..Len(r) PROVE Does(r[i], u[i], u[i + 1])
  <2>1. i \in 1 .. Len(p) + Len(q) /\ i + 1 \in 1 .. Len(p) + Len(q) + 1 /\ i \in 1 .. Len(p) + Len(q) + 1
    BY <1>3, <1>4
  <2>2. CASE i <= Len(p)
    <3>1. i \in 1..Len(p) /\ r[i] = p[i] /\ u[i] = s[i]
      BY <2>1, <2>2, <1>3, <1>4
    <3>2. u[i + 1] = s[i + 1]
      <4>1. CASE i + 1 <= Len(p)
        BY <4>1, <2>1
      <4>2. CASE ~(i + 1 <= Len(p))
        <5>1. i + 1 = Len(p) + 1 /\ (i + 1) - Len(p) = 1
          BY <4>2, <2>2, <1>3
        <5>2. u[i + 1] = t[1]
          BY <5>1, <4>2, <2>1
        <5> QED BY <5>1, <5>2, <1>1, <1>2
      <4> QED BY <4>1, <4>2
    <3>3. Does(p[i], s[i], s[i + 1])
      BY <3>1, <1>1
    <3> QED BY <3>1, <3>2, <3>3
  <2>3. CASE ~(i <= Len(p))
    <3>1. i - Len(p) \in 1..Len(q) /\ ~(i + 1 <= Len(p)) /\ (i - Len(p)) + 1 = (i + 1) - Len(p)
      BY <2>1, <2>3, <1>3
    <3>2. r[i] = q[i - Len(p)] /\ u[i] = t[i - Len(p)] /\ u[i + 1] = t[(i + 1) - Len(p)]
      BY <2>1, <2>3, <3>1, <1>3, <1>4
    <3>3. Does(q[i - Len(p)], t[i - Len(p)], t[(i - Len(p)) + 1])
      BY <3>1, <1>2
    <3> QED BY <3>1, <3>2, <3>3
  <2> QED BY <2>2, <2>3
<1>9. Leads(r, a, b)
  <2> HIDE DEF u
  <2> QED BY <1>5, <1>6, <1>7, <1>8 DEF Leads
<1> QED BY <1>3, <1>4, <1>9

At(x, r, l, d) == [at |-> x, reg |-> r, left |-> l, read |-> d]

LEMMA Situations ==
    ASSUME NEW x \in Stops, NEW r \in {"dmi", "dtmcs", "idcode"}, NEW l \in Seq(Jobs), NEW d \in BOOLEAN
    PROVE  /\ At(x, r, l, d) \in Situation
           /\ At(x, r, l, d).at = x /\ At(x, r, l, d).reg = r
           /\ At(x, r, l, d).left = l /\ At(x, r, l, d).read = d
BY DEF At, Situation

LEMMA CallTypes ==
    /\ \A w \in Seq(Bit) : write_ir(w) \in Calling /\ write_dr(w) \in Calling /\ shift_register(w) \in Calling
    /\ \A k \in Nat : read_dr(k) \in Calling /\ write_tms(k) \in Calling
    /\ reset \in Calling /\ go_idle \in Calling /\ capture_ir \in Calling
<1>1. ASSUME NEW x \in Ops, NEW y \in Ops, NEW z \in Ops
      PROVE  <<x>> \in Calling /\ <<x, y>> \in Calling /\ <<x, y, z>> \in Calling
  BY DEF Calling
<1>2. \A s \in States : Goto(s) \in Ops
  BY DEF Goto, Ops
<1>3. \A w \in Seq(Bit) : Put(w) \in Ops /\ Push(w) \in Ops
  BY DEF Put, Push, Ops
<1>4. \A k \in Nat : Get(k) \in Ops /\ Wait(k) \in Ops
  BY DEF Get, Wait, Ops
<1>5. Ones5 \in Ops
  BY DEF Ones5, Ops
<1>6. /\ Goto("shift_ir") \in Ops /\ Goto("update_ir") \in Ops /\ Goto("shift_dr") \in Ops
      /\ Goto("update_dr") \in Ops /\ Goto("run_test_idle") \in Ops /\ Goto("capture_ir") \in Ops
  BY <1>2, ExitTable
<1>7. ASSUME NEW w \in Seq(Bit)
      PROVE  write_ir(w) \in Calling /\ write_dr(w) \in Calling /\ shift_register(w) \in Calling
  BY <1>1, <1>3, <1>6 DEF write_ir, write_dr, shift_register
<1>8. ASSUME NEW k \in Nat PROVE read_dr(k) \in Calling /\ write_tms(k) \in Calling
  BY <1>1, <1>4, <1>6 DEF read_dr, write_tms
<1>9. reset \in Calling /\ go_idle \in Calling /\ capture_ir \in Calling
  BY <1>1, <1>5, <1>6 DEF reset, go_idle, capture_ir
<1> QED BY <1>7, <1>8, <1>9

(* One call at a time. *)
LEMMA WriteLeads ==
    ASSUME NEW x \in {"run_test_idle", "update_dr", "update_ir"}, NEW r \in {"dmi", "dtmcs", "idcode"},
           NEW w \in Strings, NEW l \in Seq(Jobs), NEW k \in Seq(Jobs),
           Ftdi => Len(w) = Size(r) /\ k = Job(r, w) \o l
    PROVE  /\ Does(write_dr(w), At(x, r, k, FALSE), At("update_dr", r, l, FALSE))
           /\ At("update_dr", r, l, FALSE) \in Situation
<1>1. WritesDr(write_dr(w), At(x, r, k, FALSE), At("update_dr", r, l, FALSE))
  BY DEF WritesDr, At
<1>2. At("update_dr", r, l, FALSE) \in Situation
  BY DEF At, Situation, Stops
<1> QED BY <1>1, <1>2 DEF Does

LEMMA ReadLeads ==
    ASSUME NEW x \in {"run_test_idle", "test_logic_reset"}, NEW r \in {"dmi", "dtmcs", "idcode"},
           NEW n \in Nat \ {0}, NEW l \in Seq(Jobs), NEW k \in Seq(Jobs),
           Ftdi => n = Size(r) /\ k = Job(r, Zeros(n)) \o l
    PROVE  /\ Does(read_dr(n), At(x, r, k, FALSE), At("update_dr", r, l, TRUE))
           /\ At("update_dr", r, l, TRUE) \in Situation
<1>1. ReadsDr(read_dr(n), At(x, r, k, FALSE), At("update_dr", r, l, TRUE))
  BY DEF ReadsDr, At
<1>2. At("update_dr", r, l, TRUE) \in Situation
  BY DEF At, Situation, Stops
<1> QED BY <1>1, <1>2 DEF Does

LEMMA IdleLeads ==
    ASSUME NEW x \in {"run_test_idle", "update_dr"}, NEW r \in {"dmi", "dtmcs", "idcode"},
           NEW l \in Seq(Jobs), NEW d \in BOOLEAN
    PROVE  /\ Does(go_idle, At(x, r, l, d), At("run_test_idle", r, l, d))
           /\ \A n \in Nat : Does(write_tms(n), At("run_test_idle", r, l, d), At("run_test_idle", r, l, d))
           /\ At("run_test_idle", r, l, d) \in Situation
<1>1. GoesIdle(go_idle, At(x, r, l, d), At("run_test_idle", r, l, d))
  BY DEF GoesIdle, At, Same
<1>2. \A n \in Nat : Waits(write_tms(n), At("run_test_idle", r, l, d), At("run_test_idle", r, l, d))
  BY DEF Waits, At, Same
<1> QED BY <1>1, <1>2, Situations DEF Does, Stops

LEMMA IrLeads ==
    ASSUME NEW x \in {"run_test_idle", "update_dr", "shift_ir"}, NEW r \in {"dmi", "dtmcs", "idcode"},
           NEW i \in {"dmi", "dtmcs", "idcode"}, NEW w \in Strings, NEW l \in Seq(Jobs),
           Ftdi => w = Code[i]
    PROVE  /\ Does(write_ir(w), At(x, r, l, FALSE), At("update_ir", i, l, FALSE))
           /\ At("update_ir", i, l, FALSE) \in Situation
<1>1. WritesIr(write_ir(w), At(x, r, l, FALSE), At("update_ir", i, l, FALSE))
  BY DEF WritesIr, At
<1>2. At("update_ir", i, l, FALSE) \in Situation
  BY DEF At, Situation, Stops
<1> QED BY <1>1, <1>2 DEF Does

(* Lists of calls. *)
LEMMA Lists ==
    ASSUME NEW S, NEW a \in S, NEW b \in S, NEW c \in S, NEW d \in S, NEW e \in S, NEW f \in S
    PROVE  /\ <<>> \in Seq(S)
           /\ <<a>> \in Seq(S) /\ <<a>> # <<>> /\ Head(<<a>>) = a /\ Tail(<<a>>) = <<>>
           /\ <<a, b>> \in Seq(S) /\ <<a, b>> # <<>> /\ Head(<<a, b>>) = a /\ Tail(<<a, b>>) = <<b>>
           /\ <<a, b, c>> \in Seq(S) /\ <<a, b, c>> # <<>>
           /\ Head(<<a, b, c>>) = a /\ Tail(<<a, b, c>>) = <<b, c>>
           /\ <<a, b, c, d>> \in Seq(S) /\ <<a, b, c, d>> # <<>>
           /\ Head(<<a, b, c, d>>) = a /\ Tail(<<a, b, c, d>>) = <<b, c, d>>
           /\ <<a, b, c, d, e>> \in Seq(S) /\ <<a, b, c, d, e>> # <<>>
           /\ Head(<<a, b, c, d, e>>) = a /\ Tail(<<a, b, c, d, e>>) = <<b, c, d, e>>
           /\ <<a, b, c, d, e, f>> \in Seq(S) /\ <<a, b, c, d, e, f>> # <<>>
           /\ Head(<<a, b, c, d, e, f>>) = a /\ Tail(<<a, b, c, d, e, f>>) = <<b, c, d, e, f>>
OBVIOUS

LEMMA LeadsByOne ==
    ASSUME NEW c \in Calling, NEW a \in Situation, NEW b \in Situation, Does(c, a, b)
    PROVE  Leads(<<c>>, a, b) /\ <<c>> \in Seq(Calling)
<1>1. Leads(<<>>, b, b)
  BY LeadsNowhere
<1>2. <<c>> \in Seq(Calling) /\ <<c>> # <<>> /\ Head(<<c>>) = c /\ Tail(<<c>>) = <<>>
  BY Lists
<1> QED BY <1>1, <1>2, LeadsStep

LEMMA LeadsByTwo ==
    ASSUME NEW c \in Calling, NEW d \in Calling, NEW a \in Situation, NEW m \in Situation,
           NEW b \in Situation, Does(c, a, m), Does(d, m, b)
    PROVE  Leads(<<c, d>>, a, b) /\ <<c, d>> \in Seq(Calling)
<1>1. Leads(<<d>>, m, b)
  BY LeadsByOne
<1>2. <<c, d>> \in Seq(Calling) /\ <<c, d>> # <<>> /\ Head(<<c, d>>) = c /\ Tail(<<c, d>>) = <<d>>
  BY Lists
<1> QED BY <1>1, <1>2, LeadsStep

LEMMA LeadsByThree ==
    ASSUME NEW c \in Calling, NEW d \in Calling, NEW e \in Calling, NEW a \in Situation,
           NEW m \in Situation, NEW n \in Situation, NEW b \in Situation,
           Does(c, a, m), Does(d, m, n), Does(e, n, b)
    PROVE  Leads(<<c, d, e>>, a, b) /\ <<c, d, e>> \in Seq(Calling)
<1>1. Leads(<<d, e>>, m, b)
  BY LeadsByTwo
<1>2. /\ <<c, d, e>> \in Seq(Calling) /\ <<c, d, e>> # <<>>
      /\ Head(<<c, d, e>>) = c /\ Tail(<<c, d, e>>) = <<d, e>>
  BY Lists
<1> QED BY <1>1, <1>2, LeadsStep

LEMMA LeadsByFour ==
    ASSUME NEW c \in Calling, NEW d \in Calling, NEW e \in Calling, NEW f \in Calling,
           NEW a \in Situation, NEW m \in Situation, NEW n \in Situation, NEW o \in Situation,
           NEW b \in Situation, Does(c, a, m), Does(d, m, n), Does(e, n, o), Does(f, o, b)
    PROVE  Leads(<<c, d, e, f>>, a, b) /\ <<c, d, e, f>> \in Seq(Calling)
<1>1. Leads(<<d, e, f>>, m, b)
  BY LeadsByThree
<1>2. /\ <<c, d, e, f>> \in Seq(Calling) /\ <<c, d, e, f>> # <<>>
      /\ Head(<<c, d, e, f>>) = c /\ Tail(<<c, d, e, f>>) = <<d, e, f>>
  BY Lists
<1> QED BY <1>1, <1>2, LeadsStep

LEMMA BitLists ==
    /\ VIR \in Strings /\ VDR \in Strings
    /\ \A r \in DOMAIN Code : Append(Code[r], 1) \in Strings
<1>1. 0 \in Bit /\ 1 \in Bit
  BY DEF Bit
<1>2. ASSUME NEW x \in Bit, NEW y \in Bit
      PROVE  <<x, y, y, y, x, x, x, x, x, x>> \in Strings /\ <<x, x, y, y, x, x, x, x, x, x>> \in Strings
  BY DEF Strings
<1>3. VIR \in Strings /\ VDR \in Strings
  BY <1>1, <1>2 DEF VIR, VDR
<1>4. ASSUME NEW r \in DOMAIN Code PROVE Append(Code[r], 1) \in Strings
  BY <1>1, CodesAreStrings, AppendProperties DEF Strings
<1> QED BY <1>3, <1>4

LEMMA InstructLeads ==
    ASSUME NEW x \in {"run_test_idle", "update_dr", "shift_ir"}, NEW r \in {"dmi", "dtmcs", "idcode"},
           NEW i \in {"dmi", "dtmcs"}, NEW l \in Seq(Jobs)
    PROVE  /\ Leads(Instruct(i), At(x, r, l, FALSE), At("update_ir", i, l, FALSE))
           /\ Instruct(i) \in Seq(Calling)
<1> DEFINE a == At(x, r, l, FALSE)
<1> DEFINE b == At("update_ir", i, l, FALSE)
<1>1. a \in Situation /\ b \in Situation
  BY DEF At, Situation, Stops
<1>2. i \in DOMAIN Code /\ Code[i] \in Strings
  BY CodesDiffer, CodesAreStrings
<1>3. CASE Ftdi
  <2>1. Does(write_ir(Code[i]), a, b)
    BY <1>2, IrLeads
  <2>2. write_ir(Code[i]) \in Calling
    BY <1>2, CallTypes DEF Strings
  <2>3. Instruct(i) = <<write_ir(Code[i])>>
    BY <1>3 DEF Instruct, HasVirtual, Ftdi
  <2> QED BY <2>1, <2>2, <2>3, <1>1, LeadsByOne
<1>4. CASE ~Ftdi
  <2> DEFINE m == At("update_ir", i, l, FALSE)
  <2> DEFINE n == At("update_dr", i, l, FALSE)
  <2>1. Does(write_ir(VIR), a, m)
    BY <1>4, BitLists, IrLeads
  <2>2. Does(write_dr(Append(Code[i], 1)), m, n) /\ n \in Situation
    BY <1>2, <1>4, BitLists, WriteLeads
  <2>3. Does(write_ir(VDR), n, b)
    BY <1>4, BitLists, IrLeads
  <2>4. write_ir(VIR) \in Calling /\ write_dr(Append(Code[i], 1)) \in Calling /\ write_ir(VDR) \in Calling
    BY <1>2, BitLists, CallTypes DEF Strings
  <2>5. Instruct(i) = <<write_ir(VIR), write_dr(Append(Code[i], 1)), write_ir(VDR)>>
    BY <1>4, ConstantsAssumption DEF Instruct, HasVirtual, Ftdi, write_vir
  <2> QED BY <2>1, <2>2, <2>3, <2>4, <2>5, <1>1, LeadsByThree
<1> QED BY <1>3, <1>4

LEMMA DmiSelected ==
    ASSUME NEW b \in Situation, Ends(b), NEW l \in Seq(Jobs), currentir \in {"none", "dmi"}
    PROVE  \E x \in {"run_test_idle", "update_dr", "update_ir"} :
               /\ Leads(SelectIr(currentir, "dmi"), At(b.at, b.reg, l, FALSE), At(x, "dmi", l, FALSE))
               /\ SelectIr(currentir, "dmi") \in Seq(Calling)
<1>1. CASE currentir = "dmi"
  <2>1. b.reg = "dmi" /\ b.at \in {"run_test_idle", "update_dr"} /\ SelectIr(currentir, "dmi") = <<>>
    BY <1>1 DEF Ends, SelectIr
  <2>2. At(b.at, b.reg, l, FALSE) \in Situation
    BY <2>1 DEF At, Situation, Stops
  <2>3. PICK x \in {"run_test_idle", "update_dr", "update_ir"} : x = b.at
    BY <2>1
  <2>4. At(b.at, b.reg, l, FALSE) = At(x, "dmi", l, FALSE) /\ <<>> \in Seq(Calling)
    BY <2>1, <2>3, EmptySeq
  <2>5. Leads(<<>>, At(b.at, b.reg, l, FALSE), At(x, "dmi", l, FALSE))
    BY <2>2, <2>4, LeadsNowhere
  <2> QED BY <2>1, <2>4, <2>5
<1>2. CASE currentir = "none"
  <2>1. b.reg = "idcode" /\ b.at = "shift_ir" /\ SelectIr(currentir, "dmi") = Instruct("dmi")
    BY <1>2 DEF Ends, SelectIr
  <2> QED BY <2>1, InstructLeads
<1> QED BY <1>1, <1>2

LEMMA WordTypes ==
    \A w \in Words : w \in Strings /\ Len(w) = Size("dmi")
<1> SUFFICES ASSUME NEW w \in Words PROVE w \in Strings /\ Len(w) = Size("dmi")
  OBVIOUS
<1>1. w \in [1..DmiLen -> Bit] /\ DmiLen \in Nat \ {0}
  BY ConstantsAssumption
<1>2. w \in Seq(Bit) /\ Len(w) = DmiLen
  BY <1>1
<1>3. w # <<>>
  BY <1>1, <1>2, EmptySeq
<1> QED BY <1>2, <1>3 DEF Strings, Size

LEMMA PutApbLeads ==
    ASSUME NEW x \in {"run_test_idle", "update_dr", "update_ir"}, NEW w \in Words, NEW l \in Seq(Jobs),
           NEW k \in Seq(Jobs), k = <<<<"dmi", w>>>> \o l
    PROVE  /\ Leads(PutApb(w), At(x, "dmi", k, FALSE), At("run_test_idle", "dmi", l, FALSE))
           /\ PutApb(w) \in Seq(Calling)
<1> DEFINE a == At(x, "dmi", k, FALSE)
<1> DEFINE m == At("update_dr", "dmi", l, FALSE)
<1> DEFINE b == At("run_test_idle", "dmi", l, FALSE)
<1>1. a \in Situation /\ m \in Situation /\ b \in Situation
  BY DEF At, Situation, Stops
<1>2. w \in Strings /\ Len(w) = Size("dmi") /\ k = Job("dmi", w) \o l
  BY WordTypes DEF Job
<1>3. Does(write_dr(w), a, m)
  BY <1>2, WriteLeads
<1>4. Does(go_idle, m, b) /\ Does(write_tms(5), b, b)
  BY IdleLeads
<1>5. write_dr(w) \in Calling /\ go_idle \in Calling /\ write_tms(5) \in Calling
  BY <1>2, CallTypes DEF Strings
<1> HIDE DEF a, m, b
<1>6. /\ Leads(<<write_dr(w), go_idle, write_tms(5), write_tms(5)>>, a, b)
      /\ <<write_dr(w), go_idle, write_tms(5), write_tms(5)>> \in Seq(Calling)
  BY <1>1, <1>3, <1>4, <1>5, LeadsByFour
<1> QED BY <1>6 DEF PutApb, a, b

LEMMA GetApbLeads ==
    ASSUME NEW x \in {"run_test_idle", "update_dr", "update_ir"}, NEW w \in Words, NEW l \in Seq(Jobs),
           NEW h \in Seq(Jobs), h = <<<<"dmi", Zeros(DmiLen)>>>> \o l,
           NEW k \in Seq(Jobs), k = <<<<"dmi", w>>>> \o h
    PROVE  /\ Leads(GetApb(w), At(x, "dmi", k, FALSE), At("update_dr", "dmi", l, TRUE))
           /\ GetApb(w) \in Seq(Calling)
<1> DEFINE a == At(x, "dmi", k, FALSE)
<1> DEFINE m == At("update_dr", "dmi", h, FALSE)
<1> DEFINE n == At("run_test_idle", "dmi", h, FALSE)
<1> DEFINE b == At("update_dr", "dmi", l, TRUE)
<1>1. a \in Situation /\ m \in Situation /\ n \in Situation /\ b \in Situation
  BY DEF At, Situation, Stops
<1>2. w \in Strings /\ Len(w) = Size("dmi") /\ k = Job("dmi", w) \o h
  BY WordTypes DEF Job
<1>3. Does(write_dr(w), a, m)
  BY <1>2, WriteLeads
<1>4. Does(go_idle, m, n) /\ Does(write_tms(7), n, n)
  BY IdleLeads
<1>5. DmiLen \in Nat \ {0} /\ DmiLen = Size("dmi") /\ h = Job("dmi", Zeros(DmiLen)) \o l
  BY ConstantsAssumption DEF Size, Job
<1>6. Does(read_dr(DmiLen), n, b)
  BY <1>5, ReadLeads
<1>7. /\ write_dr(w) \in Calling /\ go_idle \in Calling /\ write_tms(7) \in Calling
      /\ read_dr(DmiLen) \in Calling
  BY <1>2, <1>5, CallTypes DEF Strings
<1> HIDE DEF a, m, n, b
<1>8. PICK c \in Calling, d \in Calling, e \in Calling, f \in Calling :
          c = write_dr(w) /\ d = go_idle /\ e = write_tms(7) /\ f = read_dr(DmiLen)
  BY <1>7
<1>9. Does(c, a, m) /\ Does(d, m, n) /\ Does(e, n, n) /\ Does(f, n, b)
  BY <1>3, <1>4, <1>6, <1>8
<1>10. PICK p \in Seq(Calling) : p = <<e, e, e, f>> /\ Leads(p, n, b)
  BY <1>1, <1>9, LeadsByFour
<1>11. PICK q \in Seq(Calling) : q = <<d, e, e, e, f>> /\ Leads(q, m, b)
  <2>1. <<d, e, e, e, f>> \in Seq(Calling) /\ <<d, e, e, e, f>> # <<>> /\ Head(<<d, e, e, e, f>>) = d /\ Tail(<<d, e, e, e, f>>) = <<e, e, e, f>>
    BY Lists
  <2>2. PICK q : q = <<d, e, e, e, f>>
    OBVIOUS
  <2>3. q \in Seq(Calling) /\ q # <<>> /\ Head(q) = d /\ Tail(q) = p
    BY <2>1, <2>2, <1>10
  <2>4. Leads(q, m, b)
    BY <2>3, <1>1, <1>9, <1>10, LeadsStep
  <2> QED BY <2>2, <2>3, <2>4
<1>12. PICK r \in Seq(Calling) : r = <<c, d, e, e, e, f>> /\ Leads(r, a, b)
  <2>1. <<c, d, e, e, e, f>> \in Seq(Calling) /\ <<c, d, e, e, e, f>> # <<>> /\ Head(<<c, d, e, e, e, f>>) = c /\ Tail(<<c, d, e, e, e, f>>) = <<d, e, e, e, f>>
    BY Lists
  <2>2. PICK r : r = <<c, d, e, e, e, f>>
    OBVIOUS
  <2>3. r \in Seq(Calling) /\ r # <<>> /\ Head(r) = c /\ Tail(r) = q
    BY <2>1, <2>2, <1>11
  <2>4. Leads(r, a, b)
    BY <2>3, <1>1, <1>9, <1>11, LeadsStep
  <2> QED BY <2>2, <2>3, <2>4
<1>13. GetApb(w) = r
  BY <1>8, <1>12 DEF GetApb
<1> QED BY <1>12, <1>13 DEF a, b

(* A call of PulpOCD starts where the one before has left the TAP.         *)
LEMMA CallsSession ==
    ASSUME SessionInv, NEW calls \in Seq(Calling), NEW jobs \in Seq(Jobs), Calls(calls, jobs),
           NEW b \in Situation, Settled(b), b.left = <<>>, currentir' = "dmi",
           NEW z \in Situation, z.left = <<>>, z.reg = "dmi", z.at \in {"run_test_idle", "update_dr"},
           z.at = "update_dr" => z.read, Leads(calls, At(b.at, b.reg, jobs, FALSE), z)
    PROVE  SessionInv'
<1> DEFINE a == At(b.at, b.reg, jobs, FALSE)
<1>1. /\ opened = "open" /\ steps = <<>> /\ wire = <<>>
      /\ plan' = calls /\ owed' = owed \o jobs /\ got' = <<>>
      /\ UNCHANGED <<opened, steps, wire, sm, last, tap, irShift, ir, dr, captured>>
  BY DEF Calls, Resting, tapVars
<1>2. TypeInv'
  <2>1. owed \in Seq(Jobs)
    BY DEF SessionInv, TypeInv
  <2>2. owed' \in Seq(Jobs) /\ got' \in Seq(Bit)
    BY <1>1, <2>1, ConcatProperties, EmptySeq
  <2> QED BY <1>1, <2>2 DEF SessionInv, TypeInv
<1>3. a \in Situation /\ a.at = b.at /\ a.reg = b.reg /\ a.left = jobs /\ a.read = FALSE
  BY SituationTypes, CodesDiffer DEF At, Situation
<1>4. Settled(a)'
  <2>1. (Ftdi' <=> Ftdi) /\ Selected' = Selected /\ Acts' = Acts
    BY <1>1 DEF Ftdi, Selected, Acts
  <2>2. ASSUME Ftdi PROVE InForce(a.reg)' /\ Owed(jobs)' /\ Kept(a)'
    <3>1. InForce(a.reg)'
      BY <1>1, <1>3, <2>2 DEF Settled, InForce
    <3>2. Owed(jobs)'
      <4>1. owed = IF Acts THEN <<<<Selected, dr>>>> \o <<>> ELSE <<>>
        BY <2>2 DEF Settled, Owed
      <4>2. CASE Acts
        <5>1. PICK d : d = <<Selected, dr>>
          OBVIOUS
        <5>2. d \in Jobs
          BY <4>2, <5>1 DEF SessionInv, TypeInv, Acts, Jobs, Strings
        <5>3. <<d>> \in Seq(Jobs)
          BY <5>2
        <5>4. owed = <<d>> \o <<>>
          BY <4>1, <4>2, <5>1
        <5>5. owed = <<d>>
          BY <5>3, <5>4, ConcatEmptySeq
        <5> QED BY <1>1, <2>1, <4>2, <5>1, <5>5 DEF Owed
      <4>3. CASE ~Acts
        <5>1. owed' = jobs
          BY <1>1, <4>1, <4>3, ConcatEmptySeq
        <5> QED BY <2>1, <4>3, <5>1 DEF Owed
      <4> QED BY <4>2, <4>3
    <3>3. Kept(a)'
      BY <1>1, <1>3 DEF Kept
    <3> QED BY <3>1, <3>2, <3>3
  <2>3. wire' = <<>> /\ tap' = a.at /\ sm' = a.at
    BY <1>1, <1>3 DEF Settled
  <2> QED BY <1>3, <2>1, <2>2, <2>3 DEF Settled
<1>5. AtRest(a)'
  BY <1>1, <1>4 DEF AtRest
<1>6. Ends(z)'
  BY DEF Ends
<1>7. Ahead(plan, a)'
  BY <1>1, <1>6 DEF Ahead, Leads
<1> QED BY <1>1, <1>2, <1>3, <1>5, <1>7 DEF SessionInv, Doing

LEMMA RestingSession ==
    ASSUME SessionInv, opened = "open", Resting
    PROVE  \E b \in Situation : Settled(b) /\ Ends(b) /\ b.left = <<>>
<1>1. TypeInv /\ opened # "closed" /\ ~Fresh /\ plan = <<>> /\ steps = <<>> /\ wire = <<>>
  BY DEF SessionInv, Fresh, Resting
<1>2. PICK b \in Situation : Doing(b) /\ Ahead(plan, b)
  BY <1>1 DEF SessionInv
<1>3. PICK z \in Situation : Leads(<<>>, b, z) /\ Ends(z)
  BY <1>1, <1>2 DEF Ahead
<1>4. z = b
  BY <1>3, LeadsNowhere
<1> QED BY <1>1, <1>2, <1>3, <1>4, ComesToRest DEF Ends

LEMMA JobLists ==
    ASSUME NEW a \in Jobs, NEW b \in Jobs, NEW c \in Jobs
    PROVE  /\ <<>> \in Seq(Jobs) /\ <<a>> \in Seq(Jobs) /\ <<a, b>> \in Seq(Jobs) /\ <<b, c>> \in Seq(Jobs)
           /\ <<a, b, c>> \in Seq(Jobs)
           /\ <<a>> = <<a>> \o <<>> /\ <<a, b>> = <<a>> \o <<b>> /\ <<a, b, c>> = <<a>> \o <<b, c>>
<1>1. /\ <<>> \in Seq(Jobs) /\ <<a>> \in Seq(Jobs) /\ <<b>> \in Seq(Jobs) /\ <<a, b>> \in Seq(Jobs)
      /\ <<b, c>> \in Seq(Jobs) /\ <<a, b, c>> \in Seq(Jobs)
  OBVIOUS
<1>2. <<a>> \o <<>> = <<a>>
  BY <1>1, ConcatEmptySeq
<1>3. <<a, b>> = <<a>> \o <<b>>
  <2>1. Head(<<a, b>>) = a /\ Tail(<<a, b>>) = <<b>> /\ <<a, b>> # <<>>
    OBVIOUS
  <2> QED BY <1>1, <2>1, OneMore
<1>4. <<a, b, c>> = <<a>> \o <<b, c>>
  <2>1. Tail(<<a, b, c>>) = <<b, c>> /\ Head(<<a, b, c>>) = a /\ <<a, b, c>> # <<>>
    OBVIOUS
  <2> QED BY <1>1, <2>1, OneMore
<1> QED BY <1>1, <1>2, <1>3, <1>4

LEMMA WriteapbSession ==
    ASSUME SessionInv, NEW w \in Words, writeapb(w) PROVE SessionInv'
<1> DEFINE jobs == <<<<"dmi", w>>>>
<1> DEFINE calls == SelectIr(currentir, "dmi") \o PutApb(w)
<1> DEFINE z == At("run_test_idle", "dmi", <<>>, FALSE)
<1>1. Calls(calls, jobs) /\ currentir' = "dmi" /\ opened = "open" /\ Resting
  BY DEF writeapb, Calls
<1>2. <<"dmi", w>> \in Jobs
  BY WordTypes DEF Jobs, Strings
<1>3. jobs \in Seq(Jobs) /\ jobs = jobs \o <<>> /\ <<>> \in Seq(Jobs)
  BY <1>2, JobLists
<1>4. PICK b \in Situation : Settled(b) /\ Ends(b) /\ b.left = <<>>
  BY <1>1, RestingSession
<1>5. currentir \in {"none", "dmi"}
  BY DEF SessionInv, TypeInv
<1>6. PICK x \in {"run_test_idle", "update_dr", "update_ir"} :
          /\ Leads(SelectIr(currentir, "dmi"), At(b.at, b.reg, jobs, FALSE), At(x, "dmi", jobs, FALSE))
          /\ SelectIr(currentir, "dmi") \in Seq(Calling)
  BY <1>3, <1>4, <1>5, DmiSelected
<1>7. Leads(PutApb(w), At(x, "dmi", jobs, FALSE), z) /\ PutApb(w) \in Seq(Calling)
  BY <1>3, PutApbLeads
<1>8. Leads(calls, At(b.at, b.reg, jobs, FALSE), z) /\ calls \in Seq(Calling)
  BY <1>6, <1>7, LeadsThrough
<1>9. z \in Situation /\ z.left = <<>> /\ z.reg = "dmi" /\ z.at = "run_test_idle"
  BY <1>3 DEF At, Situation, Stops
<1> HIDE DEF jobs, calls, z
<1> QED BY <1>1, <1>3, <1>4, <1>8, <1>9, CallsSession

LEMMA ReadapbSession ==
    ASSUME SessionInv, NEW w \in Words, readapb(w) PROVE SessionInv'
<1> DEFINE nop == <<<<"dmi", Zeros(DmiLen)>>>>
<1> DEFINE jobs == <<<<"dmi", w>>, <<"dmi", Zeros(DmiLen)>>>>
<1> DEFINE calls == SelectIr(currentir, "dmi") \o GetApb(w)
<1> DEFINE z == At("update_dr", "dmi", <<>>, TRUE)
<1>1. Calls(calls, jobs) /\ currentir' = "dmi" /\ opened = "open" /\ Resting
  BY DEF readapb, Calls
<1>2. <<"dmi", w>> \in Jobs /\ <<"dmi", Zeros(DmiLen)>> \in Jobs
  BY WordTypes, ZerosAreStrings, ConstantsAssumption DEF Jobs, Strings
<1>3. /\ jobs \in Seq(Jobs) /\ nop \in Seq(Jobs) /\ <<>> \in Seq(Jobs)
      /\ nop = nop \o <<>> /\ jobs = <<<<"dmi", w>>>> \o nop
  BY <1>2, JobLists
<1>4. PICK b \in Situation : Settled(b) /\ Ends(b) /\ b.left = <<>>
  BY <1>1, RestingSession
<1>5. currentir \in {"none", "dmi"}
  BY DEF SessionInv, TypeInv
<1>6. PICK x \in {"run_test_idle", "update_dr", "update_ir"} :
          /\ Leads(SelectIr(currentir, "dmi"), At(b.at, b.reg, jobs, FALSE), At(x, "dmi", jobs, FALSE))
          /\ SelectIr(currentir, "dmi") \in Seq(Calling)
  BY <1>3, <1>4, <1>5, DmiSelected
<1>7. Leads(GetApb(w), At(x, "dmi", jobs, FALSE), z) /\ GetApb(w) \in Seq(Calling)
  BY <1>3, GetApbLeads
<1>8. Leads(calls, At(b.at, b.reg, jobs, FALSE), z) /\ calls \in Seq(Calling)
  BY <1>6, <1>7, LeadsThrough
<1>9. z \in Situation /\ z.left = <<>> /\ z.reg = "dmi" /\ z.at = "update_dr" /\ z.read
  BY <1>3 DEF At, Situation, Stops
<1> HIDE DEF jobs, calls, z, nop
<1> QED BY <1>1, <1>3, <1>4, <1>8, <1>9, CallsSession

LEMMA DmiResetsIsString == DmiResets \in Strings /\ Len(DmiResets) = DtmcsLen
<1>1. DmiResets \in [1..DtmcsLen -> Bit] /\ DtmcsLen \in Nat \ {0}
  BY ConstantsAssumption DEF DmiResets, Bit
<1>2. DmiResets \in Seq(Bit) /\ Len(DmiResets) = DtmcsLen
  BY <1>1
<1>3. DmiResets # <<>>
  BY <1>1, <1>2, EmptySeq
<1> QED BY <1>2, <1>3 DEF Strings

(* From any end of a call to dtmcs, through its two words, and back to dmi. *)
ResetCalls == <<write_dr(DmiResets), go_idle, write_dr(Zeros(DtmcsLen)), go_idle>>

LEMMA ResetLeads ==
    ASSUME NEW l \in Seq(Jobs), NEW h \in Seq(Jobs), h = <<<<"dtmcs", Zeros(DtmcsLen)>>>> \o l,
           NEW k \in Seq(Jobs), k = <<<<"dtmcs", DmiResets>>>> \o h
    PROVE  /\ Leads(ResetCalls, At("update_ir", "dtmcs", k, FALSE), At("run_test_idle", "dtmcs", l, FALSE))
           /\ ResetCalls \in Seq(Calling)
<1> DEFINE a == At("update_ir", "dtmcs", k, FALSE)
<1> DEFINE m == At("update_dr", "dtmcs", h, FALSE)
<1> DEFINE n == At("run_test_idle", "dtmcs", h, FALSE)
<1> DEFINE o == At("update_dr", "dtmcs", l, FALSE)
<1> DEFINE b == At("run_test_idle", "dtmcs", l, FALSE)
<1>1. a \in Situation /\ m \in Situation /\ n \in Situation /\ o \in Situation /\ b \in Situation
  BY DEF At, Situation, Stops
<1>2. DmiResets \in Strings /\ Len(DmiResets) = Size("dtmcs") /\ k = Job("dtmcs", DmiResets) \o h
  BY DmiResetsIsString DEF Job, Size
<1>3. PICK v \in Strings : v = Zeros(DtmcsLen) /\ Len(v) = Size("dtmcs") /\ h = Job("dtmcs", v) \o l
  BY ZerosAreStrings, ConstantsAssumption DEF Job, Size
<1>4. Does(write_dr(DmiResets), a, m)
  BY <1>2, WriteLeads
<1>5. Does(go_idle, m, n) /\ Does(go_idle, o, b)
  BY IdleLeads
<1>6. Does(write_dr(v), n, o)
  BY <1>3, WriteLeads
<1>7. write_dr(DmiResets) \in Calling /\ go_idle \in Calling /\ write_dr(v) \in Calling
  BY <1>2, <1>3, CallTypes DEF Strings
<1> HIDE DEF a, m, n, o, b
<1>8. /\ Leads(<<write_dr(DmiResets), go_idle, write_dr(v), go_idle>>, a, b)
      /\ <<write_dr(DmiResets), go_idle, write_dr(v), go_idle>> \in Seq(Calling)
  BY <1>1, <1>4, <1>5, <1>6, <1>7, LeadsByFour
<1> QED BY <1>3, <1>8 DEF ResetCalls, a, b

LEMMA ResetdmSession ==
    ASSUME SessionInv, NEW w \in Words, resetdm(w) PROVE SessionInv'
<1> DEFINE l == <<<<"dmi", w>>>>
<1> DEFINE h == <<<<"dtmcs", Zeros(DtmcsLen)>>, <<"dmi", w>>>>
<1> DEFINE jobs == <<<<"dtmcs", DmiResets>>, <<"dtmcs", Zeros(DtmcsLen)>>, <<"dmi", w>>>>
<1> DEFINE calls == SelectIr(currentir, "dtmcs") \o ResetCalls \o SelectIr("dtmcs", "dmi")
                        \o PutApb(w) \o <<go_idle>>
<1> DEFINE z == At("run_test_idle", "dmi", <<>>, FALSE)
<1>1. Calls(calls, jobs) /\ currentir' = "dmi" /\ opened = "open" /\ Resting
  BY DEF resetdm, Calls, ResetCalls
<1>2. <<"dmi", w>> \in Jobs /\ <<"dtmcs", Zeros(DtmcsLen)>> \in Jobs /\ <<"dtmcs", DmiResets>> \in Jobs
  BY WordTypes, ZerosAreStrings, DmiResetsIsString, ConstantsAssumption DEF Jobs, Strings
<1>3. /\ jobs \in Seq(Jobs) /\ h \in Seq(Jobs) /\ l \in Seq(Jobs) /\ <<>> \in Seq(Jobs)
      /\ l = l \o <<>> /\ h = <<<<"dtmcs", Zeros(DtmcsLen)>>>> \o l
      /\ jobs = <<<<"dtmcs", DmiResets>>>> \o h
  BY <1>2, JobLists
<1>4. PICK b \in Situation : Settled(b) /\ Ends(b) /\ b.left = <<>>
  BY <1>1, RestingSession
<1>5. /\ b.at \in {"run_test_idle", "update_dr", "shift_ir"} /\ b.reg \in {"dmi", "dtmcs", "idcode"}
      /\ SelectIr(currentir, "dtmcs") = Instruct("dtmcs") /\ SelectIr("dtmcs", "dmi") = Instruct("dmi")
  BY <1>4 DEF Ends, SessionInv, TypeInv, SelectIr
<1> DEFINE c == At(b.at, b.reg, jobs, FALSE)
<1> DEFINE d == At("update_ir", "dtmcs", jobs, FALSE)
<1> DEFINE e == At("run_test_idle", "dtmcs", l, FALSE)
<1> DEFINE f == At("update_ir", "dmi", l, FALSE)
<1>6. Leads(Instruct("dtmcs"), c, d) /\ Instruct("dtmcs") \in Seq(Calling)
  BY <1>3, <1>5, InstructLeads
<1>7. Leads(ResetCalls, d, e) /\ ResetCalls \in Seq(Calling)
  BY <1>3, ResetLeads
<1>8. Leads(Instruct("dmi"), e, f) /\ Instruct("dmi") \in Seq(Calling)
  BY <1>3, InstructLeads
<1>9. Leads(PutApb(w), f, z) /\ PutApb(w) \in Seq(Calling)
  BY <1>3, PutApbLeads
<1>10. Leads(<<go_idle>>, z, z) /\ <<go_idle>> \in Seq(Calling) /\ z \in Situation
  <2>1. Does(go_idle, z, z) /\ z \in Situation /\ go_idle \in Calling
    BY <1>3, IdleLeads, CallTypes
  <2> HIDE DEF z
  <2> QED BY <2>1, LeadsByOne
<1>11. z.left = <<>> /\ z.reg = "dmi" /\ z.at = "run_test_idle"
  BY DEF At
<1> DEFINE toDtmcs == Instruct("dtmcs") \o ResetCalls
<1> DEFINE toDmi == toDtmcs \o Instruct("dmi")
<1> DEFINE put == toDmi \o PutApb(w)
<1>12. calls = put \o <<go_idle>>
  BY <1>5
<1> HIDE DEF c, d, e, f, z, calls, jobs
<1>13. Leads(toDtmcs, c, e) /\ toDtmcs \in Seq(Calling)
  BY <1>6, <1>7, LeadsThrough
<1> HIDE DEF toDtmcs
<1>14. Leads(toDmi, c, f) /\ toDmi \in Seq(Calling)
  BY <1>8, <1>13, LeadsThrough
<1> HIDE DEF toDmi
<1>15. Leads(put, c, z) /\ put \in Seq(Calling)
  BY <1>9, <1>14, LeadsThrough
<1> HIDE DEF put
<1>16. Leads(calls, c, z) /\ calls \in Seq(Calling)
  BY <1>10, <1>12, <1>15, LeadsThrough
<1> QED BY <1>1, <1>3, <1>4, <1>10, <1>11, <1>16, CallsSession DEF c

LEMMA OpenSession ==
    ASSUME SessionInv, Open PROVE SessionInv'
<1>1. PICK y \in Bit :
          plan' = <<reset, read_dr(2), go_idle, go_idle, capture_ir, shift_register(<<y>>)>>
  BY DEF Open
<1>2. /\ opened' = "opening" /\ sm' = "test_logic_reset" /\ last' = <<>> /\ currentir' = "none"
      /\ UNCHANGED <<steps, wire, tap, irShift, ir, dr, owed, captured, got>>
      /\ steps = <<>> /\ wire = <<>> /\ got = <<>> /\ owed = <<>>
  BY DEF Open, tapVars, history, SessionInv
<1>3. PICK c \in Calling, d \in Calling, e \in Calling, f \in Calling, r \in Calling :
          c = reset /\ d = read_dr(2) /\ e = go_idle /\ f = capture_ir /\ r = shift_register(<<y>>)
  <2>1. <<y>> \in Seq(Bit) /\ 2 \in Nat
    OBVIOUS
  <2> QED BY <2>1, CallTypes
<1>4. plan' = <<c, d, e, e, f, r>>
  BY <1>1, <1>3
<1>5. plan' \in Seq(Calling) /\ plan' # <<>> /\ Head(plan') = reset /\ Tail(plan') = <<d, e, e, f, r>>
  BY <1>3, <1>4, Lists
<1>6. TypeInv'
  BY <1>2, <1>5, ExitTable DEF SessionInv, TypeInv
<1> DEFINE a == At("test_logic_reset", "idcode", <<>>, FALSE)
<1> DEFINE m == At("update_dr", "idcode", <<>>, TRUE)
<1> DEFINE n == At("run_test_idle", "idcode", <<>>, TRUE)
<1> DEFINE o == At("capture_ir", "idcode", <<>>, TRUE)
<1> DEFINE b == At("shift_ir", "idcode", <<>>, TRUE)
<1>7. a \in Situation /\ m \in Situation /\ n \in Situation /\ o \in Situation /\ b \in Situation
  <2>1. <<>> \in Seq(Jobs)
    BY EmptySeq
  <2> QED BY <2>1 DEF At, Situation, Stops
<1>8. Does(d, a, m)
  <2>1. <<>> \in Seq(Jobs) /\ <<>> = Job("idcode", Zeros(2)) \o <<>> /\ 2 = Size("idcode") /\ 2 \in Nat \ {0}
    BY EmptySeq, ConcatEmptySeq DEF Job, Size
  <2>2. Does(read_dr(2), a, m)
    BY <2>1, ReadLeads
  <2> QED BY <1>3, <2>2
<1>9. Does(e, m, n) /\ Does(e, n, n)
  <2>1. GoesIdle(go_idle, m, n) /\ GoesIdle(go_idle, n, n)
    BY DEF GoesIdle, At, Same
  <2> QED BY <1>3, <2>1 DEF Does
<1>10. Does(f, n, o)
  <2>1. CapturesIr(capture_ir, n, o)
    BY DEF CapturesIr, At, Same
  <2> QED BY <1>3, <2>1 DEF Does
<1>11. Does(r, o, b)
  <2>1. <<y>> \in Seq(Bit)
    OBVIOUS
  <2>2. ShiftsIr(shift_register(<<y>>), o, b)
    BY <2>1 DEF ShiftsIr, At, Same
  <2> QED BY <1>3, <2>2 DEF Does
<1>12. /\ a.at = "test_logic_reset" /\ a.reg = "idcode" /\ a.left = <<>> /\ a.read = FALSE
       /\ b.at = "shift_ir" /\ b.reg = "idcode" /\ b.left = <<>>
  BY DEF At
<1> HIDE DEF a, m, n, o, b
<1>13. Leads(<<e, e, f, r>>, m, b) /\ <<e, e, f, r>> \in Seq(Calling)
  BY <1>7, <1>9, <1>10, <1>11, LeadsByFour
<1>14. Leads(Tail(plan'), a, b)
  <2>1. /\ <<d, e, e, f, r>> \in Seq(Calling) /\ <<d, e, e, f, r>> # <<>>
        /\ Head(<<d, e, e, f, r>>) = d /\ Tail(<<d, e, e, f, r>>) = <<e, e, f, r>>
    BY Lists
  <2>2. PICK p : p = Tail(plan')
    OBVIOUS
  <2>3. p \in Seq(Calling) /\ p # <<>> /\ Head(p) = d /\ Tail(p) = <<e, e, f, r>>
    BY <1>5, <2>1, <2>2
  <2>4. Leads(p, a, b)
    BY <1>7, <1>8, <1>13, <2>3, LeadsStep
  <2> QED BY <2>2, <2>4
<1>15. Cold(a)'
  BY <1>2, <1>12 DEF Cold
<1>16. Fresh'
  <2>1. Ends(b)'
    BY <1>2, <1>12 DEF Ends
  <2>2. Ahead(Tail(plan), a)'
    BY <1>7, <1>14, <2>1 DEF Ahead, Leads
  <2> QED BY <1>2, <1>5, <1>7, <1>15, <2>2 DEF Fresh
<1> QED BY <1>2, <1>6, <1>16 DEF SessionInv

LEMMA InitSession == Init => SessionInv
<1> SUFFICES ASSUME Init PROVE SessionInv
  OBVIOUS
<1>1. Zeros(5) \in Seq(Bit) /\ Len(Zeros(5)) = 5
  <2>1. 5 \in Nat \ {0}
    OBVIOUS
  <2> QED BY <2>1, ZerosAreStrings DEF Strings
<1>2. <<1, 0>> \in Strings
  <2>1. <<1, 0>> \in Seq(Bit) /\ <<1, 0>> # <<>>
    BY DEF Bit
  <2> QED BY <2>1 DEF Strings
<1>3. <<>> \in Seq(Calling) /\ <<>> \in Calling /\ <<>> \in Seq(Edges) /\ <<>> \in Seq(Bit) /\ <<>> \in Seq(Jobs)
  BY EmptySeq DEF Calling
<1>4. TypeInv
  BY <1>1, <1>2, <1>3, ExitTable DEF Init, TypeInv
<1> QED BY <1>4 DEF Init, SessionInv

LEMMA DoingStays ==
    ASSUME UNCHANGED <<opened, steps, wire, sm, last, tap, irShift, ir, dr, owed, captured, got>>,
           NEW b, Doing(b)
    PROVE  Doing(b)'
<1>1. /\ Ftdi' <=> Ftdi
      /\ \A r : InForce(r) => InForce(r)'
      /\ \A l : Owed(l) => Owed(l)'
      /\ \A s : Kept(s) => Kept(s)'
      /\ \A w, s : Delivering(w, s) => Delivering(w, s)'
  <2>1. (Ftdi' <=> Ftdi) /\ Selected' = Selected
    BY DEF Ftdi, Selected
  <2>2. \A r : InForce(r) => InForce(r)'
    BY DEF InForce
  <2>3. \A l : Owed(l) => Owed(l)'
    BY <2>1 DEF Owed, Acts
  <2>4. \A s : Kept(s) => Kept(s)'
    BY DEF Kept
  <2>5. \A w, s : Delivering(w, s) => Delivering(w, s)'
    BY <2>2 DEF Delivering
  <2> QED BY <2>1, <2>2, <2>3, <2>4, <2>5
<1>2. /\ \A x : OnWay(x) => OnWay(x)'
      /\ InTransit => InTransit'
      /\ Still => Still'
      /\ Unsampled => Unsampled'
      /\ \A w, k : Shifts(w, k) => Shifts(w, k)'
      /\ Cold(b) => Cold(b)'
  <2>1. \A x : OnWay(x) => OnWay(x)'
    BY <1>1 DEF OnWay
  <2>2. InTransit => InTransit'
    BY <2>1 DEF InTransit
  <2>3. (Still => Still') /\ (Unsampled => Unsampled')
    BY DEF Still, Unsampled
  <2>4. \A w, k : Shifts(w, k) => Shifts(w, k)'
    BY DEF Shifts
  <2>5. Cold(b) => Cold(b)'
    BY DEF Cold
  <2> QED BY <2>1, <2>2, <2>3, <2>4, <2>5
<1>3. \A s : Settled(s) => Settled(s)'
  BY SettledStays
<1>4. AtRest(b) => AtRest(b)'
  BY <1>3 DEF AtRest
<1>5. Ready(b) => Ready(b)'
  <2>1. \A c, a : Does(c, a, b) => Does(c, a, b)'
    BY DEF Does, WritesIr, WritesDr, ReadsDr, GoesIdle, Waits, CapturesIr, ShiftsIr, Ftdi
  <2> QED BY <1>3, <2>1 DEF Ready
<1>6. IrComing(b) => IrComing(b)'
  BY <1>1, <1>2 DEF IrComing
<1>7. IrShifting(b) => IrShifting(b)'
  BY <1>1, <1>2 DEF IrShifting
<1>8. IrLeaving(b) => IrLeaving(b)'
  BY <1>1, <1>2 DEF IrLeaving
<1>9. DrComing(b) => DrComing(b)'
  BY <1>1, <1>2 DEF DrComing
<1>10. DrShifting(b) => DrShifting(b)'
  BY <1>1, <1>2 DEF DrShifting
<1>11. RdComing(b) => RdComing(b)'
  BY <1>1, <1>2 DEF RdComing
<1>12. RdShifting(b) => RdShifting(b)'
  BY <1>1, <1>2 DEF RdShifting
<1>13. DrLeaving(b) => DrLeaving(b)'
  BY <1>1, <1>2 DEF DrLeaving
<1>14. Arriving(b) => Arriving(b)'
  BY <1>1, <1>2 DEF Arriving
<1>15. PushComing(b) => PushComing(b)'
  BY <1>1, <1>2 DEF PushComing
<1>16. Staying(b) => Staying(b)'
  BY <1>1, <1>2 DEF Staying
<1>17. ToReset(b) => ToReset(b)'
  BY <1>1, <1>2 DEF ToReset
<1>18. Resetting(b) => Resetting(b)'
  BY <1>1, <1>2 DEF Resetting
<1> QED BY <1>4, <1>5, <1>6, <1>7, <1>8, <1>9, <1>10, <1>11,
           <1>12, <1>13, <1>14, <1>15, <1>16, <1>17, <1>18 DEF Doing

LEMMA NextSession == SessionInv /\ [Next]_vars => SessionInv'
<1> SUFFICES ASSUME SessionInv, [Next]_vars PROVE SessionInv'
  OBVIOUS
<1>1. ASSUME NEW w \in Words, writeapb(w) PROVE SessionInv'
  BY <1>1, WriteapbSession
<1>2. ASSUME NEW w \in Words, readapb(w) PROVE SessionInv'
  BY <1>2, ReadapbSession
<1>3. ASSUME NEW w \in Words, resetdm(w) PROVE SessionInv'
  BY <1>3, ResetdmSession
<1>4. CASE Open
  BY <1>4, OpenSession
<1>5. CASE Opened
  BY <1>5, OpenedSession
<1>6. CASE Close
  BY <1>6, CloseSession
<1>7. CASE EngineCall
  BY <1>7, EngineCallSession
<1>8. CASE ControllerOp
  BY <1>8, ControllerOpSession
<1>9. CASE TckEdge
  BY <1>9, TckEdgeSession
<1>10. CASE UNCHANGED vars
  <2>1. UNCHANGED <<opened, currentir, plan, steps, wire, sm, last, tap, irShift, ir, dr, owed, captured, got>>
    BY <1>10 DEF vars, hostVars, tapVars, history
  <2>2. TypeInv'
    BY <2>1 DEF SessionInv, TypeInv
  <2>3. /\ opened' # "open" => owed' = <<>>
        /\ opened' = "opening" => currentir' = "none"
        /\ opened' = "closed" => plan' = <<>> /\ steps' = <<>> /\ wire' = <<>> /\ got' = <<>>
    BY <2>1 DEF SessionInv
  <2>4. ASSUME NEW p, NEW b, Ahead(p, b) PROVE Ahead(p, b)'
    BY <2>1, <2>4 DEF Ahead, Ends
  <2>5. ASSUME Fresh PROVE Fresh'
    <3>1. PICK b \in Situation : Cold(b) /\ Ahead(Tail(plan), b)
      BY <2>5 DEF Fresh
    <3>2. Cold(b)' /\ Ahead(Tail(plan), b)'
      BY <2>1, <2>4, <3>1 DEF Cold
    <3> QED BY <2>1, <2>5, <3>2 DEF Fresh
  <2>6. ASSUME NEW b \in Situation, Doing(b), Ahead(plan, b) PROVE Doing(b)' /\ Ahead(plan, b)'
    <3>1. Ahead(plan, b)'
      BY <2>1, <2>4, <2>6
    <3> QED BY <2>1, <2>6, <3>1, DoingStays
  <2> QED BY <2>1, <2>2, <2>3, <2>5, <2>6 DEF SessionInv
<1> QED BY <1>1, <1>2, <1>3, <1>4, <1>5, <1>6, <1>7, <1>8, <1>9, <1>10 DEF Next

(* Every reachable state of a session, of either controller and after any  *)
(* number of sessions that were cut off, satisfies SessionInv.             *)
THEOREM SessionIsInductive == Spec => []SessionInv
<1> QED BY InitSession, NextSession, PTL DEF Spec

-----------------------------------------------------------------------------
(* The engine's copy of the TAP state is the state of the TAP between the  *)
(* operations of the controller, whichever the controller and wherever the *)
(* sessions before were cut off.                                           *)
THEOREM TapStaysInStep == Spec => []InStep
<1>1. SessionInv => InStep
  <2> SUFFICES ASSUME SessionInv, wire = <<>>, sm # "test_logic_reset", opened # "closed"
               PROVE  sm = tap
    BY DEF InStep
  <2>1. ~Fresh /\ wire \in Seq(Edges)
    BY DEF SessionInv, TypeInv, Fresh, Cold
  <2>2. PICK b \in Situation : Doing(b)
    BY <2>1 DEF SessionInv
  <2>3. InTransit => tap = sm
    BY <2>1, EndOfWay DEF InTransit
  <2>4. \A x : OnWay(x) => tap = sm
    BY <2>1, EndOfWay
  <2>5. ~ToReset(b) /\ ~Resetting(b)
    BY DEF ToReset, Resetting, Cold
  <2>6. AtRest(b) \/ Ready(b) => tap = sm
    BY DEF AtRest, Ready, Settled
  <2>7. IrComing(b) \/ DrComing(b) \/ RdComing(b) \/ Arriving(b) \/ PushComing(b) => tap = sm
    BY <2>3 DEF IrComing, DrComing, RdComing, Arriving, PushComing
  <2>8. IrShifting(b) \/ DrShifting(b) \/ RdShifting(b) \/ Staying(b) => tap = sm
    BY DEF IrShifting, DrShifting, RdShifting, Staying, Still
  <2>9. IrLeaving(b) \/ DrLeaving(b) => tap = sm
    BY <2>4 DEF IrLeaving, DrLeaving
  <2> QED BY <2>2, <2>5, <2>6, <2>7, <2>8, <2>9 DEF Doing
<1> QED BY <1>1, SessionIsInductive, PTL

(* With pyftdi's controller the instruction that PulpOCD remembers to have *)
(* selected is in force whenever a call of it starts.                      *)
THEOREM RememberedIsSelected ==
    ASSUME Controller = "ftdi" PROVE Spec => []InstructionInForce
<1>1. SessionInv => InstructionInForce
  <2> SUFFICES ASSUME SessionInv, opened = "open", Resting, currentir # "none"
               PROVE  Selected = currentir
    BY DEF InstructionInForce
  <2>1. PICK b \in Situation : Settled(b) /\ Ends(b)
    BY RestingSession
  <2>2. currentir = "dmi" /\ b.reg = "dmi" /\ b.at \in {"run_test_idle", "update_dr"}
    BY <2>1 DEF SessionInv, TypeInv, Ends
  <2>3. ir = Code["dmi"]
    BY <2>1, <2>2 DEF Settled, InForce, Ftdi
  <2> QED BY <2>2, <2>3, SelectedIsThatOfIr, CodesDiffer
<1> QED BY <1>1, SessionIsInductive, PTL

(* With pyftdi's controller a read returns the word that the TAP captured, *)
(* whole and in its order.                                                 *)
THEOREM ReadsAreWhole ==
    ASSUME Controller = "ftdi" PROVE Spec => []ReadReturnsCaptured
<1>1. SessionInv => ReadReturnsCaptured
  <2> SUFFICES ASSUME SessionInv, Resting, got # <<>> PROVE got = captured
    BY DEF ReadReturnsCaptured
  <2>1. opened # "closed" /\ ~Fresh /\ steps = <<>> /\ wire = <<>> /\ TypeInv
    BY DEF SessionInv, Fresh, Resting
  <2>2. PICK b \in Situation : Doing(b)
    BY <2>1 DEF SessionInv
  <2>3. Kept(b)
    BY <2>1, <2>2, ComesToRest DEF Settled, Ftdi
  <2> QED BY <2>3 DEF Kept
<1> QED BY <1>1, SessionIsInductive, PTL

-----------------------------------------------------------------------------
(* A session keeps the promises of a port to the debug module.             *)
LEMMA UpdateDelivers ==
    ASSUME SessionInv, TckEdge, Ftdi, opened = "open", Acts
    PROVE  owed # <<>> /\ Head(owed) = <<Selected, dr>>
<1>1. TypeInv /\ wire # <<>> /\ tap = "update_dr"
  BY EdgeMoves DEF SessionInv, Acts
<1>2. PICK b \in Situation : Doing(b)
  <2>1. ~Fresh
    BY <1>1 DEF Fresh
  <2> QED BY <2>1 DEF SessionInv
<1>3. \E l \in Seq(Jobs) : Owed(l)
  <2>1. /\ b.left \in Seq(Jobs)
        /\ \A w \in Strings : Job(b.reg, w) \o b.left \in Seq(Jobs)
        /\ \A k \in Nat \ {0} : Job(b.reg, Zeros(k)) \o b.left \in Seq(Jobs)
    BY SituationTypes, JobTypes, ZerosAreStrings DEF Strings
  <2>2. ~AtRest(b) /\ ~Ready(b) /\ ~ToReset(b) /\ ~Resetting(b)
    BY <1>1 DEF AtRest, Ready, ToReset, Settled, Resetting, Cold
  <2>3. ~IrShifting(b) /\ ~DrShifting(b) /\ ~RdShifting(b)
    BY <1>1 DEF IrShifting, DrShifting, RdShifting, Still
  <2>4. ~DrLeaving(b)
    BY <1>1, EndOfWay DEF DrLeaving, TypeInv
  <2>5. IrComing(b) \/ IrLeaving(b) \/ Arriving(b) \/ PushComing(b) \/ Staying(b) => Owed(b.left)
    BY DEF IrComing, IrLeaving, Arriving, PushComing, Staying
  <2>6. DrComing(b) => \E w \in Strings : Owed(Job(b.reg, w) \o b.left)
    BY DEF DrComing
  <2>7. RdComing(b) => \E k \in Nat \ {0} : Owed(Job(b.reg, Zeros(k)) \o b.left)
    BY DEF RdComing
  <2> QED BY <1>2, <2>1, <2>2, <2>3, <2>4, <2>5, <2>6, <2>7 DEF Doing
<1>4. PICK l \in Seq(Jobs) : Owed(l)
  BY <1>3
<1>5. PICK d \in Jobs : d = <<Selected, dr>>
  BY <1>1 DEF Acts, Jobs, TypeInv, Strings
<1>6. owed = <<d>> \o l
  BY <1>4, <1>5 DEF Owed
<1>7. owed # <<>> /\ Head(owed) = d
  <2>1. <<d>> \in Seq(Jobs) /\ Len(<<d>>) = 1 /\ <<d>>[1] = d /\ Len(l) \in Nat
    BY LenProperties
  <2>2. /\ owed \in Seq(Jobs) /\ Len(owed) = 1 + Len(l)
        /\ \A i \in 1 .. 1 + Len(l) : owed[i] = IF i <= 1 THEN <<d>>[i] ELSE l[i - 1]
    BY <1>6, <2>1, ConcatProperties
  <2>3. owed # <<>> /\ owed[1] = d
    BY <2>1, <2>2, EmptySeq
  <2> QED BY <2>2, <2>3
<1> QED BY <1>5, <1>7

LEMMA CallsAreQueued ==
    ASSUME SessionInv, Ftdi, NEW calls, NEW jobs \in Seq(Jobs), jobs # <<>>, Calls(calls, jobs)
    PROVE  Port!Call
<1>1. /\ opened = "open" /\ Resting /\ owed' = owed \o jobs /\ owed \in Seq(Jobs)
      /\ UNCHANGED <<opened, delivered>>
  BY DEF Calls, SessionInv, TypeInv
<1>2. owed \in {<<>>, <<<<"dmi", Zeros(DmiLen)>>>>}
  <2>1. PICK b \in Situation : Settled(b) /\ Ends(b) /\ b.left = <<>>
    BY <1>1, RestingSession
  <2>2. owed = IF Acts THEN <<<<Selected, dr>>>> \o <<>> ELSE <<>>
    BY <2>1 DEF Settled, Owed
  <2>3. CASE ~Acts
    BY <2>2, <2>3
  <2>4. CASE Acts
    <3>1. b.at = "update_dr" /\ currentir = "dmi" /\ b.reg = "dmi" /\ b.read
      BY <2>1, <2>4 DEF Acts, Settled, Ends, SessionInv, TypeInv
    <3>2. dr = Zeros(DmiLen) /\ Selected = "dmi"
      <4>1. dr = Zeros(Size("dmi")) /\ ir = Code["dmi"]
        BY <2>1, <3>1 DEF Settled, InForce
      <4> QED BY <4>1, SelectedIsThatOfIr, CodesDiffer DEF Size
    <3>3. <<<<Selected, dr>>>> \in Seq(Jobs)
      BY <3>1, <3>2 DEF SessionInv, TypeInv, Jobs, Strings
    <3>4. <<<<Selected, dr>>>> \o <<>> = <<<<Selected, dr>>>>
      BY <3>3, ConcatEmptySeq
    <3> QED BY <2>2, <2>4, <3>2, <3>4
  <2> QED BY <2>3, <2>4
<1>3. Len(owed') > Len(owed) /\ SubSeq(owed', 1, Len(owed)) = owed
  <2>1. /\ owed' \in Seq(Jobs) /\ Len(owed') = Len(owed) + Len(jobs)
        /\ \A i \in 1 .. Len(owed) + Len(jobs) :
               owed'[i] = IF i <= Len(owed) THEN owed[i] ELSE jobs[i - Len(owed)]
        /\ Len(owed) \in Nat /\ Len(jobs) \in Nat \ {0}
    BY <1>1, ConcatProperties, LenProperties, EmptySeq
  <2>2. Len(owed') > Len(owed) /\ \A i \in 1..Len(owed) : owed'[i] = owed[i]
    BY <2>1
  <2>3. \A i \in 1..Len(owed) : owed'[i] \in Jobs
    BY <1>1, <2>2, ElementOfSeq
  <2>4. PICK n \in Nat : n = Len(owed)
    BY <2>1
  <2>5. PICK s : s = SubSeq(owed', 1, n)
    OBVIOUS
  <2>6. /\ s \in Seq(Jobs) /\ Len(s) = (IF 1 <= n THEN n - 1 + 1 ELSE 0)
        /\ \A i \in 1 .. n - 1 + 1 : s[i] = owed'[1 + i - 1]
    BY <2>3, <2>4, <2>5, SubSeqProperties
  <2>7. Len(s) = Len(owed)
    BY <2>4, <2>6
  <2>8. ASSUME NEW i \in 1..Len(s) PROVE s[i] = owed[i]
    <3>1. i \in 1 .. n - 1 + 1 /\ 1 + i - 1 = i /\ i \in 1..Len(owed)
      BY <2>4, <2>7
    <3> QED BY <2>2, <2>6, <3>1
  <2>9. s = owed
    BY <1>1, <2>6, <2>7, <2>8, SeqEqual
  <2> QED BY <2>2, <2>4, <2>5, <2>9
<1> QED BY <1>1, <1>2, <1>3 DEF Port!Call

LEMMA InitIsPort == Init => Port!Init
BY DEF Init, Port!Init

LEMMA StepIsPort ==
    ASSUME SessionInv, Ftdi, [Next]_vars
    PROVE  [Port!Next]_<<opened = "open", owed, delivered>>
<1> DEFINE Stutter == UNCHANGED <<opened = "open", owed, delivered>>
<1>1. ASSUME NEW w \in Words, writeapb(w) \/ readapb(w) \/ resetdm(w) PROVE Port!Call
  <2>1. /\ <<"dmi", w>> \in Jobs /\ <<"dmi", Zeros(DmiLen)>> \in Jobs
        /\ <<"dtmcs", Zeros(DtmcsLen)>> \in Jobs /\ <<"dtmcs", DmiResets>> \in Jobs
    BY WordTypes, ZerosAreStrings, DmiResetsIsString, ConstantsAssumption DEF Jobs, Strings
  <2>2. \A x, y, z : <<x>> # <<>> /\ <<x, y>> # <<>> /\ <<x, y, z>> # <<>>
    OBVIOUS
  <2>3. CASE writeapb(w)
    <3>1. <<<<"dmi", w>>>> \in Seq(Jobs) /\ <<<<"dmi", w>>>> # <<>>
      BY <2>1, <2>2, JobLists
    <3> QED BY <2>3, <3>1, CallsAreQueued DEF writeapb
  <2>4. CASE readapb(w)
    <3>1. /\ <<<<"dmi", w>>, <<"dmi", Zeros(DmiLen)>>>> \in Seq(Jobs)
          /\ <<<<"dmi", w>>, <<"dmi", Zeros(DmiLen)>>>> # <<>>
      BY <2>1, <2>2, JobLists
    <3> QED BY <2>4, <3>1, CallsAreQueued DEF readapb
  <2>5. CASE resetdm(w)
    <3>1. /\ <<<<"dtmcs", DmiResets>>, <<"dtmcs", Zeros(DtmcsLen)>>, <<"dmi", w>>>> \in Seq(Jobs)
          /\ <<<<"dtmcs", DmiResets>>, <<"dtmcs", Zeros(DtmcsLen)>>, <<"dmi", w>>>> # <<>>
      BY <2>1, <2>2, JobLists
    <3> QED BY <2>5, <3>1, CallsAreQueued DEF resetdm
  <2> QED BY <1>1, <2>3, <2>4, <2>5
<1>2. CASE Open
  BY <1>2 DEF Open, history
<1>3. CASE Opened
  <2>1. opened = "opening" /\ opened' = "open" /\ owed = <<>> /\ UNCHANGED <<owed, delivered>>
    BY <1>3 DEF Opened, history, SessionInv
  <2> QED BY <2>1 DEF Port!Next, Port!Open
<1>4. CASE Close
  <2>1. opened' = "closed" /\ owed' = <<>> /\ delivered' = delivered
    BY <1>4 DEF Close
  <2>2. opened # "open" => owed = <<>>
    BY DEF SessionInv
  <2> QED BY <2>1, <2>2 DEF Port!Next, Port!Abort
<1>5. CASE EngineCall \/ ControllerOp
  BY <1>5 DEF EngineCall, ControllerOp, history
<1>6. CASE TckEdge
  <2>1. Update /\ opened' = opened
    BY <1>6 DEF TckEdge, hostVars
  <2>2. CASE ~Acts
    BY <2>1, <2>2 DEF Update, Acts
  <2>3. CASE Acts /\ opened = "open"
    <3>1. owed # <<>> /\ Head(owed) = <<Selected, dr>>
      BY <1>6, <2>3, UpdateDelivers
    <3>2. delivered' = <<Selected, dr>> /\ owed' = Tail(owed)
      BY <2>1, <2>3, <3>1 DEF Update, Acts
    <3> QED BY <2>1, <2>3, <3>1, <3>2 DEF Port!Next, Port!Deliver
  <2>4. CASE Acts /\ opened # "open"
    <3>1. owed' = owed
      BY <2>1, <2>4 DEF Update, Acts, SessionInv
    <3> QED BY <2>1, <2>4, <3>1 DEF Port!Next, Port!Stray
  <2> QED BY <2>2, <2>3, <2>4
<1>7. CASE UNCHANGED vars
  BY <1>7 DEF vars, hostVars, history
<1> QED BY <1>1, <1>2, <1>3, <1>4, <1>5, <1>6, <1>7 DEF Next, Port!Next

(* With pyftdi's controller every call delivers exactly its words to the   *)
(* registers they are meant for, and nothing else is delivered.            *)
THEOREM SessionIsPort ==
    ASSUME Controller = "ftdi" PROVE Spec => PortSpec
<1>1. SessionInv /\ [Next]_vars => [Port!Next]_<<opened = "open", owed, delivered>>
  BY StepIsPort DEF Ftdi
<1>2. Init => Port!Init
  BY InitIsPort
<1> QED BY <1>1, <1>2, SessionIsInductive, PTL DEF Spec, PortSpec, Port!Spec
=============================================================================
