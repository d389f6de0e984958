-------------------------- MODULE LoaderPathProofs --------------------------
(***************************************************************************)
(* Theorems about LoaderPath, for a buffer and a vector of any size and    *)
(* variables of any length: the state keeps its shape, the parse reads     *)
(* outside lpathbuf only for a variable that leaves less than two bytes of *)
(* it, the vector holds what is written to it, no slot is empty, and a     *)
(* variable without empty names becomes the vector of its names.           *)
(***************************************************************************)
EXTENDS LoaderPath, FiniteSetTheorems, NaturalsInduction, TLAPS

\* What the copy put at position i of a buffer that the variable does not fill.
Original(i) == IF i < Len(path) THEN path[i + 1] ELSE Nul

\* The separators of the variable, as positions in the buffer.
Colons == {k \in Buffer : k < Len(path) /\ path[k + 1] = Colon}

\* Those in front of position i.
ColonsBefore(i) == {k \in Colons : k < i}

\* Without the variable there is an empty buffer and nothing to parse.
WithoutVariable ==
  path = Unset =>
    /\ pc \notin {"count", "undefined"}
    /\ pc # "copy" => mem[0] = Nul
    /\ next = NoNext /\ vec = <<>>

\* Nothing is parsed before the vector is chosen.
NotYetParsed ==
  /\ pc \in {"copy", "count", "first"} => next = NoNext /\ vec = <<>>
  /\ pc \in {"copy", "count"} => capacity = VecSlots

\* The buffer holds the copy until the first separator is overwritten.
FreshCopy ==
  path # Unset /\ pc \in {"count", "first"} =>
    mem = [i \in Buffer |-> IF i < Len(path) THEN path[i + 1] ELSE Nul]

\* Past the count, the copy has a null and the vector room for a name more than
\* there are separators, and for the null.
Chosen ==
  path # Unset /\ pc \in {"first", "component", "done"} =>
    /\ Len(path) < BufSize
    /\ mem[BufSize - 1] = Nul
    /\ capacity >= Cardinality(Colons) + 3

\* While there is a name to store: what is behind it is still the copy, and
\* every slot so far stands for a separator in front of it.
Progressing ==
  path # Unset /\ pc = "component" /\ next # NoNext =>
    /\ next < Len(path)
    /\ \A j \in Buffer : j >= next => mem[j] = Original(j)
    /\ Len(vec) <= Cardinality(ColonsBefore(next))
    /\ \A n \in DOMAIN vec : vec[n] # Dot => vec[n] < next

\* A name that was stored begins with a character of its own.
NamesStand == \A n \in DOMAIN vec : vec[n] # Dot => mem[vec[n]] # Nul

\* The name that is read in a slot when the buffer holds m.
Reads(m, slot) ==
  IF slot = Dot THEN <<0, 0>>
  ELSE <<slot + 1, Min({k \in Buffer : k >= slot /\ m[k] = Nul})>>

\* Of a variable without empty names, the slots are the names in front of next,
\* all of them and in order.
Splitting ==
  /\ pc = "done" => next = NoNext
  /\ path # Unset /\ path = <<>> => next = NoNext /\ vec = <<>>
  /\ path # Unset /\ path # <<>> /\ ~HasEmptyName /\ pc \in {"component", "done"} =>
       /\ next # NoNext => next = 0 \/ path[next] = Colon
       /\ \A n \in DOMAIN vec :
            /\ vec[n] # Dot /\ Denotes(vec[n]) \in Names
            /\ next # NoNext => Denotes(vec[n])[2] < next
       /\ \A m, n \in DOMAIN vec : m < n => vec[m] < vec[n]
       /\ \A name \in Names :
            next = NoNext \/ name[1] <= next => \E n \in DOMAIN vec : Denotes(vec[n]) = name

IInv ==
  /\ TypeOK /\ ReadsInBounds /\ VectorFits
  /\ WithoutVariable /\ NotYetParsed /\ FreshCopy /\ Chosen /\ Progressing
  /\ NamesStand /\ Splitting

-----------------------------------------------------------------------------
(* Lemmas.                                                                 *)

\* Min is the least element of a set of positions.
LEMMA LeastOf ==
  ASSUME NEW S \in SUBSET Nat, S # {}
  PROVE  Min(S) \in S /\ \A y \in S : Min(S) <= y
<1> DEFINE Less == {ss \in Nat \X Nat : ss[1] < ss[2]}
<1>1. IsWellFoundedOn(Less, Nat)
  BY NatLessThanWellFounded DEF OpToRel
<1>2. PICK x \in S : \A y \in S : ~ (<<y, x>> \in Less)
  <2> HIDE DEF Less
  <2> QED BY <1>1, WFMin
<1>3. \A y \in S : x <= y
  <2> TAKE y \in S
  <2>1. x \in Nat /\ y \in Nat
    OBVIOUS
  <2>2. y < x => <<y, x>> \in Less
    BY <2>1
  <2>3. ~ (<<y, x>> \in Less)
    BY <1>2
  <2> HIDE DEF Less
  <2> QED BY <2>1, <2>2, <2>3
<1> QED BY <1>3, Zenon DEF Min

\* What getenv returns is a sequence of separators and ordinary characters.
LEMMA PathShape ==
  ASSUME TypeOK, path # Unset
  PROVE  /\ Len(path) \in Nat
         /\ \A i \in 1 .. Len(path) : path[i] \in {Colon, Letter}
<1>1. path \in Paths
  BY DEF TypeOK
<1>2. PICK n \in 0 .. MaxLen : path \in [1 .. n -> {Colon, Letter}]
  BY <1>1 DEF Paths
<1>3. Len(path) = n
  BY <1>2
<1> QED BY <1>2, <1>3, SizesAssumption

\* The separators can be counted, and those in front of a place are not more.
LEMMA ColonsAreFinite ==
  ASSUME NEW i
  PROVE  /\ IsFiniteSet(Colons) /\ Cardinality(Colons) \in Nat
         /\ IsFiniteSet(ColonsBefore(i)) /\ Cardinality(ColonsBefore(i)) \in Nat
         /\ Cardinality(ColonsBefore(i)) <= Cardinality(Colons)
<1>1. IsFiniteSet(Buffer)
  BY FS_Interval, SizesAssumption DEF Buffer
<1>2. IsFiniteSet(Colons)
  BY <1>1, FS_Subset DEF Colons
<1>3. ColonsBefore(i) \in SUBSET Colons
  BY DEF ColonsBefore
<1> QED BY <1>2, <1>3, FS_Subset, FS_CardinalityType

\* The loop that counts finds the separators of the variable.
LEMMA CountsColons ==
  ASSUME TypeOK, FreshCopy, path # Unset, pc = "count"
  PROVE  /\ Len(path) < BufSize => Count = 1 + Cardinality(Colons)
         /\ Count \in Nat
<1> DEFINE Found == {k \in Buffer : /\ mem[k] = Colon
                                    /\ \A j \in 0 .. k : mem[j] # Nul}
<1>1. Count \in Nat
  <2>1. IsFiniteSet(Buffer)
    BY FS_Interval, SizesAssumption DEF Buffer
  <2>2. IsFiniteSet(Found)
    BY <2>1, FS_Subset
  <2>3. Cardinality(Found) \in Nat
    BY <2>2, FS_CardinalityType
  <2> QED BY <2>3 DEF Count
<1>2. ASSUME Len(path) < BufSize
      PROVE  Found = Colons
  <2>1. \A j \in Buffer : mem[j] = IF j < Len(path) THEN path[j + 1] ELSE Nul
    BY DEF FreshCopy
  <2>2. \A j \in Buffer : j < Len(path) => path[j + 1] \in {Colon, Letter}
    BY PathShape DEF Buffer
  <2>3. Colon # Nul /\ Letter # Nul
    BY DEF Colon, Letter, Nul
  <2>4. \A k \in Buffer : 0 .. k \subseteq Buffer
    BY SizesAssumption DEF Buffer
  <2>5. \A k \in Buffer : \A j \in 0 .. k : k < Len(path) => j < Len(path)
    BY PathShape DEF Buffer
  <2>6. Found \subseteq Colons
    BY <2>1, <2>3 DEF Colons
  <2>7. Colons \subseteq Found
    BY <2>1, <2>2, <2>3, <2>4, <2>5 DEF Colons
  <2> QED BY <2>6, <2>7
<1> QED BY <1>1, <1>2 DEF Count

\* The end of the name at next: behind its first character, not behind the
\* variable, and at a separator unless it is the variable's end.
LEMMA NextStop ==
  ASSUME IInv, path # Unset, pc = "component", next # NoNext
  PROVE  /\ Stops(next + 1) # {}
         /\ LET stop == Min(Stops(next + 1))
            IN  /\ stop \in Buffer /\ next < stop /\ stop <= Len(path)
                /\ mem[stop] = Colon => stop \in Colons
                /\ mem[stop] # Colon => stop = Len(path)
<1> DEFINE stop == Min(Stops(next + 1))
<1>1. next \in Nat /\ Len(path) \in Nat /\ Len(path) < BufSize /\ next < Len(path)
  BY PathShape DEF IInv, TypeOK, Chosen, Progressing, Buffer
<1>2. \A j \in Buffer : j >= next => mem[j] = Original(j)
  BY DEF IInv, Progressing
<1>3. Len(path) \in Buffer
  BY <1>1, SizesAssumption DEF Buffer
<1>4. Len(path) \in Stops(next + 1)
  BY <1>1, <1>2, <1>3 DEF Stops, Original
<1>5. Stops(next + 1) \in SUBSET Nat
  BY DEF Stops, Buffer
<1>6. stop \in Stops(next + 1) /\ stop <= Len(path)
  BY <1>4, <1>5, LeastOf
<1>7. stop \in Buffer /\ stop >= next + 1 /\ mem[stop] \in {Colon, Nul}
  BY <1>6 DEF Stops
<1>8. stop \in Nat
  BY <1>7 DEF Buffer
<1> HIDE DEF stop
<1>9. mem[stop] = Original(stop)
  BY <1>1, <1>2, <1>7, <1>8
<1>10. ASSUME mem[stop] = Colon PROVE stop \in Colons
  <2>1. stop < Len(path)
    BY <1>9, <1>10, <1>6, <1>8, <1>1 DEF Original, Colon, Nul
  <2> QED BY <2>1, <1>9, <1>10, <1>7 DEF Original, Colons
<1>11. ASSUME mem[stop] # Colon PROVE stop = Len(path)
  <2>1. SUFFICES ASSUME stop < Len(path) PROVE FALSE
    BY <1>6, <1>8, <1>1
  <2>2. path[stop + 1] \in {Colon, Letter}
    BY <2>1, <1>8, <1>1, PathShape DEF IInv
  <2> QED BY <2>1, <2>2, <1>7, <1>9, <1>11 DEF Original, Letter, Nul
<1> QED BY <1>4, <1>6, <1>7, <1>8, <1>1, <1>10, <1>11 DEF stop

\* A variable without empty names neither begins nor ends with a separator, and
\* has no two in a row.
LEMMA NoEmptyNames ==
  ASSUME TypeOK, path # Unset, path # <<>>, ~HasEmptyName
  PROVE  /\ 1 <= Len(path) /\ path[1] # Colon /\ path[Len(path)] # Colon
         /\ \A k \in 1 .. Len(path) - 1 : path[k] = Colon => path[k + 1] # Colon
<1>1. path \in Paths
  BY DEF TypeOK
<1>2. PICK n \in 0 .. MaxLen : path \in [1 .. n -> {Colon, Letter}]
  BY <1>1 DEF Paths
<1>3. path \in Seq({Colon, Letter}) /\ Len(path) = n
  BY <1>2, SizesAssumption
<1>4. 1 <= Len(path) /\ Head(path) = path[1] /\ Last(path) = path[Len(path)]
  BY <1>3 DEF Last
<1> QED BY <1>3, <1>4 DEF HasEmptyName

\* Two names that begin at the same place are one.
LEMMA NameByFirst ==
  ASSUME Len(path) \in Nat, NEW a \in Names, NEW b \in Names, a[1] = b[1]
  PROVE  a = b
<1>1. /\ a[1] \in Nat /\ a[2] \in Nat /\ b[2] \in Nat /\ a = <<a[1], a[2]>> /\ b = <<b[1], b[2]>>
      /\ a[1] <= a[2] /\ a[2] <= Len(path) /\ a[1] <= b[2] /\ b[2] <= Len(path)
      /\ \A k \in a[1] .. a[2] : path[k] # Colon
      /\ \A k \in a[1] .. b[2] : path[k] # Colon
      /\ a[2] = Len(path) \/ path[a[2] + 1] = Colon
      /\ b[2] = Len(path) \/ path[b[2] + 1] = Colon
  BY DEF Names
<1>2. ~ (a[2] < b[2])
  <2>1. SUFFICES ASSUME a[2] < b[2] PROVE FALSE
    OBVIOUS
  <2>2. a[2] + 1 \in a[1] .. b[2]
    BY <1>1, <2>1
  <2> QED BY <1>1, <2>1, <2>2
<1>3. ~ (b[2] < a[2])
  <2>1. SUFFICES ASSUME b[2] < a[2] PROVE FALSE
    OBVIOUS
  <2>2. b[2] + 1 \in a[1] .. a[2]
    BY <1>1, <2>1
  <2> QED BY <1>1, <2>1, <2>2
<1>4. a[2] = b[2]
  BY <1>1, <1>2, <1>3
<1> QED BY <1>1, <1>4

\* What lies between next and the end that is found for it is a name, and no
\* other begins there.
LEMMA FindsName ==
  ASSUME IInv, path # Unset, path # <<>>, ~HasEmptyName, pc = "component", next # NoNext
  PROVE  LET stop == Min(Stops(next + 1))
         IN  /\ mem[next] # Colon
             /\ <<next + 1, stop>> \in Names
             /\ mem[stop] = Colon => stop + 1 < Len(path)
             /\ \A name \in Names : name[1] <= next + 1 \/ stop + 2 <= name[1]
<1> DEFINE stop == Min(Stops(next + 1))
<1>1. /\ Stops(next + 1) # {} /\ stop \in Buffer /\ next < stop /\ stop <= Len(path)
      /\ mem[stop] = Colon => stop \in Colons
      /\ mem[stop] # Colon => stop = Len(path)
  BY NextStop
<1>2. /\ next \in Nat /\ stop \in Nat /\ Len(path) \in Nat /\ Len(path) < BufSize
      /\ next < Len(path) /\ next \in Buffer
  BY <1>1, PathShape DEF IInv, TypeOK, Chosen, Progressing, Buffer
<1>3. \A y \in Stops(next + 1) : stop <= y
  <2>1. Stops(next + 1) \in SUBSET Nat
    BY DEF Stops, Buffer
  <2> QED BY <1>1, <2>1, LeastOf
<1> HIDE DEF stop
<1>4. \A j \in Buffer : j >= next => mem[j] = Original(j)
  BY DEF IInv, Progressing
<1>5. next = 0 \/ path[next] = Colon
  BY DEF IInv, Splitting
<1>6. /\ 1 <= Len(path) /\ path[1] # Colon /\ path[Len(path)] # Colon
      /\ \A k \in 1 .. Len(path) - 1 : path[k] = Colon => path[k + 1] # Colon
  BY NoEmptyNames DEF IInv
<1>7. path[next + 1] # Colon
  BY <1>2, <1>5, <1>6
<1>8. mem[next] # Colon
  BY <1>2, <1>4, <1>7 DEF Original
<1>9. \A k \in next + 1 .. stop : path[k] # Colon
  <2> SUFFICES ASSUME NEW k \in next + 1 .. stop, path[k] = Colon
               PROVE  FALSE
    OBVIOUS
  <2>1. k - 1 \in Buffer /\ k - 1 >= next + 1 /\ k - 1 < stop
    <3>1. k \in Nat /\ k # next + 1 /\ next + 1 <= k /\ k <= stop
      BY <1>2, <1>7
    <3>2. BufSize \in Nat /\ stop < BufSize
      BY <1>1, SizesAssumption DEF Buffer
    <3> QED BY <1>2, <3>1, <3>2 DEF Buffer
  <2>2. mem[k - 1] = path[k - 1 + 1]
    BY <1>1, <1>2, <1>4, <2>1 DEF Original
  <2>3. k - 1 \in Stops(next + 1)
    BY <2>1, <2>2, <1>2 DEF Stops
  <2> QED BY <1>2, <1>3, <2>1, <2>3
<1>10. stop = Len(path) \/ path[stop + 1] = Colon
  BY <1>1 DEF Colons
<1>11. <<next + 1, stop>> \in Names
  BY <1>1, <1>2, <1>5, <1>9, <1>10 DEF Names
<1>12. ASSUME mem[stop] = Colon PROVE stop + 1 < Len(path)
  <2>1. stop < Len(path) /\ path[stop + 1] = Colon
    BY <1>1, <1>12 DEF Colons
  <2> QED BY <1>2, <1>6, <2>1
<1>13. ASSUME NEW name \in Names, ~ (name[1] <= next + 1)
       PROVE  stop + 2 <= name[1]
  <2>1. /\ name[1] \in Nat /\ name[1] <= Len(path)
        /\ name[1] = 1 \/ path[name[1] - 1] = Colon
    BY <1>2 DEF Names
  <2>2. path[name[1] - 1] = Colon /\ name[1] - 1 \in Nat /\ next + 1 <= name[1] - 1
    BY <1>2, <1>13, <2>1
  <2>3. ~ (name[1] - 1 <= stop)
    <3>1. name[1] - 1 <= stop => name[1] - 1 \in next + 1 .. stop
      BY <1>2, <2>2
    <3> QED BY <1>9, <2>2, <3>1
  <2> HIDE DEF Names
  <2> QED BY <1>2, <2>1, <2>2, <2>3
<1> QED BY <1>8, <1>11, <1>12, <1>13 DEF stop

-----------------------------------------------------------------------------
(* The invariant.                                                          *)

LEMMA InvInit == Init => IInv
<1> SUFFICES ASSUME Init PROVE IInv
  OBVIOUS
<1>1. TypeOK
  <2>1. PICK c \in {Letter, Colon, Nul} : mem = [i \in Buffer |-> c]
    BY DEF Init
  <2>2. mem \in [Buffer -> {Colon, Letter, Nul}]
    BY <2>1
  <2>3. vec \in Seq(Buffer \cup {Dot})
    BY DEF Init
  <2> QED BY <2>2, <2>3, SizesAssumption DEF Init, TypeOK
<1>2. VectorFits
  BY SizesAssumption DEF Init, VectorFits
<1> QED
  BY <1>1, <1>2 DEF Init, IInv, ReadsInBounds, WithoutVariable, NotYetParsed,
                    FreshCopy, Chosen, Progressing, NamesStand, Splitting

\* Storing a name keeps the slots in line with the names.
LEMMA SplittingGoesOn == ASSUME IInv, Component PROVE Splitting'
<1> DEFINE stop == Min(Stops(next + 1))
<1>1. path # Unset /\ pc = "component" /\ next # NoNext
  BY DEF IInv, WithoutVariable, Component
<1>2. /\ stop \in Buffer /\ next < stop /\ stop <= Len(path)
      /\ mem[stop] # Colon => stop = Len(path)
  BY <1>1, NextStop
<1>3. /\ vec' = Append(vec, IF mem[next] = Colon THEN Dot ELSE next)
      /\ mem' = [mem EXCEPT ![stop] = Nul]
      /\ path' = path
      /\ pc' = "component" => stop + 1 \in Buffer /\ next' = Following(stop)
      /\ pc' \in {"component", "undefined"}
  BY <1>1, NextStop DEF Component
<1> HIDE DEF stop
<1>4. /\ next \in Nat /\ stop \in Nat /\ Len(path) \in Nat /\ next < Len(path) /\ next \in Buffer
      /\ vec \in Seq(Buffer \cup {Dot}) /\ mem \in [Buffer -> {Colon, Letter, Nul}]
      /\ \A j \in Buffer : j >= next => mem[j] = Original(j)
  BY <1>1, <1>2, PathShape DEF IInv, TypeOK, Progressing, Buffer
<1>5. path # <<>>
  BY <1>4
<1>6. SUFFICES ASSUME ~HasEmptyName, pc' = "component"
               PROVE  /\ next' # NoNext => next' = 0 \/ path[next'] = Colon
                      /\ \A n \in DOMAIN vec' :
                           /\ vec'[n] # Dot /\ Reads(mem', vec'[n]) \in Names
                           /\ next' # NoNext => Reads(mem', vec'[n])[2] < next'
                      /\ \A m, n \in DOMAIN vec' : m < n => vec'[m] < vec'[n]
                      /\ \A name \in Names :
                           next' = NoNext \/ name[1] <= next'
                             => \E n \in DOMAIN vec' : Reads(mem', vec'[n]) = name
  <2>1. Names' = Names /\ HasEmptyName' = HasEmptyName
    BY <1>3 DEF Names, HasEmptyName
  <2>2. pc' # "done"
    BY <1>3
  <2>3. \A n \in DOMAIN vec' : Denotes(vec[n])' = Reads(mem', vec'[n])
    BY DEF Denotes, Reads, Buffer
  <2>4. path' # <<>> /\ path' = path
    BY <1>3, <1>5
  <2>5. SUFFICES ASSUME (~HasEmptyName)', (pc \in {"component", "done"})'
                 PROVE  (/\ next # NoNext => next = 0 \/ path[next] = Colon
                         /\ \A n \in DOMAIN vec :
                              /\ vec[n] # Dot /\ Denotes(vec[n]) \in Names
                              /\ next # NoNext => Denotes(vec[n])[2] < next
                         /\ \A m, n \in DOMAIN vec : m < n => vec[m] < vec[n]
                         /\ \A name \in Names :
                              next = NoNext \/ name[1] <= next
                                => \E n \in DOMAIN vec : Denotes(vec[n]) = name)'
    BY <2>2, <2>4 DEF Splitting
  <2>6. ~HasEmptyName /\ pc' = "component"
    BY <2>1, <2>2, <2>5
  <2>7. /\ next' # NoNext => next' = 0 \/ path[next'] = Colon
        /\ \A n \in DOMAIN vec' :
             /\ vec'[n] # Dot /\ Reads(mem', vec'[n]) \in Names
             /\ next' # NoNext => Reads(mem', vec'[n])[2] < next'
        /\ \A m, n \in DOMAIN vec' : m < n => vec'[m] < vec'[n]
        /\ \A name \in Names :
             next' = NoNext \/ name[1] <= next'
               => \E n \in DOMAIN vec' : Reads(mem', vec'[n]) = name
    BY <2>6
  <2> HIDE DEF Names, HasEmptyName, Denotes, Reads
  <2> QED BY <2>1, <2>3, <2>4, <2>7
<1>7. /\ \A n \in DOMAIN vec :
            vec[n] # Dot /\ Denotes(vec[n]) \in Names /\ Denotes(vec[n])[2] < next
      /\ \A m, n \in DOMAIN vec : m < n => vec[m] < vec[n]
      /\ \A name \in Names :
            name[1] <= next => \E n \in DOMAIN vec : Denotes(vec[n]) = name
  BY <1>1, <1>5, <1>6 DEF IInv, Splitting
<1>8. /\ mem[next] # Colon
      /\ <<next + 1, stop>> \in Names
      /\ mem[stop] = Colon => stop + 1 < Len(path)
      /\ \A name \in Names : name[1] <= next + 1 \/ stop + 2 <= name[1]
  BY <1>1, <1>5, <1>6, FindsName DEF stop
<1>9. vec' = Append(vec, next) /\ next # Dot
  BY <1>3, <1>4, <1>8 DEF Dot
<1>10. /\ DOMAIN vec' = 1 .. Len(vec) + 1 /\ DOMAIN vec = 1 .. Len(vec) /\ Len(vec) \in Nat
       /\ vec'[Len(vec) + 1] = next
       /\ \A n \in DOMAIN vec : vec'[n] = vec[n]
  BY <1>4, <1>9
\* What ends at a slot: the name in it before, and the new one.
<1>11. ASSUME NEW slot \in Buffer, NEW e \in Buffer, slot <= e, e <= stop, mem'[e] = Nul,
              \A k \in Buffer : slot <= k /\ k < e => mem'[k] # Nul
       PROVE  Reads(mem', slot) = <<slot + 1, e>>
  <2> DEFINE ends == {k \in Buffer : k >= slot /\ mem'[k] = Nul}
  <2>1. ends \in SUBSET Nat /\ e \in ends /\ \A y \in ends : e <= y
    BY <1>11 DEF Buffer
  <2>2. Min(ends) \in ends /\ Min(ends) <= e
    BY <2>1, LeastOf
  <2>3. Min(ends) = e
    <3>1. e \in Nat /\ Min(ends) \in Nat /\ e <= Min(ends)
      BY <2>1, <2>2
    <3> HIDE DEF ends
    <3> QED BY <2>2, <3>1
  <2>4. slot # Dot
    BY <1>11 DEF Dot, Buffer
  <2> QED BY <2>3, <2>4 DEF Reads
<1>12. Reads(mem', next) = <<next + 1, stop>>
  <2>1. mem'[stop] = Nul
    BY <1>2, <1>3, <1>4
  <2>2. ASSUME NEW k \in Buffer, next <= k, k < stop
        PROVE  mem'[k] # Nul
    <3>1. mem'[k] = mem[k] /\ mem[k] = Original(k) /\ k \in Nat /\ k < Len(path)
      BY <1>2, <1>3, <1>4, <2>2 DEF Buffer
    <3>2. path[k + 1] \in {Colon, Letter}
      BY <1>1, <1>4, <3>1, PathShape DEF IInv
    <3> QED BY <3>1, <3>2 DEF Original, Colon, Letter, Nul
  <2> QED BY <1>2, <1>4, <1>11, <2>1, <2>2
<1>13. ASSUME NEW n \in DOMAIN vec
       PROVE  vec[n] \in Buffer /\ Reads(mem', vec'[n]) = Denotes(vec[n])
  <2> DEFINE slot == vec[n]
             ends == {k \in Buffer : k >= slot /\ mem[k] = Nul}
             e == Min(ends)
  <2>1. slot # Dot /\ slot \in Buffer /\ Denotes(slot) = <<slot + 1, e>> /\ e < next
    BY <1>4, <1>7, <1>13 DEF Denotes
  <2>2. ends \in SUBSET Nat /\ BufSize - 1 \in ends
    <3>1. mem[BufSize - 1] = Nul
      BY <1>1 DEF IInv, Chosen
    <3>2. BufSize - 1 \in Buffer /\ Buffer \in SUBSET Nat
      BY SizesAssumption DEF Buffer
    <3>3. BufSize - 1 >= slot
      BY <2>1, SizesAssumption DEF Buffer
    <3> QED BY <3>1, <3>2, <3>3
  <2>3. e \in ends /\ \A y \in ends : e <= y
    BY <2>2, LeastOf
  <2>4. e \in Buffer /\ slot <= e /\ mem[e] = Nul /\ e \in Nat
    BY <2>2, <2>3
  <2>5. mem'[e] = Nul /\ e <= stop
    BY <1>2, <1>3, <1>4, <2>1, <2>4
  <2>6. ASSUME NEW k \in Buffer, slot <= k, k < e
        PROVE  mem'[k] # Nul
    <3>1. k # stop /\ k \in Nat
      BY <1>2, <1>4, <2>1, <2>4, <2>6 DEF Buffer
    <3>2. k \notin ends
      BY <2>3, <2>4, <2>6, <3>1
    <3> QED BY <1>3, <1>4, <2>6, <3>1, <3>2
  <2> HIDE DEF e
  <2>7. Reads(mem', slot) = <<slot + 1, e>>
    BY <1>11, <2>1, <2>4, <2>5, <2>6, <1>10
  <2> QED BY <1>10, <2>1, <2>7
<1>14. \/ next' = NoNext /\ stop = Len(path)
       \/ next' = stop + 1 /\ stop + 1 < Len(path) /\ path[stop + 1] = Colon
  <2>1. /\ stop + 1 \in Buffer /\ mem[stop + 1] = Original(stop + 1) /\ mem[stop] = Original(stop)
    BY <1>2, <1>3, <1>4, <1>6
  <2>2. CASE mem[stop] = Colon
    <3>1. stop + 1 < Len(path) /\ path[stop + 1] = Colon
      BY <1>4, <1>8, <2>1, <2>2 DEF Original
    <3>2. path[stop + 2] \in {Colon, Letter}
      BY <1>1, <1>4, <3>1, PathShape DEF IInv
    <3>3. mem[stop + 1] # Nul
      BY <1>4, <2>1, <3>1, <3>2 DEF Original, Colon, Letter, Nul
    <3> QED BY <1>3, <1>6, <3>1, <3>3 DEF Following
  <2>3. CASE mem[stop] # Colon
    <3>1. stop = Len(path)
      BY <1>2, <2>3
    <3>2. mem[stop + 1] = Nul
      BY <1>4, <2>1, <3>1 DEF Original
    <3> QED BY <1>3, <1>6, <3>1, <3>2 DEF Following
  <2> QED BY <2>2, <2>3
<1> HIDE DEF Names
<1>15. next' # NoNext => next' = 0 \/ path[next'] = Colon
  BY <1>14
<1>16. ASSUME NEW n \in DOMAIN vec'
       PROVE  /\ vec'[n] # Dot /\ Reads(mem', vec'[n]) \in Names
              /\ next' # NoNext => Reads(mem', vec'[n])[2] < next'
  <2>1. CASE n \in DOMAIN vec
    <3>1. Reads(mem', vec'[n]) = Denotes(vec[n]) /\ vec'[n] = vec[n]
      BY <1>10, <1>13, <2>1
    <3>2. Denotes(vec[n]) \in Names /\ Denotes(vec[n])[2] < next /\ Denotes(vec[n])[2] \in Nat
      BY <1>7, <2>1 DEF Names
    <3> QED BY <1>2, <1>4, <1>7, <1>14, <2>1, <3>1, <3>2
  <2>2. CASE n = Len(vec) + 1
    BY <1>4, <1>8, <1>9, <1>10, <1>12, <1>14, <2>2
  <2> QED BY <1>10, <2>1, <2>2
<1>17. ASSUME NEW m \in DOMAIN vec', NEW n \in DOMAIN vec', m < n
       PROVE  vec'[m] < vec'[n]
  <2>1. m \in DOMAIN vec
    BY <1>10, <1>17
  <2>2. CASE n \in DOMAIN vec
    BY <1>7, <1>10, <1>17, <2>1, <2>2
  <2>3. CASE n = Len(vec) + 1
    <3>1. vec[m] \in Buffer /\ vec[m] # Dot
      BY <1>7, <1>13, <2>1
    <3>2. vec[m] < next
      BY <1>1, <2>1, <3>1 DEF IInv, Progressing
    <3> QED BY <1>10, <2>1, <2>3, <3>2
  <2> QED BY <1>10, <2>2, <2>3
<1>18. ASSUME NEW name \in Names, next' = NoNext \/ name[1] <= next'
       PROVE  \E n \in DOMAIN vec' : Reads(mem', vec'[n]) = name
  <2>1. name[1] \in Nat /\ name[1] <= Len(path)
    BY <1>4 DEF Names
  <2>2. name[1] <= next + 1
    <3>1. next' = NoNext \/ (next' = stop + 1 /\ name[1] <= stop + 1)
      BY <1>4, <1>14, <1>18, <2>1 DEF NoNext
    <3>2. name[1] <= Len(path) /\ name[1] <= stop + 1
      BY <1>4, <1>14, <2>1, <3>1 DEF NoNext
    <3>3. name[1] <= next + 1 \/ stop + 2 <= name[1]
      BY <1>8
    <3> QED BY <1>4, <2>1, <3>2, <3>3
  <2>3. CASE name[1] <= next
    <3>1. PICK n \in DOMAIN vec : Denotes(vec[n]) = name
      BY <1>7, <2>3
    <3> QED BY <1>10, <1>13, <3>1
  <2>4. CASE name[1] = next + 1
    <3>1. name = <<next + 1, stop>>
      BY <1>4, <1>8, <2>4, NameByFirst
    <3> QED BY <1>10, <1>12, <3>1
  <2> QED BY <1>4, <2>1, <2>2, <2>3, <2>4
<1> QED BY <1>15, <1>16, <1>17, <1>18

\* Storing a name, finding its end and going on keeps the invariant.
LEMMA ComponentStep == ASSUME IInv, Component PROVE IInv'
<1>1. path # Unset /\ pc = "component" /\ next # NoNext
  BY DEF IInv, WithoutVariable, Component
<1> DEFINE stop == Min(Stops(next + 1))
           name == IF mem[next] = Colon THEN Dot ELSE next
<1>2. /\ stop \in Buffer /\ next < stop /\ stop <= Len(path)
      /\ mem[stop] = Colon => stop \in Colons
      /\ mem[stop] # Colon => stop = Len(path)
  BY <1>1, NextStop
<1>3. /\ vec' = Append(vec, name)
      /\ mem' = [mem EXCEPT ![stop] = Nul]
      /\ path' = path /\ capacity' = capacity /\ heap' = heap
      /\ \/ stop + 1 \in Buffer /\ next' = Following(stop) /\ pc' = "component"
         \/ stop + 1 \notin Buffer /\ next' = next /\ pc' = "undefined"
  BY <1>1, NextStop DEF Component
<1> HIDE DEF stop
<1>4. /\ TypeOK /\ ReadsInBounds /\ VectorFits /\ Chosen /\ Progressing /\ NamesStand
  BY DEF IInv
<1>5. /\ next \in Buffer /\ next \in Nat /\ stop \in Nat /\ Len(path) \in Nat
      /\ Len(path) < BufSize /\ capacity \in Nat
      /\ vec \in Seq(Buffer \cup {Dot}) /\ mem \in [Buffer -> {Colon, Letter, Nul}]
  BY <1>1, <1>2, <1>4, PathShape DEF TypeOK, Chosen, Buffer
<1>6. /\ Len(vec') = Len(vec) + 1
      /\ \A n \in DOMAIN vec' : IF n \in DOMAIN vec THEN vec'[n] = vec[n]
                                                    ELSE vec'[n] = name
  BY <1>3, <1>5
<1>7. \A j \in Buffer : j # stop => mem'[j] = mem[j]
  BY <1>2, <1>3, <1>5
<1>8. ASSUME pc' = "component", next' # NoNext
      PROVE  /\ next' = stop + 1 /\ stop + 1 \in Buffer /\ stop + 1 < Len(path)
             /\ stop \in Colons
  <2>1. stop + 1 \in Buffer /\ next' = stop + 1 /\ mem[stop + 1] # Nul
    BY <1>3, <1>8 DEF Following
  <2>2. mem[stop + 1] = Original(stop + 1)
    BY <1>1, <1>2, <1>4, <1>5, <2>1 DEF Progressing
  <2>3. stop + 1 < Len(path)
    BY <2>1, <2>2 DEF Original
  <2> QED BY <1>2, <1>5, <2>1, <2>3
<1>9. TypeOK'
  <2>1. next' \in Buffer \cup {NoNext}
    BY <1>3, <1>5 DEF Following
  <2>2. vec' \in Seq(Buffer \cup {Dot})
    BY <1>3, <1>5
  <2>3. mem' \in [Buffer -> {Colon, Letter, Nul}]
    BY <1>3, <1>5
  <2> QED BY <1>3, <1>4, <2>1, <2>2, <2>3 DEF TypeOK, Buffer
<1>10. ReadsInBounds'
  <2>1. SUFFICES ASSUME pc' = "undefined" PROVE Len(path) > BufSize - 2
    BY <1>1, <1>3 DEF ReadsInBounds
  <2>2. stop + 1 \notin Buffer
    BY <1>3, <2>1
  <2> QED BY <1>2, <1>5, <2>2, SizesAssumption DEF Buffer
<1>11. Len(vec) <= Cardinality(ColonsBefore(next)) /\ Len(vec) <= Cardinality(Colons)
  <2>1. Len(vec) <= Cardinality(ColonsBefore(next)) /\ Len(vec) \in Nat
    BY <1>1, <1>4, <1>5 DEF Progressing
  <2> QED BY <2>1, ColonsAreFinite
<1>12. VectorFits'
  <2>1. capacity >= Cardinality(Colons) + 3
    BY <1>1, <1>4 DEF Chosen
  <2>2. Cardinality(Colons) \in Nat /\ Len(vec) \in Nat
    BY <1>5, ColonsAreFinite
  <2> QED BY <1>3, <1>5, <1>6, <1>11, <2>1, <2>2 DEF VectorFits
<1>13. Colons' = Colons
  BY <1>3 DEF Colons, Buffer
<1>14. Chosen'
  <2>1. BufSize - 1 \in Buffer /\ mem[BufSize - 1] = Nul
    BY <1>1, <1>4, SizesAssumption DEF Chosen, Buffer
  <2>2. mem'[BufSize - 1] = Nul
    BY <1>3, <1>5, <2>1
  <2> QED BY <1>1, <1>3, <1>4, <1>13, <2>2 DEF Chosen
<1>15. Progressing'
  <2>1. SUFFICES ASSUME pc' = "component", next' # NoNext
                 PROVE  /\ next' < Len(path)
                        /\ \A j \in Buffer : j >= next' => mem'[j] = Original(j)
                        /\ Len(vec') <= Cardinality({k \in Colons : k < next'})
                        /\ \A n \in DOMAIN vec' : vec'[n] # Dot => vec'[n] < next'
    BY <1>3, <1>13 DEF Progressing, Original, Buffer, ColonsBefore
  <2>2. next' = stop + 1 /\ stop + 1 < Len(path) /\ stop \in Colons
    BY <1>8, <2>1
  <2>3. \A j \in Buffer : j >= next' => mem'[j] = Original(j)
    <3>1. \A j \in Buffer : j >= stop + 1 => j # stop /\ j >= next
      BY <1>2, <1>5 DEF Buffer
    <3> QED BY <1>1, <1>4, <1>7, <2>2, <3>1 DEF Progressing
  <2>4. Len(vec') <= Cardinality({k \in Colons : k < next'})
    <3>1. ColonsBefore(next) \cup {stop} \subseteq ColonsBefore(stop + 1)
      BY <1>2, <1>5, <2>2 DEF ColonsBefore, Colons, Buffer
    <3>2. stop \notin ColonsBefore(next)
      BY <1>2, <1>5 DEF ColonsBefore
    <3>3. Cardinality(ColonsBefore(next) \cup {stop}) = Cardinality(ColonsBefore(next)) + 1
      BY <3>2, FS_AddElement, ColonsAreFinite
    <3>4. Cardinality(ColonsBefore(next) \cup {stop}) <= Cardinality(ColonsBefore(stop + 1))
      BY <3>1, FS_Subset, ColonsAreFinite
    <3>5. {k \in Colons : k < next'} = ColonsBefore(stop + 1)
      BY <2>2 DEF ColonsBefore
    <3>6. Cardinality(ColonsBefore(next)) \in Nat
          /\ Cardinality(ColonsBefore(stop + 1)) \in Nat /\ Len(vec) \in Nat
      BY <1>5, ColonsAreFinite
    <3>7. Len(vec) + 1 <= Cardinality(ColonsBefore(stop + 1))
      BY <1>11, <3>3, <3>4, <3>6
    <3> QED BY <1>6, <3>5, <3>7
  <2>5. \A n \in DOMAIN vec' : vec'[n] # Dot => vec'[n] < next'
    <3>1. \A n \in DOMAIN vec : vec[n] # Dot => vec[n] < next /\ vec[n] \in Nat
      BY <1>1, <1>4, <1>5 DEF Progressing, Buffer
    <3> QED BY <1>2, <1>5, <1>6, <2>2, <3>1
  <2> QED BY <2>2, <2>3, <2>4, <2>5
<1>16. NamesStand'
  <2>1. \A n \in DOMAIN vec : vec[n] # Dot => /\ vec[n] \in Buffer
                                              /\ vec[n] # stop
                                              /\ mem[vec[n]] # Nul
    BY <1>1, <1>2, <1>4, <1>5 DEF Progressing, NamesStand, Buffer
  <2>2. mem[next] # Nul
    <3>1. mem[next] = Original(next) /\ next < Len(path)
      BY <1>1, <1>4, <1>5 DEF Progressing
    <3>2. path[next + 1] \in {Colon, Letter}
      BY <1>1, <1>4, <1>5, <3>1, PathShape
    <3> QED BY <3>1, <3>2 DEF Original, Colon, Letter, Nul
  <2>3. name # Dot => name \in Buffer /\ name # stop /\ mem[name] # Nul
    BY <1>2, <1>5, <2>2
  <2> QED BY <1>6, <1>7, <2>1, <2>3 DEF NamesStand
<1> QED
  BY <1>1, <1>3, <1>9, <1>10, <1>12, <1>14, <1>15, <1>16, SplittingGoesOn
     DEF IInv, WithoutVariable, NotYetParsed, FreshCopy

\* The copy, or the empty buffer that stands for no variable.
LEMMA CopyStep == ASSUME IInv, Copy PROVE IInv'
<1>1. TypeOK'
  <2>1. ASSUME path # Unset
        PROVE  mem' \in [Buffer -> {Colon, Letter, Nul}]
    BY <2>1, PathShape DEF IInv, Copy, Buffer
  <2>2. ASSUME path = Unset
        PROVE  mem' \in [Buffer -> {Colon, Letter, Nul}]
    BY <2>2 DEF IInv, TypeOK, Copy
  <2> QED BY <2>1, <2>2 DEF IInv, TypeOK, Copy, Buffer
<1>2. WithoutVariable'
  BY SizesAssumption DEF IInv, TypeOK, WithoutVariable, NotYetParsed, Copy, Buffer
<1>3. FreshCopy'
  BY DEF FreshCopy, Copy, Buffer
<1>4. NotYetParsed' /\ VectorFits' /\ NamesStand' /\ ReadsInBounds' /\ Chosen' /\ Progressing'
  BY DEF IInv, NotYetParsed, VectorFits, NamesStand, ReadsInBounds, Chosen,
         Progressing, Copy
<1>5. Splitting'
  BY DEF IInv, NotYetParsed, Splitting, Copy
<1> QED BY <1>1, <1>2, <1>3, <1>4, <1>5 DEF IInv

\* The choice of the vector, and the end for want of memory.
LEMMA SizeStep == ASSUME IInv, Size PROVE IInv'
<1>1. path # Unset /\ pc = "count" /\ vec = <<>> /\ next = NoNext
  BY DEF IInv, WithoutVariable, NotYetParsed, Size
<1>2. /\ TypeOK /\ FreshCopy /\ Len(path) \in Nat /\ Count \in Nat
      /\ path' = path /\ mem' = mem /\ vec' = vec /\ next' = next
  BY <1>1, PathShape, CountsColons DEF IInv, Size
<1>3. \A j \in Buffer : mem[j] = IF j < Len(path) THEN path[j + 1] ELSE Nul
  BY <1>1, <1>2 DEF FreshCopy
<1>4. ASSUME pc' = "undefined" PROVE Len(path) > BufSize - 2
  <2>1. BufSize - 1 \in Buffer /\ mem[BufSize - 1] # Nul
    BY <1>4, SizesAssumption DEF Size, Buffer
  <2> QED BY <1>2, <1>3, <2>1, SizesAssumption
<1>5. ASSUME pc' # "undefined" PROVE Len(path) < BufSize
  <2>1. PICK k \in Buffer : mem[k] = Nul
    BY <1>5 DEF Size
  <2>2. k \in Nat /\ k < BufSize
    BY SizesAssumption DEF Buffer
  <2>3. ASSUME k < Len(path) PROVE mem[k] \in {Colon, Letter}
    <3>1. path[k + 1] \in {Colon, Letter}
      BY <1>1, <1>2, <2>2, <2>3, PathShape
    <3> QED BY <1>3, <2>3, <3>1
  <2>4. ~ (k < Len(path))
    BY <2>1, <2>3 DEF Colon, Letter, Nul
  <2> QED BY <1>2, <2>2, <2>4, SizesAssumption
<1>6. ASSUME pc' = "first"
      PROVE  /\ Len(path) < BufSize /\ mem[BufSize - 1] = Nul
             /\ capacity' >= Cardinality(Colons) + 3
  <2>1. Len(path) < BufSize
    BY <1>5, <1>6
  <2>2. Count = 1 + Cardinality(Colons) /\ Cardinality(Colons) \in Nat
    BY <1>1, <1>2, <2>1, CountsColons, ColonsAreFinite
  <2>3. BufSize - 1 \in Buffer
    BY SizesAssumption DEF Buffer
  <2>4. mem[BufSize - 1] = Nul
    BY <1>2, <1>3, <2>1, <2>3, SizesAssumption
  <2>5. capacity' = Count + 2 \/ (Count + 1 < VecSlots /\ capacity' = VecSlots)
    BY <1>1, <1>6 DEF Size, IInv, NotYetParsed
  <2> QED BY <1>2, <2>1, <2>2, <2>4, <2>5, SizesAssumption
<1>7. TypeOK'
  <2>1. heap' \in BOOLEAN
    <3>1. heap \in BOOLEAN
      BY <1>2 DEF TypeOK
    <3>2. heap' = heap \/ heap' = TRUE
      BY DEF Size
    <3> QED BY <3>1, <3>2
  <2>2. capacity' \in Nat
    <3>1. capacity' = capacity \/ capacity' = Count + 2
      BY DEF Size
    <3>2. capacity \in Nat
      BY <1>2 DEF TypeOK
    <3> QED BY <1>2, <3>1, <3>2
  <2>3. pc' \in {"undefined", "first", "failed"}
    BY DEF Size
  <2> QED BY <1>2, <2>1, <2>2, <2>3 DEF TypeOK, Buffer
<1>8. VectorFits'
  BY <1>1, <1>2, SizesAssumption DEF IInv, TypeOK, VectorFits, Size
<1>9. Colons' = Colons
  BY <1>2 DEF Colons, Buffer
<1>10. Chosen'
  BY <1>1, <1>2, <1>6, <1>9 DEF Chosen, Size
<1>11. Splitting'
  BY <1>1, <1>2 DEF Splitting, Size
<1> QED
  BY <1>1, <1>2, <1>4, <1>7, <1>8, <1>10, <1>11
     DEF IInv, ReadsInBounds, WithoutVariable, NotYetParsed, FreshCopy, Progressing,
         NamesStand, Size, Buffer

\* The first character decides whether there is a name.
LEMMA FirstStep == ASSUME IInv, First PROVE IInv'
<1>1. /\ pc = "first" /\ pc' = "component" /\ vec = <<>>
      /\ next' = IF mem[0] # Nul THEN 0 ELSE NoNext
      /\ path' = path /\ mem' = mem /\ vec' = vec /\ capacity' = capacity /\ heap' = heap
  BY DEF IInv, NotYetParsed, First
<1>2. Colons' = Colons
  BY <1>1 DEF Colons, Buffer
<1>3. TypeOK' /\ VectorFits' /\ WithoutVariable' /\ Chosen'
  BY <1>1, <1>2, SizesAssumption
     DEF IInv, TypeOK, VectorFits, WithoutVariable, Chosen, Buffer
<1>4. Progressing'
  <2>1. SUFFICES ASSUME path # Unset, mem[0] # Nul
                 PROVE  /\ 0 < Len(path)
                        /\ \A j \in Buffer : mem[j] = Original(j)
                        /\ 0 <= Cardinality(ColonsBefore(0))
    <3>1. ColonsBefore(0)' = ColonsBefore(0) /\ \A j : Original(j)' = Original(j)
      BY <1>1, <1>2 DEF ColonsBefore, Original
    <3>2. next' # NoNext => next' = 0 /\ mem[0] # Nul
      BY <1>1
    <3>3. Len(vec') = 0 /\ DOMAIN vec' = {}
      BY <1>1
    <3> QED BY <1>1, <2>1, <3>1, <3>2, <3>3 DEF Progressing, Buffer
  <2>2. \A j \in Buffer : mem[j] = Original(j)
    BY <1>1, <2>1 DEF IInv, FreshCopy, Original
  <2>3. 0 < Len(path)
    BY <2>1, <2>2, SizesAssumption DEF Original, Buffer
  <2> QED BY <2>2, <2>3, ColonsAreFinite
<1>5. Splitting'
  <2>1. ASSUME path # Unset PROVE mem[0] # Nul <=> path # <<>>
    <3>1. mem[0] = IF 0 < Len(path) THEN path[1] ELSE Nul
      BY <1>1, <2>1, SizesAssumption DEF IInv, FreshCopy, Buffer
    <3>2. Len(path) \in Nat /\ \A i \in 1 .. Len(path) : path[i] \in {Colon, Letter}
      BY <2>1, PathShape DEF IInv
    <3>3. path = <<>> <=> Len(path) = 0
      <4>1. PICK n \in 0 .. MaxLen : path \in [1 .. n -> {Colon, Letter}]
        BY <2>1 DEF IInv, TypeOK, Paths
      <4>2. path \in Seq({Colon, Letter})
        BY <4>1, SizesAssumption
      <4> QED BY <4>2
    <3> QED BY <3>1, <3>2, <3>3 DEF Colon, Letter, Nul
  <2>2. DOMAIN vec' = {} /\ vec' = <<>>
    BY <1>1
  <2>3. path' = path /\ next' \in {0, NoNext} /\ (path # Unset => (next' = 0 <=> path # <<>>))
    BY <1>1, <2>1 DEF NoNext
  <2>4. path # Unset /\ path # <<>> => \A name \in Names' : ~ (next' = NoNext \/ name[1] <= next')
    <3>1. \A name \in Names' : name[1] \in 1 .. Len(path)
      BY <1>1 DEF Names
    <3>2. path # Unset => Len(path) \in Nat
      BY PathShape DEF IInv
    <3> HIDE DEF Names
    <3> QED BY <2>3, <3>1, <3>2 DEF NoNext
  <2> HIDE DEF Names, HasEmptyName, Denotes
  <2>5. pc' # "done"
    BY <1>1
  <2> QED BY <2>2, <2>3, <2>4, <2>5 DEF Splitting, NoNext
<1> QED
  BY <1>1, <1>3, <1>4, <1>5
     DEF IInv, ReadsInBounds, NotYetParsed, FreshCopy, NamesStand

\* The end of the vector, its release, and the end of the program's interest.
LEMMA ClosingStep ==
  ASSUME IInv, Finish \/ Release \/ UNCHANGED vars PROVE IInv'
<1>1. /\ path' = path /\ mem' = mem /\ vec' = vec /\ next' = next
      /\ capacity' = capacity /\ heap' \in BOOLEAN
      /\ \/ pc = "component" /\ next = NoNext /\ pc' = "done"
         \/ pc \in {"done", "failed"} /\ pc' = "released"
         \/ pc' = pc
  BY DEF IInv, TypeOK, Finish, Release, vars
<1>2. Colons' = Colons
  BY <1>1 DEF Colons, Buffer
<1>3. TypeOK' /\ ReadsInBounds' /\ VectorFits' /\ NamesStand'
  BY <1>1 DEF IInv, TypeOK, ReadsInBounds, VectorFits, NamesStand, Buffer
<1>4. WithoutVariable' /\ NotYetParsed' /\ FreshCopy' /\ Chosen'
  BY <1>1, <1>2
     DEF IInv, WithoutVariable, NotYetParsed, FreshCopy, Chosen, Buffer
<1>5. Progressing'
  BY <1>1, <1>2 DEF IInv, Progressing, Original, Buffer, ColonsBefore
<1>6. Splitting'
  <2>1. Names' = Names /\ HasEmptyName' = HasEmptyName
    BY <1>1 DEF Names, HasEmptyName
  <2>2. \A n \in DOMAIN vec : Denotes(vec[n])' = Denotes(vec[n])
    BY <1>1 DEF Denotes, Buffer
  <2>3. pc' \in {"component", "done"} => pc \in {"component", "done"}
    BY <1>1
  <2> HIDE DEF Names, HasEmptyName, Denotes
  <2> QED BY <1>1, <2>1, <2>2, <2>3 DEF IInv, Splitting
<1> QED BY <1>3, <1>4, <1>5, <1>6 DEF IInv

\* No step of the parse breaks the invariant.
LEMMA InvNext == IInv /\ [Next]_vars => IInv'
BY CopyStep, SizeStep, FirstStep, ComponentStep, ClosingStep DEF Next, Ended

\* The invariant holds throughout the parse.
THEOREM Invariance == Spec => []IInv
BY InvInit, InvNext, PTL DEF Spec

-----------------------------------------------------------------------------
(* What the parse keeps to.                                                *)

\* The buffer, the vector and the pointers keep their shape.
THEOREM TypeCorrect == Spec => []TypeOK
<1>1. IInv => TypeOK
  BY DEF IInv
<1> QED BY <1>1, Invariance, PTL

\* A variable that leaves two bytes of lpathbuf is parsed inside it, for
\* buffers of any size: in the code, up to 2046 characters.
THEOREM BoundsKept == Spec => []ReadsInBounds
<1>1. IInv => ReadsInBounds
  BY DEF IInv
<1> QED BY <1>1, Invariance, PTL

\* Neither lpathvbuf nor the vector from the heap is written behind its end,
\* the null included.
THEOREM VectorHolds == Spec => []VectorFits
<1>1. IInv => VectorFits
  BY DEF IInv
<1> QED BY <1>1, Invariance, PTL

\* The name in a slot has at least one character when the loader reads it.
THEOREM SlotsAreNames == Spec => []NoEmptySlot
<1>1. IInv => NoEmptySlot
  <2> SUFFICES ASSUME IInv, pc = "done", NEW n \in DOMAIN vec, vec[n] # Dot
               PROVE  LET name == Denotes(vec[n]) IN name[1] <= name[2]
    BY DEF NoEmptySlot
  <2> DEFINE slot == vec[n]
             ends == {k \in Buffer : k >= slot /\ mem[k] = Nul}
  <2>1. path # Unset /\ slot \in Buffer /\ mem[slot] # Nul
    BY DEF IInv, TypeOK, WithoutVariable, NamesStand
  <2>2. BufSize - 1 \in ends
    BY <2>1, SizesAssumption DEF IInv, Chosen, Buffer
  <2>3. ends \in SUBSET Nat
    BY DEF Buffer
  <2>4. Min(ends) \in ends
    BY <2>2, <2>3, LeastOf
  <2>5. Min(ends) >= slot + 1
    BY <2>1, <2>4 DEF Buffer
  <2>6. Denotes(slot) = <<slot + 1, Min(ends)>>
    BY DEF Denotes
  <2> HIDE DEF slot, ends
  <2>7. LET name == Denotes(slot) IN name[1] <= name[2]
    BY <2>5, <2>6
  <2> QED BY <2>7 DEF slot
<1> QED BY <1>1, Invariance, PTL

\* A variable without empty names is handed to the loader name by name, each
\* once and in order, however long it is and whatever lies behind it in the
\* buffer (dynlink.c:68-88).
THEOREM NamesInOrder == Spec => []VectorIsSplit
<1>1. IInv => VectorIsSplit
  <2> SUFFICES ASSUME IInv, pc = "done"
               PROVE  IF path = Unset \/ path = <<>> THEN vec = <<>>
                      ELSE ~HasEmptyName =>
                        LET names == [n \in DOMAIN vec |-> Denotes(vec[n])]
                        IN  /\ Range(names) = Names
                            /\ \A m, n \in DOMAIN vec : m < n => Earlier(names[m], names[n])
    BY DEF VectorIsSplit
  <2>1. ASSUME path = Unset \/ path = <<>> PROVE vec = <<>>
    BY <2>1 DEF IInv, WithoutVariable, Splitting
  <2>2. ASSUME path # Unset, path # <<>>, ~HasEmptyName
        PROVE  LET names == [n \in DOMAIN vec |-> Denotes(vec[n])]
               IN  /\ Range(names) = Names
                   /\ \A m, n \in DOMAIN vec : m < n => Earlier(names[m], names[n])
    <3> DEFINE names == [n \in DOMAIN vec |-> Denotes(vec[n])]
    <3>1. vec \in Seq(Buffer \cup {Dot}) /\ next = NoNext
      BY DEF IInv, TypeOK, Splitting
    <3>2. /\ \A n \in DOMAIN vec : vec[n] # Dot /\ Denotes(vec[n]) \in Names
          /\ \A m, n \in DOMAIN vec : m < n => vec[m] < vec[n]
          /\ \A name \in Names : \E n \in DOMAIN vec : Denotes(vec[n]) = name
      BY <2>2, <3>1 DEF IInv, Splitting
    <3>3. Range(names) = Names
      BY <3>2 DEF Range
    <3>4. ASSUME NEW m \in DOMAIN vec, NEW n \in DOMAIN vec, m < n
          PROVE  Earlier(names[m], names[n])
      <4>1. names[m][1] = vec[m] + 1 /\ names[n][1] = vec[n] + 1
        BY <3>2 DEF Denotes
      <4>2. vec[m] < vec[n] /\ vec[m] \in Nat /\ vec[n] \in Nat
        BY <3>1, <3>2, <3>4 DEF Buffer
      <4> QED BY <4>1, <4>2 DEF Earlier
    <3> QED BY <3>3, <3>4
  <2> QED BY <2>1, <2>2
<1> QED BY <1>1, Invariance, PTL

=============================================================================
