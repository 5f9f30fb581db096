--------------------------- MODULE SystemProofs ----------------------------
(***************************************************************************)
(* What SimSystemMultiCore keeps, for any number of processes,             *)
(* descriptors, files, pages and mappings; and what its scheduler keeps.   *)
(***************************************************************************)
EXTENDS Scheduler, ProcessMemory, ProcessFiles, SystemMemory, FiniteSetTheorems,
        FunctionTheorems, SequenceTheorems, WellFoundedInduction, TLAPS

(* Numbers and sequences *)

LessThan == {q \in Nat \X Nat : q[1] < q[2]}

\* A set of numbers has a least one.
LEMMA LeastNumber ==
  ASSUME NEW S, S \subseteq Nat, S # {}
  PROVE  \E n \in S : \A m \in S : n <= m
<1>1. OpToRel(<, Nat) = LessThan
  BY DEF OpToRel, LessThan
<1>2. PICK n \in S : \A m \in S : <<m, n>> \notin LessThan
  BY <1>1, NatLessThanWellFounded, WFMin
<1>3. ASSUME NEW m \in S PROVE n <= m
  <2>1. <<m, n>> \notin LessThan /\ m \in Nat /\ n \in Nat
    BY <1>2
  <2>2. m < n => <<m, n>> \in LessThan
    BY <2>1 DEF LessThan
  <2> QED BY <2>1, <2>2
<1> QED BY <1>3

\* A set with 0 and with the successor of each of its numbers has all numbers.
LEMMA AllNumbers ==
  ASSUME NEW S, 0 \in S, \A n \in Nat : n \in S => n + 1 \in S
  PROVE  \A n \in Nat : n \in S
<1> SUFFICES ASSUME Nat \ S # {} PROVE FALSE
  OBVIOUS
<1> DEFINE R == Nat \ S
<1>1. R \subseteq Nat /\ R # {}
  OBVIOUS
<1> HIDE DEF R
<1>2. PICK n \in R : \A m \in R : n <= m
  BY <1>1, LeastNumber
<1>3. n \in Nat /\ n \notin S
  BY <1>2 DEF R
<1>4. n # 0 /\ n - 1 \in Nat
  BY <1>3
<1>5. n - 1 \in S
  BY <1>2, <1>4 DEF R
<1> QED BY <1>3, <1>4, <1>5

\* A sequence with one element more, or one less.
LEMMA Inserted ==
  ASSUME NEW S, NEW ss \in Seq(S), NEW k \in 1 .. Len(ss) + 1, NEW s \in S
  PROVE  /\ InsertAt(ss, k, s) \in Seq(S) /\ Len(InsertAt(ss, k, s)) = Len(ss) + 1
         /\ InsertAt(ss, k, s)[k] = s
         /\ \A j \in 1 .. k - 1 : InsertAt(ss, k, s)[j] = ss[j]
         /\ \A j \in k + 1 .. Len(ss) + 1 : InsertAt(ss, k, s)[j] = ss[j - 1]
<1> DEFINE m == Len(ss)
           lower == SubSeq(ss, 1, k - 1)
           upper == SubSeq(ss, k, m)
           front == lower \o <<s>>
<1>1. m \in Nat /\ k \in Int /\ k - 1 \in Int /\ \A j \in 1 .. m : ss[j] \in S
  OBVIOUS
<1>2. lower \in Seq(S) /\ Len(lower) = k - 1 /\ \A j \in 1 .. k - 1 : lower[j] = ss[j]
  <2>1. \A j \in 1 .. k - 1 : ss[j] \in S
    BY <1>1
  <2>2. /\ lower \in Seq(S) /\ Len(lower) = IF 1 <= k - 1 THEN k - 1 - 1 + 1 ELSE 0
        /\ \A j \in 1 .. k - 1 - 1 + 1 : lower[j] = ss[1 + j - 1]
    BY <1>1, <2>1, SubSeqProperties
  <2> HIDE DEF lower
  <2> QED BY <1>1, <2>2
<1>3. upper \in Seq(S) /\ Len(upper) = m - k + 1 /\ \A j \in 1 .. m - k + 1 : upper[j] = ss[k + j - 1]
  <2>1. \A j \in k .. m : ss[j] \in S
    BY <1>1
  <2>2. /\ upper \in Seq(S) /\ Len(upper) = IF k <= m THEN m - k + 1 ELSE 0
        /\ \A j \in 1 .. m - k + 1 : upper[j] = ss[k + j - 1]
    BY <1>1, <2>1, SubSeqProperties
  <2> HIDE DEF upper
  <2> QED BY <1>1, <2>2
<1>4. InsertAt(ss, k, s) = front \o upper
  BY DEF InsertAt
<1> HIDE DEF lower, upper
<1>5. <<s>> \in Seq(S) /\ Len(<<s>>) = 1 /\ <<s>>[1] = s
  OBVIOUS
<1>6. /\ front \in Seq(S) /\ Len(front) = k
      /\ \A j \in 1 .. k : front[j] = IF j <= k - 1 THEN lower[j] ELSE s
  <2> DEFINE one == <<s>>
  <2> HIDE DEF one
  <2>1. one \in Seq(S) /\ Len(one) = 1 /\ one[1] = s
    BY <1>5 DEF one
  <2>2. /\ lower \o one \in Seq(S) /\ Len(lower \o one) = Len(lower) + Len(one)
        /\ \A j \in 1 .. Len(lower) + Len(one) :
             (lower \o one)[j] = IF j <= Len(lower) THEN lower[j] ELSE one[j - Len(lower)]
    BY <1>2, <2>1, ConcatProperties
  <2>3. front = lower \o one
    BY DEF one
  <2> HIDE DEF front
  <2> QED BY <1>1, <1>2, <2>1, <2>2, <2>3
<1> HIDE DEF front
<1>7. /\ front \o upper \in Seq(S) /\ Len(front \o upper) = Len(front) + Len(upper)
      /\ \A j \in 1 .. Len(front) + Len(upper) :
           (front \o upper)[j] = IF j <= Len(front) THEN front[j] ELSE upper[j - Len(front)]
  BY <1>3, <1>6, ConcatProperties
<1>8. Len(front) + Len(upper) = m + 1
  BY SMTT(30), <1>1, <1>3, <1>6
<1>9. (front \o upper)[k] = s
  BY <1>1, <1>6, <1>7, <1>8
<1>10. ASSUME NEW j \in 1 .. k - 1 PROVE (front \o upper)[j] = ss[j]
  BY <1>1, <1>2, <1>6, <1>7, <1>8
<1>11. ASSUME NEW j \in k + 1 .. m + 1 PROVE (front \o upper)[j] = ss[j - 1]
  <2>1. j - k \in 1 .. m - k + 1 /\ k + (j - k) - 1 = j - 1 /\ ~(j <= k) /\ j \in 1 .. m + 1
    BY <1>1
  <2>2. upper[j - k] = ss[j - 1]
    BY <1>3, <2>1
  <2> QED BY <1>6, <1>7, <1>8, <2>1, <2>2
<1> QED BY <1>4, <1>7, <1>8, <1>9, <1>10, <1>11

LEMMA Removed ==
  ASSUME NEW S, NEW ss \in Seq(S), NEW k \in 1 .. Len(ss)
  PROVE  /\ RemoveAt(ss, k) \in Seq(S) /\ Len(RemoveAt(ss, k)) = Len(ss) - 1
         /\ \A j \in 1 .. Len(ss) - 1 : RemoveAt(ss, k)[j] = IF j < k THEN ss[j] ELSE ss[j + 1]
<1> DEFINE m == Len(ss)
           lower == SubSeq(ss, 1, k - 1)
           upper == SubSeq(ss, k + 1, m)
<1>1. m \in Nat /\ k \in Int /\ k - 1 \in Int /\ k + 1 \in Int /\ \A j \in 1 .. m : ss[j] \in S
  OBVIOUS
<1>2. lower \in Seq(S) /\ Len(lower) = k - 1 /\ \A j \in 1 .. k - 1 : lower[j] = ss[j]
  <2>1. \A j \in 1 .. k - 1 : ss[j] \in S
    BY <1>1
  <2>2. /\ lower \in Seq(S) /\ Len(lower) = IF 1 <= k - 1 THEN k - 1 - 1 + 1 ELSE 0
        /\ \A j \in 1 .. k - 1 - 1 + 1 : lower[j] = ss[1 + j - 1]
    BY <1>1, <2>1, SubSeqProperties
  <2> HIDE DEF lower
  <2> QED BY <1>1, <2>2
<1>3. upper \in Seq(S) /\ Len(upper) = m - k /\ \A j \in 1 .. m - k : upper[j] = ss[k + j]
  <2>1. \A j \in k + 1 .. m : ss[j] \in S
    BY <1>1
  <2>2. /\ upper \in Seq(S) /\ Len(upper) = IF k + 1 <= m THEN m - (k + 1) + 1 ELSE 0
        /\ \A j \in 1 .. m - (k + 1) + 1 : upper[j] = ss[(k + 1) + j - 1]
    BY <1>1, <2>1, SubSeqProperties
  <2> HIDE DEF upper
  <2> QED BY <1>1, <2>2
<1>4. RemoveAt(ss, k) = lower \o upper
  BY DEF RemoveAt
<1> HIDE DEF lower, upper
<1>5. /\ lower \o upper \in Seq(S) /\ Len(lower \o upper) = Len(lower) + Len(upper)
      /\ \A j \in 1 .. Len(lower) + Len(upper) :
           (lower \o upper)[j] = IF j <= Len(lower) THEN lower[j] ELSE upper[j - Len(lower)]
  BY <1>2, <1>3, ConcatProperties
<1>6. Len(lower) + Len(upper) = m - 1
  BY SMTT(30), <1>1, <1>2, <1>3
<1>7. ASSUME NEW j \in 1 .. m - 1 PROVE (lower \o upper)[j] = IF j < k THEN ss[j] ELSE ss[j + 1]
  <2>1. CASE j < k
    BY <1>1, <1>2, <1>5, <1>6, <2>1
  <2>2. CASE ~(j < k)
    <3>1. j - (k - 1) \in 1 .. m - k /\ k + (j - (k - 1)) = j + 1 /\ ~(j <= k - 1)
      BY <1>1, <2>2
    <3>2. upper[j - (k - 1)] = ss[j + 1]
      BY <1>3, <3>1
    <3> QED BY <1>2, <1>5, <1>6, <2>2, <3>1, <3>2
  <2> QED BY <2>1, <2>2
<1> QED BY <1>4, <1>5, <1>6, <1>7

-----------------------------------------------------------------------------
(* Every guest descriptor leads to the file it was opened for.  The strengthening
   says what an entry may be, and that those beyond the standard ones share no host
   descriptor, so that closing one takes nothing from another. *)

\* What an entry of a table leads to: nothing, the same standard descriptor, or one the host gave.
FdEntryOK(f, h) == h = NoFd \/ (h \in Std /\ h = f) \/ h \in Nat \ Std
StdOK(H) == \A h \in Std : h \in DOMAIN H /\ H[h] = h
FdTableOK(F, H, M) ==
  /\ \A f \in DOMAIN F : FdEntryOK(f, F[f])
  /\ DOMAIN M = {f \in DOMAIN F : F[f] # NoFd}
  /\ \A f \in DOMAIN M : F[f] \in DOMAIN H /\ H[F[f]] = M[f]
OnceIn(F) == \A f, g \in DOMAIN F : F[f] = F[g] /\ F[f] \in Nat \ Std => f = g
FdsApart(F, G) == \A f \in DOMAIN F, g \in DOMAIN G : F[f] = G[g] => F[f] \notin Nat \ Std
FilesOK(F, H, M) ==
  /\ DOMAIN F = Clients /\ DOMAIN M = Clients
  /\ StdOK(H)
  /\ \A p \in Clients : FdTableOK(F[p], H, M[p]) /\ OnceIn(F[p])
  /\ \A p, r \in Clients : p # r => FdsApart(F[p], F[r])
FilesInv == FilesOK(fds, hostFile, means)

\* One process's table changes, and with it the host's descriptors, in a way that leaves
\* alone what the others lead to: all is well if it is for that process.
LEMMA OneChanges ==
  ASSUME NEW F, NEW H, NEW M, FilesOK(F, H, M), NEW p \in Clients,
         NEW F2, NEW H2, NEW M2,
         DOMAIN F2 = Clients, DOMAIN M2 = Clients,
         \A r \in Clients \ {p} : F2[r] = F[r] /\ M2[r] = M[r],
         \A r \in Clients \ {p} : \A f \in DOMAIN F[r] :
           F[r][f] \in DOMAIN H => F[r][f] \in DOMAIN H2 /\ H2[F[r][f]] = H[F[r][f]],
         StdOK(H2), FdTableOK(F2[p], H2, M2[p]), OnceIn(F2[p]),
         \A r \in Clients \ {p} : FdsApart(F2[p], F[r])
  PROVE  FilesOK(F2, H2, M2)
<1>1. \A r \in Clients \ {p} : FdTableOK(F2[r], H2, M2[r]) /\ OnceIn(F2[r])
  BY DEF FilesOK, FdTableOK
<1>2. ASSUME NEW r \in Clients, NEW s \in Clients, r # s PROVE FdsApart(F2[r], F2[s])
  BY <1>2 DEF FilesOK, FdsApart
<1> QED
  BY <1>1, <1>2 DEF FilesOK

\* A descriptor the host had free is entered.
LEMMA Enters ==
  ASSUME NEW F, NEW H, NEW M, FilesOK(F, H, M), NEW p \in Clients,
         NEW f, NEW h \in HostFree(H), NEW x
  PROVE  FilesOK([F EXCEPT ![p] = With(@, f, h)], With(H, h, x), [M EXCEPT ![p] = With(@, f, x)])
<1> DEFINE F2 == [F EXCEPT ![p] = With(@, f, h)]
           H2 == With(H, h, x)
           M2 == [M EXCEPT ![p] = With(@, f, x)]
<1>1. h \in Nat \ Std /\ h \notin DOMAIN H /\ h # NoFd
  BY FdAssumption DEF HostFree, Std, NoFd
<1>2. /\ DOMAIN F2 = Clients /\ DOMAIN M2 = Clients
      /\ F2[p] = With(F[p], f, h) /\ M2[p] = With(M[p], f, x)
      /\ \A r \in Clients \ {p} : F2[r] = F[r] /\ M2[r] = M[r]
  BY DEF FilesOK
<1>3. \A r \in Clients : \A g \in DOMAIN F[r] : F[r][g] # h
  BY <1>1 DEF FilesOK, FdTableOK
<1>4. \A g \in DOMAIN H : g \in DOMAIN H2 /\ H2[g] = H[g]
  BY <1>1 DEF With
<1>5. StdOK(H2)
  BY <1>4 DEF StdOK, FilesOK
<1>6. FdTableOK(F[p], H, M[p]) /\ OnceIn(F[p])
  BY DEF FilesOK
<1>7. FdTableOK(F2[p], H2, M2[p])
  <2>1. \A g \in DOMAIN F2[p] : FdEntryOK(g, F2[p][g])
    BY <1>1, <1>2, <1>6 DEF FdTableOK, With, FdEntryOK
  <2>2. DOMAIN M2[p] = {g \in DOMAIN F2[p] : F2[p][g] # NoFd}
    BY <1>1, <1>2, <1>6 DEF FdTableOK, With
  <2>3. ASSUME NEW g \in DOMAIN M2[p] PROVE F2[p][g] \in DOMAIN H2 /\ H2[F2[p][g]] = M2[p][g]
    <3>1. CASE g = f
      BY <1>2, <3>1 DEF With
    <3>2. CASE g # f
      <4>1. g \in DOMAIN M[p] /\ g \in DOMAIN F[p] /\ F2[p][g] = F[p][g] /\ M2[p][g] = M[p][g]
        BY <1>2, <1>6, <3>2 DEF With, FdTableOK
      <4> QED
        BY <4>1, <1>4, <1>6 DEF FdTableOK
    <3> QED
      BY <3>1, <3>2
  <2> QED
    BY <2>1, <2>2, <2>3 DEF FdTableOK
<1>8. OnceIn(F2[p])
  BY <1>2, <1>3, <1>6 DEF OnceIn, With
<1>9. ASSUME NEW r \in Clients \ {p} PROVE FdsApart(F2[p], F[r])
  <2>1. FdsApart(F[p], F[r])
    BY DEF FilesOK
  <2> QED
    BY <1>2, <1>3, <2>1 DEF FdsApart, With
<1> HIDE DEF F2, H2, M2
<1>10. FilesOK(F2, H2, M2)
  BY OneChanges, <1>2, <1>4, <1>5, <1>7, <1>8, <1>9
<1> QED
  BY <1>10 DEF F2, H2, M2

\* An entry goes, and the host descriptor it led to is closed.
LEMMA Leaves ==
  ASSUME NEW p \in Clients, NEW f \in Nat, FilesInv
  PROVE  FilesOK([fds EXCEPT ![p] = Restrict(@, DOMAIN @ \ {f})],
                 Closed(hostFile, fdtable_trans(p, f)),
                 [means EXCEPT ![p] = Restrict(@, DOMAIN @ \ {f})])
<1> DEFINE F2 == [fds EXCEPT ![p] = Restrict(@, DOMAIN @ \ {f})]
           H2 == Closed(hostFile, fdtable_trans(p, f))
           M2 == [means EXCEPT ![p] = Restrict(@, DOMAIN @ \ {f})]
<1>1. /\ DOMAIN F2 = Clients /\ DOMAIN M2 = Clients
      /\ F2[p] = Restrict(fds[p], DOMAIN fds[p] \ {f})
      /\ M2[p] = Restrict(means[p], DOMAIN means[p] \ {f})
      /\ \A r \in Clients \ {p} : F2[r] = fds[r] /\ M2[r] = means[r]
  BY DEF FilesInv, FilesOK
<1>2. FdTableOK(fds[p], hostFile, means[p]) /\ OnceIn(fds[p])
  BY DEF FilesInv, FilesOK
<1>3. ASSUME NEW h \in DOMAIN hostFile, h \in Std \/ f \notin DOMAIN fds[p] \/ h # fds[p][f]
      PROVE  h \in DOMAIN H2 /\ H2[h] = hostFile[h]
  <2>1. CASE f \in DOMAIN fds[p] /\ fds[p][f] \in Nat \ Std
    BY <2>1, <1>3 DEF Closed, fdtable_trans, Restrict, Std
  <2>2. CASE ~(f \in DOMAIN fds[p] /\ fds[p][f] \in Nat \ Std)
    <3>1. fdtable_trans(p, f) \in {NoFd} \cup Std
      BY <2>2, <1>2 DEF fdtable_trans, FdTableOK, FdEntryOK, Std
    <3>2. H2 = hostFile
      BY <3>1 DEF Closed, NoFd, Std
    <3> QED
      BY <3>2
  <2> QED
    BY <2>1, <2>2
<1>4. StdOK(H2)
  BY <1>3 DEF StdOK, FilesInv, FilesOK
<1>5. FdTableOK(F2[p], H2, M2[p])
  <2>1. ASSUME NEW g \in DOMAIN M2[p] PROVE F2[p][g] \in DOMAIN H2 /\ H2[F2[p][g]] = M2[p][g]
    <3>1. /\ g # f /\ g \in DOMAIN means[p] /\ g \in DOMAIN fds[p]
          /\ F2[p][g] = fds[p][g] /\ M2[p][g] = means[p][g]
      BY <1>1, <1>2 DEF Restrict, FdTableOK
    <3>2. fds[p][g] \in DOMAIN hostFile /\ hostFile[fds[p][g]] = means[p][g] /\ fds[p][g] # NoFd
          /\ FdEntryOK(g, fds[p][g])
      BY <3>1, <1>2 DEF FdTableOK
    <3>3. fds[p][g] \in Std \/ f \notin DOMAIN fds[p] \/ fds[p][g] # fds[p][f]
      BY <3>1, <3>2, <1>2 DEF OnceIn, FdEntryOK
    <3> QED
      BY <1>3, <3>1, <3>2, <3>3
  <2>2. \A g \in DOMAIN F2[p] : FdEntryOK(g, F2[p][g])
    BY <1>1, <1>2 DEF FdTableOK, Restrict
  <2>3. DOMAIN M2[p] = {g \in DOMAIN F2[p] : F2[p][g] # NoFd}
    BY <1>1, <1>2 DEF FdTableOK, Restrict
  <2> QED
    BY <2>1, <2>2, <2>3 DEF FdTableOK
<1>6. OnceIn(F2[p])
  BY <1>1, <1>2 DEF OnceIn, Restrict
<1>7. ASSUME NEW r \in Clients \ {p} PROVE FdsApart(F2[p], fds[r])
  <2>1. FdsApart(fds[p], fds[r])
    BY DEF FilesInv, FilesOK
  <2> QED
    BY <1>1, <2>1 DEF FdsApart, Restrict
<1>8. ASSUME NEW r \in Clients \ {p}, NEW g \in DOMAIN fds[r], fds[r][g] \in DOMAIN hostFile
      PROVE  fds[r][g] \in DOMAIN H2 /\ H2[fds[r][g]] = hostFile[fds[r][g]]
  <2>1. FdsApart(fds[r], fds[p]) /\ FdEntryOK(g, fds[r][g])
    BY DEF FilesInv, FilesOK, FdTableOK
  <2>2. CASE fds[r][g] = NoFd /\ f \in DOMAIN fds[p] /\ fds[p][f] = NoFd
    BY <2>2, <1>8 DEF Closed, fdtable_trans, NoFd
  <2>3. CASE ~(fds[r][g] = NoFd /\ f \in DOMAIN fds[p] /\ fds[p][f] = NoFd)
    <3>1. fds[r][g] \in Std \/ f \notin DOMAIN fds[p] \/ fds[r][g] # fds[p][f]
      BY <2>1, <2>3 DEF FdsApart, FdEntryOK
    <3> QED
      BY <1>3, <1>8, <3>1
  <2> QED
    BY <2>2, <2>3
<1> HIDE DEF F2, H2, M2
<1>9. FilesOK(F2, H2, M2)
  BY SMTT(30), OneChanges, <1>1, <1>4, <1>5, <1>6, <1>7, <1>8 DEF FilesInv
<1> QED
  BY <1>9 DEF F2, H2, M2

\* The strengthened invariant holds at first.
LEMMA FilesInitial == fileInit => FilesInv
<1> SUFFICES ASSUME fileInit PROVE FilesInv
  OBVIOUS
<1>1. \A p \in Clients : fds[p] \in {StdFiles, Nothing} /\ means[p] = fds[p]
  BY DEF fileInit
<1>2. \A p, r \in Clients : p # r => fds[p] = Nothing \/ fds[r] = Nothing
  BY DEF fileInit
<1>3. StdOK(hostFile)
  BY DEF fileInit, StdOK, StdFiles
<1>4. ASSUME NEW p \in Clients PROVE FdTableOK(fds[p], hostFile, means[p]) /\ OnceIn(fds[p])
  BY <1>1 DEF fileInit, FdTableOK, FdEntryOK, OnceIn, StdFiles, Nothing, Std, NoFd
<1>5. ASSUME NEW p \in Clients, NEW r \in Clients, p # r PROVE FdsApart(fds[p], fds[r])
  BY <1>2, <1>5 DEF FdsApart, Nothing
<1>6. DOMAIN fds = Clients /\ DOMAIN means = Clients
  BY DEF fileInit
<1> QED
  BY <1>3, <1>4, <1>5, <1>6 DEF FilesInv, FilesOK

\* A process that opens a file.
LEMMA Opens == ASSUME FilesInv, NEW p \in Clients, openat(p) PROVE FilesInv'
<1>1. PICK h \in HostFree(hostFile), f \in 0 .. SimFds :
        /\ hostFile' = With(hostFile, h, opened + 1)
        /\ fds' = [fds EXCEPT ![p] = With(@, f, h)]
        /\ means' = [means EXCEPT ![p] = With(@, f, opened + 1)]
  BY DEF openat
<1> QED
  BY <1>1, Enters DEF FilesInv

\* Both ends of a pipe.
LEMMA Pipes == ASSUME FilesInv, NEW p \in Clients, pipe2(p) PROVE FilesInv'
<1>1. PICK r, w \in HostFree(hostFile), f, g \in 0 .. SimFds :
        /\ Exists(p) /\ r < w /\ Lowest(hostFile, {r, w})
        /\ fdtable_insert(fds[p], alloc_fd[p], f)
        /\ fdtable_insert(With(fds[p], f, r), After(f), g)
        /\ opened + 1 < MaxFiles /\ opened' = opened + 2
        /\ hostFile' = With(With(hostFile, r, opened + 1), w, opened + 2)
        /\ fds' = [fds EXCEPT ![p] = With(With(@, f, r), g, w)]
        /\ means' = [means EXCEPT ![p] = With(With(@, f, opened + 1), g, opened + 2)]
        /\ alloc_fd' = [alloc_fd EXCEPT ![p] = After(g)]
  BY Zenon DEF pipe2
<1> DEFINE F == [fds EXCEPT ![p] = With(@, f, r)]
           H == With(hostFile, r, opened + 1)
           M == [means EXCEPT ![p] = With(@, f, opened + 1)]
<1>2. FilesOK(F, H, M)
  BY Enters DEF FilesInv
<1>3. w \in HostFree(H)
  BY <1>1, FdAssumption DEF HostFree, With
<1>4. /\ fds' = [F EXCEPT ![p] = With(@, g, w)]
      /\ means' = [M EXCEPT ![p] = With(@, g, opened + 2)]
      /\ hostFile' = With(H, w, opened + 2)
  BY <1>1 DEF FilesInv, FilesOK
<1> HIDE DEF F, H, M
<1> QED
  BY <1>2, <1>3, <1>4, Enters DEF FilesInv

\* A process that closes.
LEMMA Closes == ASSUME FilesInv, NEW p \in Clients, close(p) PROVE FilesInv'
<1>1. PICK f \in UsedFds :
        /\ hostFile' = Closed(hostFile, fdtable_trans(p, f))
        /\ fds' = [fds EXCEPT ![p] = Restrict(@, DOMAIN @ \ {f})]
        /\ means' = [means EXCEPT ![p] = Restrict(@, DOMAIN @ \ {f})]
  BY DEF close
<1>2. f \in Nat
  BY FdAssumption
<1>3. FilesOK(fds', hostFile', means')
  BY <1>1, <1>2, Leaves
<1> QED
  BY <1>3 DEF FilesInv

\* The host descriptors of the new process are its own; its standard ones are the simulator's.
LEMMA Forks == ASSUME FilesInv, NEW p \in Clients, forkFiles(p) PROVE FilesInv'
<1> DEFINE C == Copied(p)
<1>1. PICK child \in Clients, c \in Copies(hostFile, C) :
        /\ Exists(p) /\ ~Exists(child)
        /\ fds' = [fds EXCEPT ![child] = [f \in DOMAIN fds[p] \cup Std |->
             IF f \in C THEN c[f] ELSE IF f \in Std THEN f ELSE NoFd]]
        /\ hostFile' = [h \in DOMAIN hostFile \cup Range(c) |->
             IF h \in Range(c) THEN hostFile[fds[p][Original(c, h)]] ELSE hostFile[h]]
        /\ means' = [means EXCEPT ![child] = [f \in C \cup Std |->
             IF f \in C THEN means[p][f] ELSE f]]
  BY Zenon DEF forkFiles
<1>2. /\ DOMAIN fds' = Clients /\ DOMAIN means' = Clients
      /\ DOMAIN fds'[child] = DOMAIN fds[p] \cup Std
      /\ \A f \in DOMAIN fds'[child] :
           fds'[child][f] = IF f \in C THEN c[f] ELSE IF f \in Std THEN f ELSE NoFd
      /\ DOMAIN means'[child] = C \cup Std
      /\ \A f \in C \cup Std : means'[child][f] = IF f \in C THEN means[p][f] ELSE f
      /\ \A r \in Clients \ {child} : fds'[r] = fds[r] /\ means'[r] = means[r]
  BY <1>1 DEF FilesInv, FilesOK
<1>3. /\ DOMAIN c = C /\ IsInjective(c)
      /\ \A f \in C : c[f] \in Range(c)
      /\ \A h \in Range(c) : h \in Nat \ Std /\ h \notin DOMAIN hostFile
  <2>1. c \in [C -> HostFree(hostFile)] /\ IsInjective(c)
    BY DEF Copies
  <2>2. \A h \in HostFree(hostFile) : h \in Nat \ Std /\ h \notin DOMAIN hostFile
    BY FdAssumption DEF HostFree, Std
  <2> QED
    BY <2>1, <2>2 DEF Range
<1>4. C \subseteq DOMAIN fds[p] \ Std /\ \A f \in C : fds[p][f] # NoFd
  BY DEF Copied
<1>5. FdTableOK(fds[p], hostFile, means[p])
  BY DEF FilesInv, FilesOK
<1>6. \A h \in DOMAIN hostFile : h \in DOMAIN hostFile' /\ hostFile'[h] = hostFile[h]
  BY <1>1, <1>3
<1>7. \A f \in C : c[f] \in DOMAIN hostFile' /\ hostFile'[c[f]] = hostFile[fds[p][f]]
  <2> SUFFICES ASSUME NEW f \in C
               PROVE  c[f] \in DOMAIN hostFile' /\ hostFile'[c[f]] = hostFile[fds[p][f]]
    OBVIOUS
  <2>1. Original(c, c[f]) = f
    BY <1>3 DEF Original, IsInjective
  <2> QED
    BY <1>1, <1>3, <2>1
<1>8. StdOK(hostFile')
  BY <1>6 DEF StdOK, FilesInv, FilesOK
<1>9. FdTableOK(fds'[child], hostFile', means'[child])
  <2>1. \A f \in DOMAIN fds'[child] : FdEntryOK(f, fds'[child][f])
    BY <1>2, <1>3 DEF FdEntryOK
  <2>2. DOMAIN means'[child] = {f \in DOMAIN fds'[child] : fds'[child][f] # NoFd}
    BY <1>2, <1>3, <1>4 DEF NoFd, Std
  <2>3. ASSUME NEW f \in C \cup Std
        PROVE  fds'[child][f] \in DOMAIN hostFile' /\ hostFile'[fds'[child][f]] = means'[child][f]
    <3>1. CASE f \in C
      <4>1. f \in DOMAIN means[p]
        BY <1>4, <1>5, <3>1 DEF FdTableOK
      <4> QED
        BY <1>2, <1>4, <1>5, <1>7, <3>1, <4>1 DEF FdTableOK
    <3>2. CASE f \in Std /\ f \notin C
      BY <1>2, <1>8, <3>2 DEF StdOK
    <3> QED
      BY <3>1, <3>2
  <2> QED
    BY <1>2, <2>1, <2>2, <2>3 DEF FdTableOK
<1>10. OnceIn(fds'[child])
  BY <1>2, <1>3 DEF OnceIn, IsInjective, NoFd
<1>11. ASSUME NEW r \in Clients \ {child} PROVE FdsApart(fds'[child], fds[r])
  <2>1. \A g \in DOMAIN fds[r] : fds[r][g] = NoFd \/ fds[r][g] \in DOMAIN hostFile
    BY DEF FilesInv, FilesOK, FdTableOK
  <2> QED
    BY <1>2, <1>3, <2>1 DEF FdsApart, NoFd
<1>12. FilesOK(fds', hostFile', means')
  BY OneChanges, <1>2, <1>6, <1>8, <1>9, <1>10, <1>11 DEF FilesInv
<1> QED
  BY <1>12 DEF FilesInv

\* A process that ends.
LEMMA Ends == ASSUME FilesInv, NEW p \in Clients, endFiles(p) PROVE FilesInv'
<1>1. /\ fds' = [fds EXCEPT ![p] = Nothing] /\ means' = [means EXCEPT ![p] = Nothing]
      /\ hostFile' = hostFile
  BY DEF endFiles
<1>2. /\ DOMAIN fds' = Clients /\ DOMAIN means' = Clients
      /\ fds'[p] = Nothing /\ means'[p] = Nothing
      /\ \A r \in Clients \ {p} : fds'[r] = fds[r] /\ means'[r] = means[r]
  BY <1>1 DEF FilesInv, FilesOK
<1>3. /\ FdTableOK(Nothing, hostFile', Nothing) /\ OnceIn(Nothing)
      /\ \A r \in Clients : FdsApart(Nothing, fds[r])
  BY DEF Nothing, FdTableOK, OnceIn, FdsApart
<1>4. FdTableOK(fds'[p], hostFile, means'[p]) /\ OnceIn(fds'[p])
      /\ \A r \in Clients \ {p} : FdsApart(fds'[p], fds[r])
  BY <1>1, <1>2, <1>3
<1>5. FilesOK(fds, hostFile, means) /\ StdOK(hostFile)
  BY DEF FilesInv, FilesOK
<1>6. FilesOK(fds', hostFile, means')
  BY OneChanges, <1>2, <1>4, <1>5
<1> QED
  BY <1>1, <1>6 DEF FilesInv

\* A process that has newfd stand for what oldfd does, or for nothing.
LEMMA Dups == ASSUME FilesInv, NEW p \in Clients, dup3(p) PROVE FilesInv'
<1>1. PICK old \in UsedFds, new \in UsedFds :
        LET h == fdtable_trans(p, old)
            after == Closed(hostFile, fdtable_trans(p, new))
        IN
        /\ Exists(p) /\ old # new /\ h # 0
        /\ \/ \E dup \in Duplicates(after, h) :
                /\ h # NoFd
                /\ hostFile' = With(after, dup, after[h])
                /\ fds' = [fds EXCEPT ![p] = With(@, new, dup)]
                /\ means' = [means EXCEPT ![p] = With(@, new, means[p][old])]
           \/ /\ h = NoFd
              /\ hostFile' = after
              /\ fds' = [fds EXCEPT ![p] = With(@, new, NoFd)]
              /\ means' = [means EXCEPT ![p] = Restrict(@, DOMAIN @ \ {new})]
  BY Zenon DEF dup3
<1> DEFINE h == fdtable_trans(p, old)
           F == [fds EXCEPT ![p] = Restrict(@, DOMAIN @ \ {new})]
           H == Closed(hostFile, fdtable_trans(p, new))
           M == [means EXCEPT ![p] = Restrict(@, DOMAIN @ \ {new})]
<1>2. new \in Nat /\ old \in Nat
  BY FdAssumption
<1>3. FilesOK(F, H, M)
  BY <1>2, Leaves
<1>4. /\ DOMAIN fds = Clients /\ DOMAIN means = Clients
      /\ F[p] = Restrict(fds[p], DOMAIN fds[p] \ {new})
      /\ M[p] = Restrict(means[p], DOMAIN means[p] \ {new})
  BY DEF FilesInv, FilesOK
<1>5. CASE h = NoFd
  <2>1. hostFile' = H /\ means' = M /\ fds' = [fds EXCEPT ![p] = With(@, new, NoFd)]
    BY <1>1, <1>5 DEF Duplicates
  <2>2. /\ DOMAIN fds' = Clients /\ fds'[p] = With(F[p], new, NoFd)
        /\ \A r \in Clients \ {p} : fds'[r] = F[r]
    BY <2>1, <1>4 DEF With, Restrict
  <2> HIDE DEF F, H, M
  <2>3. FdTableOK(F[p], H, M[p]) /\ OnceIn(F[p]) /\ new \notin DOMAIN F[p]
    BY <1>3, <1>4 DEF FilesOK, Restrict
  <2>4. FdTableOK(fds'[p], H, M[p]) /\ OnceIn(fds'[p])
    BY <2>2, <2>3 DEF FdTableOK, OnceIn, With, FdEntryOK, NoFd
  <2>5. ASSUME NEW r \in Clients \ {p} PROVE FdsApart(fds'[p], F[r])
    BY <2>2, <1>3 DEF FilesOK, FdsApart, With, NoFd
  <2>6. DOMAIN M = Clients /\ StdOK(H)
    BY <1>3 DEF FilesOK
  <2>7. FilesOK(fds', H, M)
    BY OneChanges, <1>3, <2>2, <2>4, <2>5, <2>6
  <2> QED
    BY <2>1, <2>7 DEF FilesInv
<1>6. CASE h # NoFd
  <2>1. PICK dup \in Duplicates(H, h) :
          /\ hostFile' = With(H, dup, H[h])
          /\ fds' = [fds EXCEPT ![p] = With(@, new, dup)]
          /\ means' = [means EXCEPT ![p] = With(@, new, means[p][old])]
    BY <1>1, <1>6
  <2>2. dup \in HostFree(H)
    BY DEF Duplicates
  <2>3. old \in DOMAIN fds[p] /\ fds[p][old] = h /\ old # new
    BY <1>1, <1>2, <1>6 DEF fdtable_trans
  <2>4. old \in DOMAIN M[p] /\ M[p][old] = means[p][old] /\ old \in DOMAIN F[p] /\ F[p][old] = h
    BY <2>3, <1>4, <1>6 DEF Restrict, FilesInv, FilesOK, FdTableOK
  <2>5. H[h] = means[p][old]
    <3> HIDE DEF F, H, M, h
    <3>1. FdTableOK(F[p], H, M[p])
      BY <1>3 DEF FilesOK
    <3> DEFINE tb == F[p]
               mn == M[p]
    <3> HIDE DEF tb, mn
    <3>2. FdTableOK(tb, H, mn) /\ old \in DOMAIN tb /\ tb[old] = h /\ mn[old] = means[p][old]
      BY <3>1, <2>4 DEF tb, mn
    <3> QED BY <3>2, <1>6 DEF FdTableOK
  <2>6. /\ fds' = [F EXCEPT ![p] = With(@, new, dup)]
        /\ means' = [M EXCEPT ![p] = With(@, new, H[h])]
    BY SMTT(30), <2>1, <2>5, <1>4 DEF With, Restrict
  <2> HIDE DEF F, H, M, h
  <2>7. FilesOK([F EXCEPT ![p] = With(@, new, dup)], With(H, dup, H[h]),
                [M EXCEPT ![p] = With(@, new, H[h])])
    BY <1>3, <2>2, Enters
  <2> QED
    BY <2>1, <2>6, <2>7 DEF FilesInv
<1> QED
  BY <1>5, <1>6

\* Every step keeps the strengthened invariant.
LEMMA FilesStep == FilesInv /\ [fileNext]_fileVars => FilesInv'
<1>1. CASE UNCHANGED fileVars
  BY <1>1 DEF fileVars, FilesInv, FilesOK
<1>2. CASE fileNext
  BY <1>2, Opens, Pipes, Closes, Dups, Forks, Ends DEF fileNext
<1> QED
  BY <1>1, <1>2

\* It implies the property.
LEMMA FilesMeaning == FilesInv => FdsMeanFiles
<1> SUFFICES ASSUME FilesInv, NEW p \in Clients, NEW f \in DOMAIN means[p] \ Std
             PROVE  /\ fds[p][f] \in DOMAIN hostFile /\ hostFile[fds[p][f]] = means[p][f]
                    /\ \A r \in Clients : \A g \in DOMAIN fds[r] :
                         fds[r][g] = fds[p][f] => r = p /\ g = f
  BY DEF FdsMeanFiles
<1>1. FdTableOK(fds[p], hostFile, means[p]) /\ OnceIn(fds[p])
  BY DEF FilesInv, FilesOK
<1>2. f \in DOMAIN fds[p] /\ fds[p][f] \in Nat \ Std
  BY <1>1 DEF FdTableOK, FdEntryOK
<1>3. \A r \in Clients \ {p} : FdsApart(fds[r], fds[p])
  BY DEF FilesInv, FilesOK
<1> QED
  BY <1>1, <1>2, <1>3 DEF FdTableOK, OnceIn, FdsApart

\* A descriptor stands for the file it was opened, duplicated or inherited for, whatever
\* the processes open, close and fork (openat, pipe2, dup3, close of multicore.cpp, FDTable).
THEOREM DescriptorsHold == fileSpec => []FdsMeanFiles
<1>1. fileInit => FilesInv
  BY FilesInitial
<1>2. FilesInv /\ [fileNext]_fileVars => FilesInv'
  BY FilesStep
<1>3. FilesInv => FdsMeanFiles
  BY FilesMeaning
<1> QED
  BY <1>1, <1>2, <1>3, PTL DEF fileSpec

-----------------------------------------------------------------------------
(* Processes that were forked from one another are isolated: what a process reads in
   its private pages is what it wrote, or was forked with.  The strengthening: a page
   has no more users than the allocator counts, an entry that may be written and is
   not shared on purpose is the only user of its page, and while a page is being
   copied the page it is copied from still holds what is to be read. *)

\* The pages a table may have: those of the program, and one while a page is copied.
Ordinary == 0 .. MmapTop - 1
Tmp == MmapTop + 1
VPages == Ordinary \cup {Tmp}

EntryOK(e, n) ==
  /\ e \in [ppi : 1 .. n - 1, flg : SUBSET {"r", "w", "share", "cow"}]
  /\ "cow" \in e.flg => "share" \notin e.flg
TableOK(t, n) == DOMAIN t \subseteq VPages /\ \A v \in DOMAIN t : EntryOK(t[v], n)
TablesOK(T, n) == DOMAIN T = Procs /\ \A p \in Procs : TableOK(T[p], n)

\* Entries that lead to a page, in one table and in all.
Own(t, q) == {v \in DOMAIN t : t[v].ppi = q}
Users(T, q) == {u \in Procs \X VPages : u[2] \in Own(T[u[1]], q)}

Count(rs, q) == IF q \in DOMAIN rs THEN rs[q] ELSE 0
Counted(T, rs, n) ==
  /\ \A q \in DOMAIN rs : q \in 1 .. n - 1 /\ rs[q] \in Nat
  /\ \A q \in 1 .. n - 1 : Cardinality(Users(T, q)) <= Count(rs, q)
\* Counted as often as it is used, no oftener.
Exact(T, rs, n) ==
  Counted(T, rs, n) /\ \A q \in 1 .. n - 1 : Cardinality(Users(T, q)) = Count(rs, q)

\* Users of one page agree whether it is shared on purpose, and if it is not, one that may
\* be written is alone.
Writable(e) == "w" \in e.flg /\ "share" \notin e.flg
ApartFrom(t, p, s, r) == \A v \in DOMAIN t, u \in DOMAIN s :
  t[v].ppi = s[u].ppi =>
    /\ "share" \in t[v].flg <=> "share" \in s[u].flg
    /\ Writable(t[v]) => p = r /\ v = u
Apart(T) == \A p, r \in Procs : ApartFrom(T[p], p, T[r], r)

\* What process p finds: with its table t, what it wrote w, and its fault f.
Pending(f, v) == f # NoFault /\ ~f.copied /\ v = f.missed
Finds(t, w, f, c) ==
  \A v \in DOMAIN w :
    /\ v \in DOMAIN t
    /\ "share" \in t[v].flg \/ Pending(f, v) \/ c[t[v].ppi] = w[v]
FaultOK(t, w, f, c) ==
  IF f = NoFault THEN DOMAIN t \subseteq Ordinary
  ELSE /\ f \in [missed : Ordinary, tmp : {Tmp}, copied : BOOLEAN]
       /\ f.missed \in DOMAIN t /\ Tmp \in DOMAIN t /\ Tmp \notin DOMAIN w
       /\ Writable(t[f.missed]) /\ "share" \notin t[Tmp].flg
       /\ ~f.copied /\ f.missed \in DOMAIN w => c[t[Tmp].ppi] = w[f.missed]
ContentsOK(T, W, F, c) ==
  /\ DOMAIN W = Procs /\ DOMAIN F = Procs /\ DOMAIN c = PPages
  /\ \A p \in Procs : Finds(T[p], W[p], F[p], c) /\ FaultOK(T[p], W[p], F[p], c)
Clean(c, n) == \A q \in PPages : q >= n => c[q] = 0

BoundsOK == next \in 1 .. NumPages + 1 /\ DOMAIN brk = Procs /\ \A p \in Procs : brk[p] \in Nat
MemInv ==
  /\ BoundsOK
  /\ TablesOK(pgtable, next) /\ Counted(pgtable, refs, next) /\ Apart(pgtable)
  /\ ContentsOK(pgtable, written, fault, content) /\ Clean(content, next)
-----------------------------------------------------------------------------
(* Counting users *)

\* The users of a page are those in one table and those in the others.
Others(T, p, q) == {u \in Users(T, q) : u[1] # p}

LEMMA Finite ==
  ASSUME NEW T, NEW t, DOMAIN t \subseteq VPages, NEW p, NEW q
  PROVE  /\ IsFiniteSet(Own(t, q)) /\ Cardinality(Own(t, q)) \in Nat
         /\ IsFiniteSet(Users(T, q)) /\ Cardinality(Users(T, q)) \in Nat
         /\ IsFiniteSet(Others(T, p, q)) /\ Cardinality(Others(T, p, q)) \in Nat
<1>1. IsFiniteSet(VPages)
  <2>1. IsFiniteSet(Ordinary)
    BY FS_Interval, MemAssumption DEF Ordinary
  <2> QED
    BY <2>1, FS_AddElement DEF VPages
<1>2. IsFiniteSet(Procs \X VPages)
  <2>1. IsFiniteSet(Procs)
    BY FS_Interval, MemAssumption DEF Procs
  <2> QED
    BY <2>1, <1>1, FS_Product
<1>3. Own(t, q) \in SUBSET VPages /\ Users(T, q) \in SUBSET (Procs \X VPages)
      /\ Others(T, p, q) \in SUBSET (Procs \X VPages)
  BY DEF Own, Users, Others
<1>4. IsFiniteSet(Own(t, q)) /\ IsFiniteSet(Users(T, q)) /\ IsFiniteSet(Others(T, p, q))
  BY <1>1, <1>2, <1>3, FS_Subset
<1> QED
  BY <1>4, FS_CardinalityType

LEMMA Split ==
  ASSUME NEW T, NEW p \in Procs, DOMAIN T[p] \subseteq VPages, NEW q
  PROVE  Cardinality(Users(T, q)) = Cardinality(Others(T, p, q)) + Cardinality(Own(T[p], q))
<1> DEFINE mine == {p} \X Own(T[p], q)
<1>1. IsFiniteSet(Own(T[p], q)) /\ IsFiniteSet(Others(T, p, q))
      /\ Cardinality(Own(T[p], q)) \in Nat /\ Cardinality(Others(T, p, q)) \in Nat
  BY Finite
<1>2. IsFiniteSet(mine) /\ Cardinality(mine) = Cardinality(Own(T[p], q))
  <2>1. IsFiniteSet({p}) /\ Cardinality({p}) = 1
    BY FS_Singleton
  <2>2. IsFiniteSet(mine) /\ Cardinality(mine) = 1 * Cardinality(Own(T[p], q))
    BY <1>1, <2>1, FS_Product
  <2> QED
    BY <2>2, <1>1
<1>3. Users(T, q) = Others(T, p, q) \cup mine
  BY DEF Users, Others, Own
<1>4. Others(T, p, q) \cap mine = {}
  BY DEF Others
<1>5. Cardinality(Others(T, p, q) \cup mine)
      = Cardinality(Others(T, p, q)) + Cardinality(mine) - Cardinality(Others(T, p, q) \cap mine)
  BY <1>1, <1>2, FS_Union
<1>6. Cardinality(Others(T, p, q) \cap mine) = 0
  BY <1>4, FS_EmptySet
<1> HIDE DEF mine
<1> QED
  BY <1>1, <1>2, <1>3, <1>5, <1>6

\* Table tab instead of that of p: the users in other tables are the same.
Replaces(T2, T, p, tab) ==
  DOMAIN T2 = Procs /\ T2[p] = tab /\ \A r \in Procs \ {p} : T2[r] = T[r]

LEMMA OneTable ==
  ASSUME NEW T, NEW T2, NEW p \in Procs, NEW tab, Replaces(T2, T, p, tab),
         DOMAIN T[p] \subseteq VPages, DOMAIN tab \subseteq VPages, NEW q
  PROVE  Cardinality(Users(T2, q))
         = Cardinality(Users(T, q)) - Cardinality(Own(T[p], q)) + Cardinality(Own(tab, q))
<1>1. Others(T2, p, q) = Others(T, p, q)
  BY DEF Others, Users, Replaces
<1>2. DOMAIN T2[p] \subseteq VPages /\ T2[p] = tab
  BY DEF Replaces
<1>3. Cardinality(Users(T2, q)) = Cardinality(Others(T2, p, q)) + Cardinality(Own(T2[p], q))
  BY <1>2, Split
<1>4. Cardinality(Users(T, q)) = Cardinality(Others(T, p, q)) + Cardinality(Own(T[p], q))
  BY Split
<1>5. /\ Cardinality(Others(T, p, q)) \in Nat /\ Cardinality(Own(T[p], q)) \in Nat
      /\ Cardinality(Own(tab, q)) \in Nat
  BY Finite
<1> QED
  BY <1>1, <1>2, <1>3, <1>4, <1>5

\* Where no entry leads there are no users.
LEMMA Unused ==
  ASSUME NEW T, NEW n \in Nat, TablesOK(T, n), NEW q \in Nat, q >= n
  PROVE  Cardinality(Users(T, q)) = 0 /\ \A p \in Procs : Own(T[p], q) = {}
<1>1. \A p \in Procs : Own(T[p], q) = {}
  BY DEF Own, TablesOK, TableOK, EntryOK
<1>2. Users(T, q) = {}
  BY <1>1 DEF Users
<1> QED
  BY <1>1, <1>2, FS_EmptySet

LEMMA Pair ==
  ASSUME NEW a, NEW b, a # b
  PROVE  IsFiniteSet({a, b}) /\ Cardinality({a, b}) = 2
<1>1. IsFiniteSet({a}) /\ Cardinality({a}) = 1 /\ b \notin {a}
  BY FS_Singleton
<1>2. IsFiniteSet({a} \cup {b}) /\ Cardinality({a} \cup {b}) = 1 + 1
  BY <1>1, FS_AddElement
<1>3. {a} \cup {b} = {a, b}
  OBVIOUS
<1> QED
  BY <1>2, <1>3

\* Two users are more than one.
LEMMA Sole ==
  ASSUME NEW T, NEW q, Cardinality(Users(T, q)) <= 1,
         NEW p \in Procs, NEW v, NEW r \in Procs, NEW u,
         DOMAIN T[p] \subseteq VPages, DOMAIN T[r] \subseteq VPages, v \in Own(T[p], q), u \in Own(T[r], q)
  PROVE  p = r /\ v = u
<1>1. <<p, v>> \in Users(T, q) /\ <<r, u>> \in Users(T, q)
  BY DEF Users, Own
<1>2. SUFFICES ASSUME <<p, v>> # <<r, u>> PROVE FALSE
  BY <1>1
<1>3. IsFiniteSet({<<p, v>>, <<r, u>>}) /\ Cardinality({<<p, v>>, <<r, u>>}) = 2
  BY <1>2, Pair
<1>4. IsFiniteSet(Users(T, q)) /\ Cardinality(Users(T, q)) \in Nat
  BY Finite
<1>5. {<<p, v>>, <<r, u>>} \in SUBSET Users(T, q)
  BY <1>1
<1> QED
  BY <1>3, <1>4, <1>5, FS_Subset
-----------------------------------------------------------------------------
(* What the operations do to one table *)

PartOf(t2, t) == DOMAIN t2 \subseteq DOMAIN t /\ \A v \in DOMAIN t2 : t2[v] = t[v]

\* Taking an entry out of the count for every entry a table loses is right.
LEMMA Drops ==
  ASSUME NEW n \in Nat, NEW T, NEW T2, NEW rs, TablesOK(T, n), Counted(T, rs, n),
         NEW p \in Procs, NEW tab, NEW part, Replaces(T2, T, p, tab),
         PartOf(tab, T[p]), PartOf(part, T[p]), DOMAIN part = DOMAIN T[p] \ DOMAIN tab
  PROVE  /\ TablesOK(T2, n) /\ Counted(T2, Free(rs, part), n)
         /\ Exact(T, rs, n) => Exact(T2, Free(rs, part), n)
<1> DEFINE uses(q) == Cardinality(Own(part, q))
<1>1. DOMAIN T[p] \subseteq VPages /\ DOMAIN tab \subseteq VPages /\ DOMAIN part \subseteq VPages
  BY DEF TablesOK, TableOK, PartOf
<1>2. ASSUME NEW q PROVE
        /\ Cardinality(Users(T2, q)) = Cardinality(Users(T, q)) - uses(q)
        /\ uses(q) \in Nat /\ Cardinality(Users(T, q)) \in Nat /\ Cardinality(Users(T2, q)) \in Nat
  <2>1. Own(T[p], q) = Own(tab, q) \cup Own(part, q) /\ Own(tab, q) \cap Own(part, q) = {}
    BY DEF Own, PartOf
  <2>2. /\ IsFiniteSet(Own(tab, q)) /\ Cardinality(Own(tab, q)) \in Nat
        /\ IsFiniteSet(Own(part, q)) /\ Cardinality(Own(part, q)) \in Nat
        /\ Cardinality(Users(T, q)) \in Nat /\ Cardinality(Users(T2, q)) \in Nat
    BY <1>1, Finite
  <2>3. Cardinality(Own(tab, q) \cap Own(part, q)) = 0
    BY <2>1, FS_EmptySet
  <2>4. Cardinality(Own(tab, q) \cup Own(part, q))
        = Cardinality(Own(tab, q)) + Cardinality(Own(part, q))
          - Cardinality(Own(tab, q) \cap Own(part, q))
    BY <2>2, FS_Union
  <2>5. Cardinality(Users(T2, q))
        = Cardinality(Users(T, q)) - Cardinality(Own(T[p], q)) + Cardinality(Own(tab, q))
    BY <1>1, OneTable
  <2> QED
    BY <2>1, <2>2, <2>3, <2>4, <2>5
<1>3. Free(rs, part) = [q \in {x \in DOMAIN rs : rs[x] > uses(x)} |-> rs[q] - uses(q)]
  BY DEF Free, Own
<1>4. TablesOK(T2, n)
  BY DEF TablesOK, TableOK, Replaces, PartOf
<1> HIDE DEF uses
<1>5. \A q \in DOMAIN Free(rs, part) : q \in 1 .. n - 1 /\ Free(rs, part)[q] \in Nat
  BY <1>2, <1>3 DEF Counted
<1>6. ASSUME NEW q \in 1 .. n - 1 PROVE Cardinality(Users(T2, q)) <= Count(Free(rs, part), q)
  BY <1>2, <1>3 DEF Counted, Count
<1>7. ASSUME Exact(T, rs, n), NEW q \in 1 .. n - 1
      PROVE  Cardinality(Users(T2, q)) = Count(Free(rs, part), q)
  BY <1>2, <1>3, <1>7 DEF Counted, Count, Exact
<1> QED
  BY <1>4, <1>5, <1>6, <1>7 DEF Counted, Exact

\* New pages are counted once when a table has each of them at most once, and what it had
\* before no more often;
LEMMA Grows ==
  ASSUME NEW n \in Nat, NEW m \in Nat, NEW T, NEW T2, NEW rs, NEW new,
         TablesOK(T, n), Counted(T, rs, n),
         NEW p \in Procs, NEW tab, Replaces(T2, T, p, tab), TableOK(tab, n + m),
         \A q \in 1 .. n - 1 : Cardinality(Own(tab, q)) <= Cardinality(Own(T[p], q)),
         \A q \in n .. n + m - 1 : Cardinality(Own(tab, q)) <= 1,
         DOMAIN new = n .. n + m - 1, \A q \in DOMAIN new : new[q] = 1, n > 0
  PROVE  TablesOK(T2, n + m) /\ Counted(T2, Over(new, rs), n + m)
<1>1. DOMAIN T[p] \subseteq VPages /\ DOMAIN tab \subseteq VPages
  BY DEF TablesOK, TableOK
<1>2. TablesOK(T2, n + m)
  <2>1. ASSUME NEW r \in Procs, NEW v \in DOMAIN T[r] PROVE EntryOK(T[r][v], n + m)
    <3>1. EntryOK(T[r][v], n)
      BY DEF TablesOK, TableOK
    <3> QED
      BY <3>1 DEF EntryOK
  <2> QED
    BY <2>1 DEF TablesOK, TableOK, Replaces
<1>3. \A q \in DOMAIN Over(new, rs) : q \in 1 .. n + m - 1 /\ Over(new, rs)[q] \in Nat
  BY DEF Over, Counted
<1>4. ASSUME NEW q \in 1 .. n + m - 1 PROVE Cardinality(Users(T2, q)) <= Count(Over(new, rs), q)
  <2>a. /\ Cardinality(Own(tab, q)) \in Nat /\ Cardinality(Own(T[p], q)) \in Nat
        /\ Cardinality(Users(T, q)) \in Nat
    BY <1>1, Finite
  <2>1. Cardinality(Users(T2, q))
        = Cardinality(Users(T, q)) - Cardinality(Own(T[p], q)) + Cardinality(Own(tab, q))
    BY <1>1, OneTable
  <2>2. CASE q < n
    <3>1. Cardinality(Own(tab, q)) <= Cardinality(Own(T[p], q))
          /\ Cardinality(Users(T, q)) <= Count(rs, q)
      BY <2>2 DEF Counted
    <3>2. Count(Over(new, rs), q) = Count(rs, q) /\ Count(rs, q) \in Nat
      BY <2>2 DEF Count, Over, Counted
    <3> QED
      BY <2>a, <2>1, <3>1, <3>2
  <2>3. CASE q >= n
    <3>a. Cardinality(Users(T, q)) = 0 /\ Own(T[p], q) = {}
      BY SMTT(30), <2>3, Unused
    <3>1. Cardinality(Users(T, q)) = 0 /\ Cardinality(Own(T[p], q)) = 0
      BY <3>a, FS_EmptySet
    <3>2. Cardinality(Own(tab, q)) <= 1 /\ Count(Over(new, rs), q) = 1
      BY <2>3 DEF Count, Over
    <3> QED
      BY <2>a, <2>1, <3>1, <3>2
  <2> QED
    BY <2>2, <2>3
<1> QED
  BY <1>2, <1>3, <1>4 DEF Counted

\* and the count is exact when it has each of them once, and the others as often as before.
LEMMA GrowsExactly ==
  ASSUME NEW n \in Nat, NEW m \in Nat, NEW T, NEW T2, NEW rs, NEW new,
         TablesOK(T, n), Exact(T, rs, n),
         NEW p \in Procs, NEW tab, Replaces(T2, T, p, tab), TableOK(tab, n + m),
         \A q \in 1 .. n - 1 : Cardinality(Own(tab, q)) = Cardinality(Own(T[p], q)),
         \A q \in n .. n + m - 1 : Cardinality(Own(tab, q)) = 1,
         DOMAIN new = n .. n + m - 1, \A q \in DOMAIN new : new[q] = 1, n > 0
  PROVE  Exact(T2, Over(new, rs), n + m)
<1>1. DOMAIN T[p] \subseteq VPages /\ DOMAIN tab \subseteq VPages /\ Counted(T, rs, n)
  BY DEF TablesOK, TableOK, Exact
<1>2. Counted(T2, Over(new, rs), n + m)
  <2>1. /\ \A q \in 1 .. n - 1 : Cardinality(Own(tab, q)) <= Cardinality(Own(T[p], q))
        /\ \A q \in n .. n + m - 1 : Cardinality(Own(tab, q)) <= 1
    BY SMTT(30), <1>1, Finite
  <2> QED
    BY <1>1, <2>1, Grows
<1>3. ASSUME NEW q \in 1 .. n + m - 1 PROVE Cardinality(Users(T2, q)) = Count(Over(new, rs), q)
  <2>a. /\ Cardinality(Own(tab, q)) \in Nat /\ Cardinality(Own(T[p], q)) \in Nat
        /\ Cardinality(Users(T, q)) \in Nat
    BY <1>1, Finite
  <2>1. Cardinality(Users(T2, q))
        = Cardinality(Users(T, q)) - Cardinality(Own(T[p], q)) + Cardinality(Own(tab, q))
    BY <1>1, OneTable
  <2>2. CASE q < n
    <3>1. Cardinality(Own(tab, q)) = Cardinality(Own(T[p], q))
          /\ Cardinality(Users(T, q)) = Count(rs, q)
      BY <2>2 DEF Exact
    <3>2. Count(Over(new, rs), q) = Count(rs, q)
      BY <2>2 DEF Count, Over
    <3> QED
      BY <2>a, <2>1, <3>1, <3>2
  <2>3. CASE q >= n
    <3>a. Cardinality(Users(T, q)) = 0 /\ Own(T[p], q) = {}
      BY <2>3, Unused
    <3>1. Cardinality(Users(T, q)) = 0 /\ Cardinality(Own(T[p], q)) = 0
      BY <3>a, FS_EmptySet
    <3>2. Cardinality(Own(tab, q)) = 1 /\ Count(Over(new, rs), q) = 1
      BY <2>3 DEF Count, Over
    <3> QED
      BY <2>a, <2>1, <3>1, <3>2
  <2> QED
    BY <2>2, <2>3
<1> QED
  BY <1>2, <1>3 DEF Exact

\* Tables stay apart when one is replaced that is apart from itself and the others.
LEMMA ApartOne ==
  ASSUME NEW T, NEW T2, NEW p \in Procs, NEW tab, Replaces(T2, T, p, tab), Apart(T),
         ApartFrom(tab, p, tab, p),
         \A r \in Procs \ {p} : ApartFrom(tab, p, T[r], r) /\ ApartFrom(T[r], r, tab, p)
  PROVE  Apart(T2)
<1>1. ASSUME NEW r \in Procs, NEW s \in Procs PROVE ApartFrom(T2[r], r, T2[s], s)
  <2>1. CASE r = p /\ s = p
    BY <2>1 DEF Replaces
  <2>2. CASE r = p /\ s # p
    BY <2>2 DEF Replaces
  <2>3. CASE r # p /\ s = p
    BY <2>3 DEF Replaces
  <2>4. CASE r # p /\ s # p
    BY <2>4 DEF Replaces, Apart
  <2> QED
    BY <2>1, <2>2, <2>3, <2>4
<1> QED
  BY <1>1 DEF Apart

\* So it is when entries are dropped, and when new pages are entered, each once.
LEMMA ApartLess ==
  ASSUME NEW T, NEW T2, NEW p \in Procs, NEW tab, Replaces(T2, T, p, tab), Apart(T), PartOf(tab, T[p])
  PROVE  Apart(T2)
<1>1. ApartFrom(T[p], p, T[p], p)
  BY DEF Apart
<1>2. ApartFrom(tab, p, tab, p)
  BY <1>1 DEF ApartFrom, PartOf
<1>3. ASSUME NEW r \in Procs \ {p} PROVE ApartFrom(tab, p, T[r], r) /\ ApartFrom(T[r], r, tab, p)
  <2>1. ApartFrom(T[p], p, T[r], r) /\ ApartFrom(T[r], r, T[p], p)
    BY DEF Apart
  <2> QED
    BY <2>1 DEF ApartFrom, PartOf
<1> QED
  BY <1>2, <1>3, ApartOne

LEMMA ApartMore ==
  ASSUME NEW n \in Nat, NEW T, NEW T2, TablesOK(T, n), Apart(T),
         NEW p \in Procs, NEW tab, Replaces(T2, T, p, tab),
         NEW vs, vs \subseteq DOMAIN tab,
         \A v \in vs : tab[v].ppi \in Nat /\ tab[v].ppi >= n,
         \A v, u \in vs : tab[v].ppi = tab[u].ppi => v = u,
         \A v \in DOMAIN tab \ vs : v \in DOMAIN T[p] /\ tab[v] = T[p][v]
  PROVE  Apart(T2)
<1>1. \A r \in Procs : \A v \in DOMAIN T[r] : T[r][v].ppi \in 1 .. n - 1
  BY DEF TablesOK, TableOK, EntryOK
<1>2. ApartFrom(T[p], p, T[p], p)
  BY DEF Apart
<1>3. ApartFrom(tab, p, tab, p)
  BY <1>1, <1>2 DEF ApartFrom
<1>4. ASSUME NEW r \in Procs \ {p} PROVE ApartFrom(tab, p, T[r], r) /\ ApartFrom(T[r], r, tab, p)
  <2>1. ApartFrom(T[p], p, T[r], r) /\ ApartFrom(T[r], r, T[p], p)
    BY DEF Apart
  <2> QED
    BY <1>1, <2>1 DEF ApartFrom
<1> QED
  BY <1>3, <1>4, ApartOne

\* What the others find is what they found, and p finds what it should.
LEMMA ContentsOne ==
  ASSUME NEW T, NEW W, NEW F, NEW c, ContentsOK(T, W, F, c), NEW p \in Procs,
         NEW T2, NEW tab, Replaces(T2, T, p, tab), NEW W2, NEW w, Replaces(W2, W, p, w),
         NEW F2, NEW f, Replaces(F2, F, p, f),
         Finds(tab, w, f, c), FaultOK(tab, w, f, c)
  PROVE  ContentsOK(T2, W2, F2, c)
BY DEF ContentsOK, Replaces
-----------------------------------------------------------------------------
(* Mapping and unmapping *)

LEMMA AtMostOne ==
  ASSUME NEW S, IsFiniteSet(S), \A a, b \in S : a = b
  PROVE  Cardinality(S) <= 1
<1>1. CASE S = {}
  BY <1>1, FS_EmptySet
<1>2. CASE S # {}
  <2>1. PICK a : S = {a}
    BY <1>2
  <2> QED
    BY <2>1, FS_Singleton
<1> QED
  BY <1>1, <1>2

\* Counting those below numbers the members of a finite set of integers from 0 on.
LEMMA Numbered ==
  ASSUME NEW vs, vs \subseteq Int, IsFiniteSet(vs), NEW v \in vs
  PROVE  /\ Cardinality(vs) \in Nat
         /\ Cardinality({u \in vs : u < v}) \in 0 .. Cardinality(vs) - 1
         /\ \A w \in vs : v < w => Cardinality({u \in vs : u < v}) < Cardinality({u \in vs : u < w})
<1> DEFINE below(w) == {u \in vs : u < w}
<1>1. \A w : IsFiniteSet(below(w)) /\ Cardinality(below(w)) \in Nat /\ Cardinality(vs) \in Nat
  <2>1. \A w : below(w) \in SUBSET vs
    OBVIOUS
  <2> HIDE DEF below
  <2>2. \A w : IsFiniteSet(below(w))
    BY <2>1, FS_Subset
  <2> QED
    BY <2>2, FS_CardinalityType
<1>2. Cardinality(below(v)) < Cardinality(vs)
  <2>1. below(v) \in SUBSET vs /\ v \in vs /\ v \notin below(v)
    OBVIOUS
  <2> HIDE DEF below
  <2>2. Cardinality(below(v)) <= Cardinality(vs) /\ Cardinality(vs) # Cardinality(below(v))
    BY <2>1, FS_Subset
  <2> QED
    BY <1>1, <2>2
<1>3. ASSUME NEW w \in vs, v < w PROVE Cardinality(below(v)) < Cardinality(below(w))
  <2>1. below(v) \in SUBSET below(w) /\ v \in below(w) /\ v \notin below(v)
    <3>1. v \in Int /\ w \in Int /\ \A u \in vs : u \in Int
      OBVIOUS
    <3>2. \A u \in vs : u < v => u < w
      BY <1>3, <3>1
    <3>3. v \in below(w) /\ v \notin below(v)
      BY <1>3, <3>1
    <3> QED
      BY <3>2, <3>3
  <2> HIDE DEF below
  <2>2. IsFiniteSet(below(w))
    BY <1>1
  <2>3. Cardinality(below(v)) <= Cardinality(below(w)) /\ Cardinality(below(w)) # Cardinality(below(v))
    BY <2>1, <2>2, FS_Subset
  <2> QED
    BY <1>1, <2>3
<1> QED
  BY <1>1, <1>2, <1>3

LEMMA EntriesNumbered ==
  ASSUME NEW vs \in SUBSET Ordinary, NEW flg \in Flags, next \in Nat \ {0}
  PROVE  /\ IsFiniteSet(vs) /\ Cardinality(vs) \in Nat
         /\ DOMAIN NewEntries(vs, flg) = vs
         /\ \A v \in vs : /\ NewEntries(vs, flg)[v].flg = flg
                          /\ NewEntries(vs, flg)[v].ppi \in next .. next + Cardinality(vs) - 1
                          /\ EntryOK(NewEntries(vs, flg)[v], next + Cardinality(vs))
         /\ \A v, u \in vs : NewEntries(vs, flg)[v].ppi = NewEntries(vs, flg)[u].ppi => v = u
         /\ \A q \in next .. next + Cardinality(vs) - 1 : \E v \in vs : NewEntries(vs, flg)[v].ppi = q
<1> DEFINE nth(v) == Cardinality({u \in vs : u < v})
<1>1. vs \subseteq Int
  BY MemAssumption DEF Ordinary
<1>2. IsFiniteSet(vs)
  <2>1. IsFiniteSet(Ordinary)
    BY MemAssumption, FS_Interval DEF Ordinary
  <2> QED
    BY <2>1, FS_Subset
<1>3. \A v \in vs : /\ Cardinality(vs) \in Nat /\ nth(v) \in 0 .. Cardinality(vs) - 1
                    /\ \A w \in vs : v < w => nth(v) < nth(w)
  BY <1>1, <1>2, Numbered
<1>4. Cardinality(vs) \in Nat
  BY <1>2, FS_CardinalityType
<1>5. NewEntries(vs, flg) = [v \in vs |-> [ppi |-> next + nth(v), flg |-> flg]]
  BY DEF NewEntries
<1> HIDE DEF nth
<1>6. ASSUME NEW v \in vs, NEW u \in vs, NewEntries(vs, flg)[v].ppi = NewEntries(vs, flg)[u].ppi
      PROVE  v = u
  <2>1. nth(v) = nth(u)
    BY <1>3, <1>5, <1>6
  <2>2. v < u \/ u < v \/ v = u
    BY <1>1
  <2> QED
    BY <1>3, <2>1, <2>2
<1>7. ASSUME NEW v \in vs PROVE
        /\ NewEntries(vs, flg)[v].flg = flg
        /\ NewEntries(vs, flg)[v].ppi \in next .. next + Cardinality(vs) - 1
        /\ EntryOK(NewEntries(vs, flg)[v], next + Cardinality(vs))
  BY <1>3, <1>4, <1>5 DEF EntryOK, Flags
<1>8. ASSUME NEW q \in next .. next + Cardinality(vs) - 1
      PROVE  \E v \in vs : NewEntries(vs, flg)[v].ppi = q
  <2> DEFINE m == Cardinality(vs)
             S == next .. next + m - 1
             f == [v \in vs |-> NewEntries(vs, flg)[v].ppi]
  <2>1. f \in Injection(vs, S)
    BY <1>6, <1>7 DEF Injection, IsInjective
  <2>2. IsFiniteSet(S) /\ Cardinality(S) = m
    <3> HIDE DEF m
    <3>1. m \in Nat /\ next \in Int /\ next + m - 1 \in Int /\ (next > next + m - 1 <=> m = 0)
      BY <1>4 DEF m
    <3> QED
      BY <3>1, FS_Interval
  <2> HIDE DEF f, S
  <2>3. f \in Surjection(vs, S)
    BY <1>2, <2>1, <2>2, FS_Injection
  <2>4. \E v \in vs : f[v] = q
    BY <2>3 DEF Surjection, S
  <2> QED
    BY <2>4 DEF f
<1> QED
  BY <1>2, <1>4, <1>5, <1>6, <1>7, <1>8

\* The part of the invariant that is about tables, counts and contents.
AllOK(T, rs, n, W, F, c) ==
  /\ TablesOK(T, n) /\ Counted(T, rs, n) /\ Apart(T)
  /\ ContentsOK(T, W, F, c) /\ Clean(c, n)

\* Pages that are mapped are counted once; those they are mapped over must not be there any more.
LEMMA MapsCount ==
  ASSUME next \in 1 .. NumPages + 1, DOMAIN pgtable = Procs, NEW p \in Procs,
         NEW tab, NEW T, Replaces(T, pgtable, p, tab), NEW ws,
         NEW rs, NEW vs \in SUBSET Ordinary, NEW flg \in Flags,
         TablesOK(T, next), Counted(T, rs, next), Maps(p, tab, rs, ws, vs, flg)
  PROVE  /\ TablesOK(pgtable', next') /\ Counted(pgtable', refs', next') /\ next' \in 1 .. NumPages + 1
         /\ Exact(T, rs, next) /\ vs \cap DOMAIN tab = {} => Exact(pgtable', refs', next')
<1> DEFINE m == Cardinality(vs)
           new == NewEntries(vs, flg)
           full == Over(new, tab)
<1>1. next' = next + m /\ next + m - 1 <= NumPages /\ refs' = Over(NewRefs(m), rs)
      /\ pgtable' = [pgtable EXCEPT ![p] = full]
  BY DEF Maps, Alloc
<1>2. /\ m \in Nat /\ DOMAIN new = vs
      /\ \A v \in vs : new[v].ppi \in next .. next + m - 1 /\ EntryOK(new[v], next + m)
      /\ \A v, u \in vs : new[v].ppi = new[u].ppi => v = u
      /\ \A q \in next .. next + m - 1 : \E v \in vs : new[v].ppi = q
  <2>1. next \in Nat \ {0}
    BY MemAssumption
  <2> QED
    BY <2>1, EntriesNumbered
<1>3. next \in Nat /\ next > 0 /\ next' \in 1 .. NumPages + 1
  BY <1>1, <1>2, MemAssumption
<1>4. Replaces(pgtable', T, p, full)
  BY <1>1 DEF Replaces
<1>5. T[p] = tab /\ TableOK(tab, next) /\ tab = T[p]
  BY DEF Replaces, TablesOK
<1> HIDE DEF m, new
<1>6. /\ DOMAIN full = vs \cup DOMAIN tab
      /\ \A v \in vs : full[v] = new[v]
      /\ \A v \in DOMAIN tab \ vs : full[v] = tab[v]
  BY <1>2 DEF Over
<1> HIDE DEF full
<1>7. vs \subseteq VPages
  BY DEF VPages
<1>8. TableOK(full, next + m)
  <2>1. ASSUME NEW v \in DOMAIN full PROVE EntryOK(full[v], next + m)
    <3>1. CASE v \in vs
      BY <1>2, <1>6, <3>1
    <3>2. CASE v \notin vs
      <4>1. full[v] = tab[v] /\ EntryOK(tab[v], next)
        BY <1>5, <1>6, <3>2 DEF TableOK
      <4> QED
        BY <4>1, <1>2, <1>3 DEF EntryOK
    <3> QED
      BY <3>1, <3>2
  <2> QED
    BY <2>1, <1>5, <1>6, <1>7 DEF TableOK
<1>9. \A v \in DOMAIN tab : tab[v].ppi \in 1 .. next - 1
  BY <1>5 DEF TableOK, EntryOK
<1>10. ASSUME NEW q \in 1 .. next - 1
       PROVE  /\ Cardinality(Own(full, q)) <= Cardinality(Own(T[p], q))
              /\ vs \cap DOMAIN tab = {} => Cardinality(Own(full, q)) = Cardinality(Own(T[p], q))
  <2>1. Own(full, q) \in SUBSET Own(tab, q)
    BY <1>2, <1>3, <1>6, <1>10 DEF Own
  <2>2. IsFiniteSet(Own(tab, q))
    BY <1>5, Finite DEF TableOK
  <2>3. vs \cap DOMAIN tab = {} => Own(full, q) = Own(tab, q)
    BY <2>1, <1>6 DEF Own
  <2> QED
    BY <1>5, <2>1, <2>2, <2>3, FS_Subset
<1>11. ASSUME NEW q \in next .. next + m - 1 PROVE Cardinality(Own(full, q)) = 1
  <2>1. \A a, b \in Own(full, q) : a = b
    BY <1>2, <1>3, <1>6, <1>9, <1>11 DEF Own
  <2>2. IsFiniteSet(Own(full, q))
    BY <1>8, Finite DEF TableOK
  <2>3. PICK v \in vs : new[v].ppi = q
    BY <1>2
  <2>4. v \in Own(full, q)
    BY <1>6, <2>3 DEF Own
  <2>5. Own(full, q) = {v}
    BY <2>1, <2>4
  <2> QED
    BY <2>5, FS_Singleton
<1>12. DOMAIN NewRefs(m) = next .. next + m - 1 /\ \A q \in DOMAIN NewRefs(m) : NewRefs(m)[q] = 1
  BY DEF NewRefs
<1>13. TablesOK(pgtable', next + m) /\ Counted(pgtable', Over(NewRefs(m), rs), next + m)
  <2>1. /\ \A q \in 1 .. next - 1 : Cardinality(Own(full, q)) <= Cardinality(Own(T[p], q))
        /\ \A q \in next .. next + m - 1 : Cardinality(Own(full, q)) <= 1
    BY <1>10, <1>11
  <2> QED
    BY <1>2, <1>3, <1>4, <1>8, <1>12, <2>1, Grows
<1>14. ASSUME Exact(T, rs, next), vs \cap DOMAIN tab = {}
       PROVE  Exact(pgtable', Over(NewRefs(m), rs), next + m)
  <2>1. /\ \A q \in 1 .. next - 1 : Cardinality(Own(full, q)) = Cardinality(Own(T[p], q))
        /\ \A q \in next .. next + m - 1 : Cardinality(Own(full, q)) = 1
    BY <1>10, <1>11, <1>14
  <2> QED
    BY <1>2, <1>3, <1>4, <1>8, <1>12, <1>14, <2>1, GrowsExactly
<1> QED
  BY <1>1, <1>3, <1>13, <1>14

LEMMA MapsKeep ==
  ASSUME next \in 1 .. NumPages + 1, DOMAIN pgtable = Procs, DOMAIN written = Procs,
         NEW p \in Procs, fault[p] = NoFault,
         NEW tab, NEW T, Replaces(T, pgtable, p, tab), NEW ws, NEW W, Replaces(W, written, p, ws),
         NEW rs, NEW vs \in SUBSET Ordinary, NEW flg \in Flags,
         AllOK(T, rs, next, W, fault, content), Maps(p, tab, rs, ws, vs, flg)
  PROVE  AllOK(pgtable', refs', next', written', fault', content') /\ next' \in 1 .. NumPages + 1
<1> DEFINE m == Cardinality(vs)
           new == NewEntries(vs, flg)
           full == Over(new, tab)
           found == Over([v \in vs |-> 0], ws)
<1>1. next' = next + m /\ next + m - 1 <= NumPages /\ content' = content /\ fault' = fault
      /\ pgtable' = [pgtable EXCEPT ![p] = full] /\ written' = [written EXCEPT ![p] = found]
      /\ refs' = Over(NewRefs(m), rs)
  BY DEF Maps, Alloc
<1>2. /\ m \in Nat /\ DOMAIN new = vs
      /\ \A v \in vs : new[v].ppi \in next .. next + m - 1 /\ EntryOK(new[v], next + m)
      /\ \A v, u \in vs : new[v].ppi = new[u].ppi => v = u
  <2>1. next \in Nat \ {0}
    BY MemAssumption
  <2> QED
    BY <2>1, EntriesNumbered
<1>3. next \in Nat /\ next > 0 /\ next' \in 1 .. NumPages + 1
  BY <1>1, <1>2, MemAssumption
<1>4. /\ Replaces(pgtable', T, p, full) /\ Replaces(written', W, p, found)
      /\ Replaces(fault, fault, p, NoFault)
  BY <1>1 DEF Replaces, AllOK, ContentsOK
<1>5. T[p] = tab /\ W[p] = ws /\ TableOK(tab, next) /\ tab = T[p]
  BY DEF Replaces, AllOK, TablesOK
<1> HIDE DEF m, new
<1>6. /\ DOMAIN full = vs \cup DOMAIN tab
      /\ \A v \in vs : full[v] = new[v]
      /\ \A v \in DOMAIN tab \ vs : full[v] = tab[v]
  BY <1>2 DEF Over
<1>7. /\ DOMAIN found = vs \cup DOMAIN ws
      /\ \A v \in vs : found[v] = 0
      /\ \A v \in DOMAIN ws \ vs : found[v] = ws[v]
  BY DEF Over
<1> HIDE DEF full, found
<1>8. TablesOK(pgtable', next + m) /\ Counted(pgtable', Over(NewRefs(m), rs), next + m)
  <2>1. TablesOK(T, next) /\ Counted(T, rs, next)
    BY DEF AllOK
  <2>2. TablesOK(pgtable', next') /\ Counted(pgtable', refs', next')
    BY <2>1, MapsCount
  <2> QED
    BY <1>1, <2>2
<1>9. Apart(pgtable')
  <2>1. TablesOK(T, next) /\ Apart(T)
    BY DEF AllOK
  <2>2. \A v \in vs : full[v].ppi \in Nat /\ full[v].ppi >= next
    BY <1>2, <1>3, <1>6
  <2>3. \A v, u \in vs : full[v].ppi = full[u].ppi => v = u
    BY <1>2, <1>6
  <2>4. vs \subseteq DOMAIN full
    BY <1>6
  <2>5. \A v \in DOMAIN full \ vs : v \in DOMAIN T[p] /\ full[v] = T[p][v]
    BY <1>5, <1>6
  <2> QED
    BY <1>3, <1>4, <2>1, <2>2, <2>3, <2>4, <2>5, ApartMore
<1>10. ContentsOK(T, W, fault, content) /\ Clean(content, next)
  BY DEF AllOK
<1>11. Finds(full, found, NoFault, content)
  <2>1. Finds(tab, ws, NoFault, content)
    BY <1>5, <1>10 DEF ContentsOK
  <2>2. ASSUME NEW v \in vs PROVE content[full[v].ppi] = 0
    <3>1. full[v].ppi \in PPages /\ full[v].ppi >= next
      BY <1>1, <1>2, <1>3, <1>6, MemAssumption DEF PPages
    <3> QED
      BY <3>1, <1>10 DEF Clean
  <2>3. ASSUME NEW v \in DOMAIN ws \ vs PROVE
          /\ v \in DOMAIN full
          /\ "share" \in full[v].flg \/ content[full[v].ppi] = ws[v]
    BY <2>1, <1>6 DEF Finds, Pending
  <2> QED
    BY <1>6, <1>7, <2>2, <2>3 DEF Finds
<1>12. FaultOK(full, found, NoFault, content)
  <2>1. FaultOK(tab, ws, NoFault, content)
    BY <1>5, <1>10 DEF ContentsOK
  <2> QED
    BY <1>6, <2>1 DEF FaultOK
<1>13. ContentsOK(pgtable', written', fault, content)
  BY <1>4, <1>10, <1>11, <1>12, ContentsOne
<1>14. Clean(content, next + m)
  BY <1>2, <1>3, <1>10 DEF Clean, PPages
<1> QED
  BY <1>1, <1>3, <1>8, <1>9, <1>13, <1>14 DEF AllOK

LEMMA DropsKeep ==
  ASSUME NEW n \in Nat, NEW T, NEW rs, NEW W, NEW F, NEW c, AllOK(T, rs, n, W, F, c),
         NEW p \in Procs, F[p] = NoFault, NEW vs,
         NEW tab, DOMAIN tab = DOMAIN T[p] \ vs, PartOf(tab, T[p]),
         NEW part, DOMAIN part = DOMAIN T[p] \cap vs, PartOf(part, T[p]),
         NEW ws, DOMAIN ws = DOMAIN W[p] \ vs, PartOf(ws, W[p]),
         NEW T2, Replaces(T2, T, p, tab), NEW W2, Replaces(W2, W, p, ws)
  PROVE  AllOK(T2, Free(rs, part), n, W2, F, c)
<1>1. TablesOK(T2, n) /\ Counted(T2, Free(rs, part), n)
  <2>1. TablesOK(T, n) /\ Counted(T, rs, n)
    BY DEF AllOK
  <2>2. DOMAIN part = DOMAIN T[p] \ DOMAIN tab
    OBVIOUS
  <2> QED
    BY <2>1, <2>2, Drops
<1>2. Apart(T2)
  <2>1. Apart(T)
    BY DEF AllOK
  <2> QED
    BY <2>1, ApartLess
<1>3. ContentsOK(T2, W2, F, c)
  <2>1. ContentsOK(T, W, F, c)
    BY DEF AllOK
  <2>2. Finds(T[p], W[p], F[p], c) /\ FaultOK(T[p], W[p], F[p], c)
    BY <2>1 DEF ContentsOK
  <2>3. Finds(tab, ws, F[p], c)
    BY <2>2 DEF Finds, PartOf
  <2>4. FaultOK(tab, ws, F[p], c)
    BY <2>2 DEF FaultOK, PartOf
  <2>5. Replaces(F, F, p, F[p])
    BY <2>1 DEF ContentsOK, Replaces
  <2> QED
    BY <2>1, <2>3, <2>4, <2>5, ContentsOne
<1> QED
  BY <1>1, <1>2, <1>3 DEF AllOK
-----------------------------------------------------------------------------
(* Flags and contents *)

LEMMA Same ==
  ASSUME MemInv
  PROVE  /\ AllOK(pgtable, refs, next, written, fault, content)
         /\ next \in 1 .. NumPages + 1 /\ next \in Nat
         /\ DOMAIN pgtable = Procs /\ DOMAIN written = Procs /\ DOMAIN fault = Procs
BY MemAssumption DEF MemInv, AllOK, TablesOK, ContentsOK, BoundsOK

\* A page the allocator does not take for a shared one has one user at most.
LEMMA NotShared ==
  ASSUME MemInv, NEW q \in 1 .. next - 1, ~is_shared(q)
  PROVE  Cardinality(Users(pgtable, q)) <= 1
<1>1. Cardinality(Users(pgtable, q)) <= Count(refs, q) /\ (q \in DOMAIN refs => refs[q] \in Nat)
  BY DEF MemInv, Counted
<1>2. Count(refs, q) <= 1 /\ Count(refs, q) \in Nat
  BY <1>1 DEF Count, is_shared
<1>3. Cardinality(Users(pgtable, q)) \in Nat
  <2>1. DOMAIN <<>> \subseteq VPages
    OBVIOUS
  <2> QED
    BY <2>1, Finite
<1> QED
  BY <1>1, <1>2, <1>3

\* Flags of one entry change: it must be alone if now it can be written.
LEMMA Reflag ==
  ASSUME NEW n \in Nat, NEW T, NEW rs, NEW W, NEW F, NEW c, AllOK(T, rs, n, W, F, c),
         NEW p \in Procs, F[p] = NoFault, NEW v \in DOMAIN T[p],
         NEW g \in SUBSET {"r", "w", "share", "cow"}, "cow" \in g => "share" \notin g,
         "share" \in g <=> "share" \in T[p][v].flg,
         \/ "w" \notin g \/ "share" \in g \/ Writable(T[p][v])
         \/ Cardinality(Users(T, T[p][v].ppi)) <= 1,
         NEW T2, Replaces(T2, T, p, [T[p] EXCEPT ![v].flg = g])
  PROVE  AllOK(T2, rs, n, W, F, c) /\ T2[p][v].ppi = T[p][v].ppi /\ T2[p][v].flg = g
<1> DEFINE tab == [T[p] EXCEPT ![v].flg = g]
<1>a. TableOK(T[p], n) /\ TablesOK(T, n) /\ Counted(T, rs, n) /\ Apart(T) /\ ContentsOK(T, W, F, c)
      /\ Clean(c, n)
  BY DEF AllOK, TablesOK
<1>1. EntryOK(T[p][v], n)
  BY <1>a DEF TableOK
<1>2. /\ DOMAIN tab = DOMAIN T[p]
      /\ tab[v].ppi = T[p][v].ppi /\ tab[v].flg = g /\ EntryOK(tab[v], n)
      /\ \A u \in DOMAIN T[p] \ {v} : tab[u] = T[p][u]
  BY <1>1 DEF EntryOK
<1> HIDE DEF tab
<1>3. Replaces(T2, T, p, tab) /\ T2[p] = tab
  BY DEF tab, Replaces
<1>4. TableOK(tab, n)
  BY <1>a, <1>2 DEF TableOK
<1>5. TablesOK(T2, n)
  BY <1>a, <1>3, <1>4 DEF TablesOK, Replaces
<1>6. \A q : Users(T2, q) = Users(T, q)
  <2>1. \A q : Own(tab, q) = Own(T[p], q)
    BY <1>2 DEF Own
  <2> QED
    BY <1>3, <2>1 DEF Users, Replaces
<1>7. Counted(T2, rs, n)
  BY <1>a, <1>6 DEF Counted
<1>8. ApartFrom(tab, p, tab, p) /\
      \A r \in Procs \ {p} : ApartFrom(tab, p, T[r], r) /\ ApartFrom(T[r], r, tab, p)
  <2>1. ASSUME NEW r \in Procs, NEW u \in DOMAIN T[r], Writable(tab[v]), tab[v].ppi = T[r][u].ppi
        PROVE  r = p /\ u = v
    <3>1. CASE Writable(T[p][v])
      <4>1. ApartFrom(T[p], p, T[r], r)
        BY <1>a DEF Apart
      <4> QED
        BY ZenonT(60), <4>1, <3>1, <2>1, <1>2 DEF ApartFrom
    <3>2. CASE Cardinality(Users(T, T[p][v].ppi)) <= 1
      <4>1. v \in Own(T[p], T[p][v].ppi) /\ u \in Own(T[r], T[p][v].ppi)
        BY <1>2, <2>1 DEF Own
      <4>2. DOMAIN T[p] \subseteq VPages /\ DOMAIN T[r] \subseteq VPages
        BY <1>a DEF TablesOK, TableOK
      <4> QED
        BY <4>1, <4>2, <3>2, Sole
    <3>3. "w" \in g /\ "share" \notin g
      BY <2>1, <1>2 DEF Writable
    <3> QED
      BY <3>1, <3>2, <3>3
  <2>2. \A u \in DOMAIN T[p] : /\ tab[u].ppi = T[p][u].ppi
                               /\ "share" \in tab[u].flg <=> "share" \in T[p][u].flg
    BY <1>2
  <2>3. \A u \in DOMAIN T[p] : Writable(tab[u]) => u = v \/ Writable(T[p][u])
    BY <1>2
  <2>4. ASSUME NEW u \in DOMAIN T[p], NEW r \in Procs, NEW x \in DOMAIN T[r],
               tab[u].ppi = T[r][x].ppi, Writable(tab[u])
        PROVE  p = r /\ u = x
    <3>1. CASE u = v
      BY <2>1, <2>4, <3>1
    <3>2. CASE u # v
      <4>1. ApartFrom(T[p], p, T[r], r) /\ Writable(T[p][u])
        BY <1>a, <2>3, <2>4, <3>2 DEF Apart
      <4> QED
        BY <4>1, <2>2, <2>4 DEF ApartFrom
    <3> QED
      BY <3>1, <3>2
  <2>5. ApartFrom(T[p], p, T[p], p)
    BY <1>a DEF Apart
  <2>6. ApartFrom(tab, p, tab, p)
    BY <1>2, <2>2, <2>4, <2>5 DEF ApartFrom
  <2>7. ASSUME NEW r \in Procs \ {p} PROVE ApartFrom(tab, p, T[r], r) /\ ApartFrom(T[r], r, tab, p)
    <3>1. ApartFrom(T[p], p, T[r], r) /\ ApartFrom(T[r], r, T[p], p)
      BY <1>a DEF Apart
    <3>2. ApartFrom(tab, p, T[r], r)
      BY <1>2, <2>2, <2>4, <3>1 DEF ApartFrom
    <3>3. ApartFrom(T[r], r, tab, p)
      BY <1>2, <2>2, <3>1 DEF ApartFrom
    <3> QED
      BY <3>2, <3>3
  <2> QED
    BY <2>6, <2>7
<1>9. Apart(T2)
  BY <1>a, <1>3, <1>8, ApartOne
<1>10. ContentsOK(T2, W, F, c)
  <2>1. Finds(T[p], W[p], F[p], c) /\ FaultOK(T[p], W[p], F[p], c)
    BY <1>a DEF ContentsOK
  <2>2. Finds(tab, W[p], F[p], c)
    BY <1>2, <2>1 DEF Finds
  <2>3. FaultOK(tab, W[p], F[p], c)
    BY <1>2, <2>1 DEF FaultOK
  <2>4. Replaces(W, W, p, W[p]) /\ Replaces(F, F, p, F[p])
    BY <1>a DEF ContentsOK, Replaces
  <2> QED
    BY <1>a, <1>3, <2>2, <2>3, <2>4, ContentsOne
<1> QED
  BY <1>a, <1>2, <1>3, <1>5, <1>7, <1>9, <1>10 DEF AllOK

\* Page q changes, and with it what p is to find at v: nobody else finds anything there.
LEMMA Writes ==
  ASSUME NEW n \in 1 .. NumPages + 1, NEW T, NEW rs, NEW W, NEW F, NEW c, AllOK(T, rs, n, W, F, c),
         NEW p \in Procs, F[p] = NoFault, NEW v \in DOMAIN T[p],
         "share" \in T[p][v].flg \/ Writable(T[p][v]), NEW x,
         NEW W2, W2 = [W EXCEPT ![p][v] = x], NEW c2, c2 = [c EXCEPT ![T[p][v].ppi] = x]
  PROVE  AllOK(T, rs, n, W2, F, c2)
<1> DEFINE q == T[p][v].ppi
<1>1. /\ TablesOK(T, n) /\ Counted(T, rs, n) /\ Apart(T) /\ ContentsOK(T, W, F, c) /\ Clean(c, n)
      /\ DOMAIN W = Procs /\ DOMAIN c = PPages /\ DOMAIN F = Procs
  BY DEF AllOK, ContentsOK
<1>2. q \in 1 .. n - 1 /\ q \in PPages
  BY <1>1, MemAssumption DEF TablesOK, TableOK, EntryOK, PPages
<1>3. /\ DOMAIN W2 = Procs /\ \A r \in Procs \ {p} : W2[r] = W[r]
      /\ DOMAIN W2[p] = DOMAIN W[p] /\ \A u \in DOMAIN W[p] \ {v} : W2[p][u] = W[p][u]
      /\ v \in DOMAIN W[p] => W2[p][v] = x
  BY <1>1
<1>4. /\ DOMAIN c2 = PPages /\ \A y \in PPages \ {q} : c2[y] = c[y]
      /\ q \in PPages => c2[q] = x
  BY <1>1
<1>5. ASSUME NEW r \in Procs, NEW u \in DOMAIN T[r], "share" \notin T[r][u].flg, T[r][u].ppi = q
      PROVE  r = p /\ u = v
  <2>1. ApartFrom(T[p], p, T[r], r)
    BY <1>1 DEF Apart
  <2> QED
    BY <1>5, <2>1 DEF ApartFrom
<1>6. \A r \in Procs : \A u \in DOMAIN T[r] : T[r][u].ppi \in Nat \ {0}
  BY <1>1 DEF TablesOK, TableOK, EntryOK
<1>7. \A y : y # q => c2[y] = c[y]
  BY <1>1
<1> HIDE DEF q
<1>8. ASSUME NEW r \in Procs PROVE Finds(T[r], W2[r], F[r], c2)
  <2>1. Finds(T[r], W[r], F[r], c)
    BY <1>1 DEF ContentsOK
  <2>2. CASE r # p
    BY <1>3, <1>5, <1>7, <2>1, <2>2 DEF Finds
  <2>3. CASE r = p
    <3>1. ASSUME NEW u \in DOMAIN W[p] \ {v}
          PROVE  u \in DOMAIN T[p] /\ ("share" \in T[p][u].flg \/ c2[T[p][u].ppi] = W2[p][u])
      BY <1>3, <1>5, <1>7, <2>1, <2>3 DEF Finds, Pending
    <3>2. ASSUME v \in DOMAIN W[p]
          PROVE  "share" \in T[p][v].flg \/ c2[T[p][v].ppi] = W2[p][v]
      BY <1>2, <1>3, <1>4, <3>2 DEF q
    <3> QED
      BY <1>3, <2>1, <2>3, <3>1, <3>2 DEF Finds
  <2> QED
    BY <2>2, <2>3
<1>9. ASSUME NEW r \in Procs PROVE FaultOK(T[r], W2[r], F[r], c2)
  <2>1. FaultOK(T[r], W[r], F[r], c)
    BY <1>1 DEF ContentsOK
  <2>2. CASE r = p
    BY <2>1, <2>2 DEF FaultOK
  <2>3. CASE r # p /\ F[r] = NoFault
    BY <2>1, <2>3 DEF FaultOK
  <2>4. CASE r # p /\ F[r] # NoFault
    <3>1. T[r][Tmp].ppi # q
      BY <1>5, <2>1, <2>4 DEF FaultOK
    <3> QED
      BY <1>3, <1>7, <2>1, <2>4, <3>1 DEF FaultOK
  <2> QED
    BY <2>2, <2>3, <2>4
<1>10. Clean(c2, n)
  BY <1>1, <1>2, <1>4 DEF Clean, PPages
<1> QED
  BY <1>1, <1>3, <1>4, <1>8, <1>9, <1>10 DEF AllOK, ContentsOK
-----------------------------------------------------------------------------
(* The operations *)

LEMMA InitSafe == memInit => MemInv
<1> SUFFICES ASSUME memInit PROVE MemInv
  OBVIOUS
<1>1. MmapTop - 1 # 1 /\ ImagePages \subseteq Ordinary /\ 1 \in Procs
  BY MemAssumption DEF ImagePages, Ordinary, Procs
<1>2. next = 3 /\ next \in 1 .. NumPages + 1
  <2>1. Cardinality(ImagePages) = 2
    BY <1>1, Pair DEF ImagePages
  <2> QED
    BY <2>1, MemAssumption DEF memInit
<1>3. /\ DOMAIN pgtable = Procs /\ DOMAIN pgtable[1] = ImagePages
      /\ pgtable[1][1] = [ppi |-> 1, flg |-> {"r", "w"}]
      /\ pgtable[1][MmapTop - 1] = [ppi |-> 2, flg |-> {"r", "w"}]
      /\ \A p \in Procs \ {1} : DOMAIN pgtable[p] = {}
  BY <1>1 DEF memInit, ImagePages
<1>4. TablesOK(pgtable, next)
  <2>1. \A v \in ImagePages : EntryOK(pgtable[1][v], next)
    BY <1>2, <1>3 DEF ImagePages, EntryOK
  <2>2. TableOK(pgtable[1], next)
    BY <1>1, <1>3, <2>1 DEF TableOK, VPages
  <2>3. \A p \in Procs \ {1} : TableOK(pgtable[p], next)
    BY <1>3 DEF TableOK
  <2> QED
    BY <1>3, <2>2, <2>3 DEF TablesOK
<1>5. Counted(pgtable, refs, next)
  <2>1. ASSUME NEW q PROVE Cardinality(Users(pgtable, q)) <= 1
    <3>1. \A a, b \in Users(pgtable, q) : a = b
      <4>1. \A u \in Users(pgtable, q) : (u = <<1, 1>> /\ q = 1) \/ (u = <<1, MmapTop - 1>> /\ q = 2)
        BY <1>3 DEF Users, Own, ImagePages
      <4>2. CASE q = 1
        BY <4>1, <4>2
      <4>3. CASE q # 1
        BY <4>1, <4>3
      <4> QED
        BY <4>2, <4>3
    <3>2. IsFiniteSet(Users(pgtable, q))
      BY <1>4, Finite DEF TablesOK, TableOK
    <3> QED
      BY <3>1, <3>2, AtMostOne
  <2>2. refs = [q \in 1 .. 2 |-> 1]
    BY DEF memInit
  <2> QED
    BY <1>2, <2>1, <2>2 DEF Counted, Count
<1>6. Apart(pgtable)
  <2>1. ApartFrom(pgtable[1], 1, pgtable[1], 1)
    BY <1>3 DEF ApartFrom, ImagePages
  <2>2. \A p, r \in Procs : p # 1 \/ r # 1 => ApartFrom(pgtable[p], p, pgtable[r], r)
    BY <1>3 DEF ApartFrom
  <2> QED
    BY <2>1, <2>2 DEF Apart
<1>7. ContentsOK(pgtable, written, fault, content) /\ Clean(content, next)
  <2>1. /\ DOMAIN written = Procs /\ DOMAIN fault = Procs /\ DOMAIN content = PPages
        /\ \A q \in PPages : content[q] = 0
        /\ \A p \in Procs : fault[p] = NoFault
        /\ DOMAIN written[1] = ImagePages /\ \A v \in ImagePages : written[1][v] = 0
        /\ \A p \in Procs \ {1} : DOMAIN written[p] = {}
    BY <1>1 DEF memInit
  <2>2. 1 \in PPages /\ 2 \in PPages
    BY MemAssumption DEF PPages
  <2>3. Finds(pgtable[1], written[1], fault[1], content)
    BY <1>3, <2>1, <2>2 DEF Finds, ImagePages
  <2>4. \A p \in Procs \ {1} : Finds(pgtable[p], written[p], fault[p], content)
    BY <2>1 DEF Finds
  <2>5. \A p \in Procs : FaultOK(pgtable[p], written[p], fault[p], content)
    BY <1>1, <1>3, <2>1 DEF FaultOK
  <2> QED
    BY <2>1, <2>3, <2>4, <2>5 DEF ContentsOK, Clean
<1>8. DOMAIN brk = Procs /\ \A p \in Procs : brk[p] \in Nat
  BY DEF memInit
<1> QED
  BY <1>2, <1>4, <1>5, <1>6, <1>7, <1>8 DEF MemInv, BoundsOK

\* What the steps below show of the next state.
LEMMA Next1 ==
  ASSUME AllOK(pgtable', refs', next', written', fault', content'), next' \in 1 .. NumPages + 1,
         DOMAIN brk' = Procs, \A p \in Procs : brk'[p] \in Nat
  PROVE  MemInv'
BY DEF AllOK, MemInv, BoundsOK

LEMMA BrkSame == ASSUME MemInv PROVE DOMAIN brk = Procs /\ \A p \in Procs : brk[p] \in Nat
BY DEF MemInv, BoundsOK

LEMMA BrkSafe == ASSUME MemInv, NEW p \in Procs, sys_brk(p) PROVE MemInv'
<1> DEFINE vs(b) == PageUp(brk[p]) .. PageUp(b) - 1
<1>1. PICK b \in brk[p] + 1 .. 2 * (HeapTop + 1) :
        /\ Runs(p) /\ brk' = [brk EXCEPT ![p] = b]
        /\ Maps(p, pgtable[p], refs, written[p], vs(b), {"r", "w"})
  BY DEF sys_brk
<1>2. brk[p] \in Nat /\ b \in Nat /\ DOMAIN brk = Procs /\ \A r \in Procs : brk[r] \in Nat
  BY BrkSame, MemAssumption
<1>3. vs(b) \in SUBSET Ordinary
  BY <1>2, MemAssumption DEF PageUp, Ordinary
<1>4. {"r", "w"} \in Flags /\ fault[p] = NoFault
  BY <1>1 DEF Flags, Runs
<1>5. /\ Replaces(pgtable, pgtable, p, pgtable[p]) /\ Replaces(written, written, p, written[p])
  BY Same DEF Replaces
<1> HIDE DEF vs
<1>6. AllOK(pgtable', refs', next', written', fault', content') /\ next' \in 1 .. NumPages + 1
  BY <1>1, <1>3, <1>4, <1>5, Same, MapsKeep
<1> QED
  BY <1>1, <1>2, <1>6, Next1

LEMMA MmapSafe == ASSUME MemInv, NEW p \in Procs, sys_mmap(p) PROVE MemInv'
<1>1. PICK n \in Lens, flg \in Flags :
        /\ Runs(p) /\ brk' = brk
        /\ Pages(FindRoom(segs[p], n).vpi, n) \subseteq HeapTop + 1 .. MmapTop - 1
        /\ Maps(p, pgtable[p], refs, written[p], Pages(FindRoom(segs[p], n).vpi, n), flg)
  BY DEF sys_mmap
<1>2. Pages(FindRoom(segs[p], n).vpi, n) \in SUBSET Ordinary
  BY <1>1, MemAssumption DEF Ordinary
<1>3. fault[p] = NoFault
  BY <1>1 DEF Runs
<1>4. Replaces(pgtable, pgtable, p, pgtable[p]) /\ Replaces(written, written, p, written[p])
  BY Same DEF Replaces
<1>5. AllOK(pgtable', refs', next', written', fault', content') /\ next' \in 1 .. NumPages + 1
  BY <1>1, <1>2, <1>3, <1>4, Same, MapsKeep
<1> QED
  BY <1>1, <1>5, BrkSame, Next1

\* Pages vs of p go: what is left is as it should be.
LEMMA Unmapped ==
  ASSUME MemInv, NEW p \in Procs, fault[p] = NoFault, NEW vs
  PROVE  AllOK([pgtable EXCEPT ![p] = Without(@, vs)],
               Free(refs, Restrict(pgtable[p], vs \cap DOMAIN pgtable[p])), next,
               [written EXCEPT ![p] = Without(@, vs)], fault, content)
<1> DEFINE tab == Without(pgtable[p], vs)
           ws == Without(written[p], vs)
           part == Restrict(pgtable[p], vs \cap DOMAIN pgtable[p])
           T == [pgtable EXCEPT ![p] = tab]
           W == [written EXCEPT ![p] = ws]
<1>1. DOMAIN tab = DOMAIN pgtable[p] \ vs /\ PartOf(tab, pgtable[p])
  BY DEF Without, Restrict, PartOf
<1>2. DOMAIN ws = DOMAIN written[p] \ vs /\ PartOf(ws, written[p])
  BY DEF Without, Restrict, PartOf
<1>3. DOMAIN part = DOMAIN pgtable[p] \cap vs /\ PartOf(part, pgtable[p])
  BY DEF Restrict, PartOf
<1> HIDE DEF tab, ws, part
<1>4. Replaces(T, pgtable, p, tab) /\ Replaces(W, written, p, ws)
  BY Same DEF Replaces
<1> HIDE DEF T, W
<1>5. AllOK(T, Free(refs, part), next, W, fault, content)
  BY <1>1, <1>2, <1>3, <1>4, Same, DropsKeep
<1> QED
  BY <1>5 DEF T, W, tab, ws, part

LEMMA MunmapSafe == ASSUME MemInv, NEW p \in Procs, sys_munmap(p) PROVE MemInv'
<1>1. PICK v \in HeapTop + 1 .. MmapTop - 2, n \in Lens :
        /\ Runs(p) /\ brk' = brk /\ next' = next /\ content' = content /\ fault' = fault
        /\ refs' = Free(refs, Restrict(pgtable[p], Pages(v, n) \cap DOMAIN pgtable[p]))
        /\ pgtable' = [pgtable EXCEPT ![p] = Without(@, Pages(v, n))]
        /\ written' = [written EXCEPT ![p] = Without(@, Pages(v, n))]
  BY DEF sys_munmap
<1>2. fault[p] = NoFault
  BY <1>1 DEF Runs
<1>3. AllOK(pgtable', refs', next', written', fault', content')
  BY <1>1, <1>2, Unmapped
<1> QED
  BY <1>1, <1>3, Same, BrkSame, Next1

LEMMA MmapFixedSafe == ASSUME MemInv, NEW p \in Procs, sys_mmap_fixed(p) PROVE MemInv'
<1>1. PICK v \in HeapTop + 1 .. MmapTop - 2, n \in Lens :
        /\ Runs(p) /\ brk' = brk /\ v + n < MmapTop
        /\ Maps(p, Without(pgtable[p], Pages(v, n)),
                Free(refs, Restrict(pgtable[p], Pages(v, n) \cap DOMAIN pgtable[p])),
                Without(written[p], Pages(v, n)), Pages(v, n), {"r", "w"})
  BY DEF sys_mmap_fixed
<1> DEFINE vs == Pages(v, n)
           T == [pgtable EXCEPT ![p] = Without(@, vs)]
           W == [written EXCEPT ![p] = Without(@, vs)]
           rs == Free(refs, Restrict(pgtable[p], vs \cap DOMAIN pgtable[p]))
<1>2. vs \in SUBSET Ordinary
  BY <1>1, MemAssumption DEF Pages, Ordinary
<1>3. fault[p] = NoFault /\ {"r", "w"} \in Flags
  BY <1>1 DEF Runs, Flags
<1> HIDE DEF vs
<1>4. /\ Replaces(T, pgtable, p, Without(pgtable[p], vs))
      /\ Replaces(W, written, p, Without(written[p], vs))
  BY Same DEF Replaces
<1>5. AllOK(T, rs, next, W, fault, content)
  BY <1>3, Unmapped
<1>6. Maps(p, Without(pgtable[p], vs), rs, Without(written[p], vs), vs, {"r", "w"})
  BY <1>1 DEF vs
<1> HIDE DEF T, W, rs
<1>7. AllOK(pgtable', refs', next', written', fault', content') /\ next' \in 1 .. NumPages + 1
  BY <1>2, <1>3, <1>4, <1>5, <1>6, Same, MapsKeep
<1> QED
  BY <1>1, <1>7, BrkSame, Next1

LEMMA ExecSafe == ASSUME MemInv, NEW p \in Procs, elf_exec(p) PROVE MemInv'
<1>1. /\ Runs(p) /\ brk' = [brk EXCEPT ![p] = 4]
      /\ Maps(p, <<>>, Free(refs, pgtable[p]), <<>>, ImagePages, {"r", "w"})
  BY DEF elf_exec
<1> DEFINE T == [pgtable EXCEPT ![p] = <<>>]
           W == [written EXCEPT ![p] = <<>>]
           rs == Free(refs, pgtable[p])
           vs == DOMAIN pgtable[p] \cup DOMAIN written[p]
<1>2. ImagePages \in SUBSET Ordinary
  BY MemAssumption DEF ImagePages, Ordinary
<1>3. fault[p] = NoFault /\ {"r", "w"} \in Flags
  BY <1>1 DEF Runs, Flags
<1>4. Replaces(T, pgtable, p, <<>>) /\ Replaces(W, written, p, <<>>)
  BY Same DEF Replaces
<1>5. /\ DOMAIN <<>> = DOMAIN pgtable[p] \ vs /\ DOMAIN <<>> = DOMAIN written[p] \ vs
      /\ DOMAIN pgtable[p] = DOMAIN pgtable[p] \cap vs
      /\ PartOf(<<>>, pgtable[p]) /\ PartOf(<<>>, written[p]) /\ PartOf(pgtable[p], pgtable[p])
  BY DEF PartOf
<1> HIDE DEF T, W, vs
<1>6. AllOK(T, rs, next, W, fault, content)
  BY <1>3, <1>4, <1>5, Same, DropsKeep
<1> HIDE DEF rs
<1>7. AllOK(pgtable', refs', next', written', fault', content') /\ next' \in 1 .. NumPages + 1
  BY <1>1, <1>2, <1>3, <1>4, <1>6, Same, MapsKeep DEF rs
<1> QED
  BY <1>1, <1>7, BrkSame, Next1

LEMMA ExitSafe == ASSUME MemInv, NEW p \in Procs, exit(p) PROVE MemInv'
<1>1. /\ Runs(p) /\ brk' = [brk EXCEPT ![p] = 0] /\ next' = next /\ content' = content
      /\ fault' = fault /\ refs' = Free(refs, pgtable[p])
      /\ pgtable' = [pgtable EXCEPT ![p] = <<>>] /\ written' = [written EXCEPT ![p] = <<>>]
  BY DEF exit
<1> DEFINE vs == DOMAIN pgtable[p] \cup DOMAIN written[p]
<1>2. fault[p] = NoFault
  BY <1>1 DEF Runs
<1>3. Replaces(pgtable', pgtable, p, <<>>) /\ Replaces(written', written, p, <<>>)
  BY <1>1, Same DEF Replaces
<1>4. /\ DOMAIN <<>> = DOMAIN pgtable[p] \ vs /\ DOMAIN <<>> = DOMAIN written[p] \ vs
      /\ DOMAIN pgtable[p] = DOMAIN pgtable[p] \cap vs
      /\ PartOf(<<>>, pgtable[p]) /\ PartOf(<<>>, written[p]) /\ PartOf(pgtable[p], pgtable[p])
  BY DEF PartOf
<1> HIDE DEF vs
<1>5. AllOK(pgtable', refs', next', written', fault', content')
  BY <1>1, <1>2, <1>3, <1>4, Same, DropsKeep
<1> QED
  BY <1>1, <1>5, Same, BrkSame, Next1

LEMMA ProtectSafe == ASSUME MemInv, ~ProtectShared, NEW p \in Procs, sys_mprotect(p) PROVE MemInv'
<1>1. PICK v \in DOMAIN pgtable[p], prot \in SUBSET {"w"} :
        /\ Runs(p) /\ (prot = {} \/ ~is_shared(pgtable[p][v].ppi))
        /\ pgtable' = [pgtable EXCEPT ![p][v].flg = (@ \ {"r", "w"}) \cup {"r"} \cup prot]
        /\ UNCHANGED <<segs, brk, refs, next, content, fault, written>>
  BY DEF sys_mprotect
<1> DEFINE e == pgtable[p][v]
           g == (e.flg \ {"r", "w"}) \cup {"r"} \cup prot
<1>2. EntryOK(e, next)
  BY DEF MemInv, TablesOK, TableOK
<1>3. g \in SUBSET {"r", "w", "share", "cow"} /\ ("cow" \in g => "share" \notin g)
      /\ ("share" \in g <=> "share" \in e.flg) /\ ("w" \in g => prot # {})
  BY <1>2 DEF EntryOK
<1>4. Replaces(pgtable', pgtable, p, [pgtable[p] EXCEPT ![v].flg = g])
  BY <1>1, Same DEF Replaces
<1>5. "w" \notin g \/ Cardinality(Users(pgtable, e.ppi)) <= 1
  <2>1. e.ppi \in 1 .. next - 1
    BY <1>2 DEF EntryOK
  <2> QED
    BY <1>1, <1>3, <2>1, NotShared
<1>6. fault[p] = NoFault
  BY <1>1 DEF Runs
<1> HIDE DEF g
<1>7. AllOK(pgtable', refs, next, written, fault, content)
  BY <1>3, <1>4, <1>5, <1>6, Same, Reflag
<1> QED
  BY <1>1, <1>7, Same, BrkSame, Next1

\* Parent and child have the same pages, each counted once more.
LEMMA ForkCount ==
  ASSUME TablesOK(pgtable, next), Counted(pgtable, refs, next), NEW p \in Procs, fork(p)
  PROVE  /\ TablesOK(pgtable', next) /\ Counted(pgtable', refs', next)
         /\ Exact(pgtable, refs, next) => Exact(pgtable', refs', next)
<1> DEFINE tab == [v \in DOMAIN pgtable[p] |-> ToCopy(pgtable[p][v])]
<1>1. PICK c \in Procs \ Live :
        /\ Runs(p) /\ pgtable' = [pgtable EXCEPT ![p] = tab, ![c] = tab] /\ refs' = Reuse(refs, tab)
  BY DEF fork
<1>2. p # c /\ DOMAIN pgtable[c] = {} /\ DOMAIN pgtable = Procs
  BY <1>1 DEF Live, Runs, TablesOK
<1> DEFINE T1 == [pgtable EXCEPT ![p] = tab]
<1>3. /\ DOMAIN tab = DOMAIN pgtable[p] /\ TableOK(tab, next)
      /\ \A v \in DOMAIN tab : tab[v].ppi = pgtable[p][v].ppi
  <2>1. ASSUME NEW e, EntryOK(e, next) PROVE EntryOK(ToCopy(e), next) /\ ToCopy(e).ppi = e.ppi
    BY <2>1 DEF EntryOK, ToCopy
  <2> QED
    BY <2>1 DEF TablesOK, TableOK
<1> HIDE DEF tab
<1>4. /\ DOMAIN pgtable' = Procs /\ pgtable'[p] = tab /\ pgtable'[c] = tab
      /\ \A r \in Procs \ {p, c} : pgtable'[r] = pgtable[r]
  BY <1>1, <1>2
<1>5. TablesOK(pgtable', next)
  BY <1>3, <1>4 DEF TablesOK
<1>6. ASSUME NEW q PROVE
        /\ Cardinality(Users(pgtable', q)) = Cardinality(Users(pgtable, q)) + Cardinality(Own(tab, q))
        /\ Cardinality(Own(tab, q)) \in Nat /\ Cardinality(Users(pgtable, q)) \in Nat
        /\ Cardinality(Users(pgtable, q)) >= Cardinality(Own(tab, q))
  <2>1. Own(tab, q) = Own(pgtable[p], q) /\ Own(pgtable[c], q) = {}
    BY <1>2, <1>3 DEF Own
  <2>2. DOMAIN tab \subseteq VPages /\ DOMAIN pgtable[p] \subseteq VPages /\ DOMAIN T1[c] \subseteq VPages
        /\ T1[c] = pgtable[c]
    BY <1>2, <1>3 DEF TablesOK, TableOK
  <2>3. Replaces(T1, pgtable, p, tab) /\ Replaces(pgtable', T1, c, tab)
    BY <1>2, <1>4 DEF Replaces
  <2> HIDE DEF T1
  <2>4. Cardinality(Users(T1, q))
        = Cardinality(Users(pgtable, q)) - Cardinality(Own(pgtable[p], q)) + Cardinality(Own(tab, q))
    BY <2>2, <2>3, OneTable
  <2>5. Cardinality(Users(pgtable', q))
        = Cardinality(Users(T1, q)) - Cardinality(Own(T1[c], q)) + Cardinality(Own(tab, q))
    BY <2>2, <2>3, OneTable
  <2>6. Cardinality(Own(T1[c], q)) = 0
    BY <2>1, <2>2, FS_EmptySet
  <2>7. /\ Cardinality(Own(tab, q)) \in Nat /\ Cardinality(Users(pgtable, q)) \in Nat
        /\ Cardinality(Others(pgtable, p, q)) \in Nat
    BY <2>2, Finite
  <2>8. Cardinality(Users(pgtable, q))
        = Cardinality(Others(pgtable, p, q)) + Cardinality(Own(pgtable[p], q))
    BY <2>2, Split
  <2> QED
    BY <2>1, <2>4, <2>5, <2>6, <2>7, <2>8
<1>7. refs' = [q \in DOMAIN refs |-> refs[q] + Cardinality(Own(tab, q))]
  BY <1>1 DEF Reuse, Own
<1>8. ASSUME NEW q \in 1 .. next - 1
      PROVE  /\ Cardinality(Users(pgtable', q)) <= Count(refs', q)
             /\ Cardinality(Users(pgtable, q)) = Count(refs, q) => Cardinality(Users(pgtable', q)) = Count(refs', q)
  <2>1. Cardinality(Users(pgtable, q)) <= Count(refs, q) /\ (q \in DOMAIN refs => refs[q] \in Nat)
    BY DEF Counted
  <2>2. CASE q \in DOMAIN refs
    BY <1>6, <1>7, <2>1, <2>2 DEF Count
  <2>3. CASE q \notin DOMAIN refs
    BY <1>6, <1>7, <2>1, <2>3 DEF Count
  <2> QED
    BY <2>2, <2>3
<1>9. \A q \in DOMAIN refs' : q \in 1 .. next - 1 /\ refs'[q] \in Nat
  BY <1>6, <1>7 DEF Counted
<1> QED
  BY <1>5, <1>8, <1>9 DEF Counted, Exact

LEMMA ForkSafe == ASSUME MemInv, NEW p \in Procs, fork(p) PROVE MemInv'
<1> DEFINE tab == [v \in DOMAIN pgtable[p] |-> ToCopy(pgtable[p][v])]
<1>1. PICK c \in Procs \ Live :
        /\ Runs(p) /\ pgtable' = [pgtable EXCEPT ![p] = tab, ![c] = tab]
        /\ refs' = Reuse(refs, tab) /\ brk' = [brk EXCEPT ![c] = brk[p]]
        /\ written' = [written EXCEPT ![c] = written[p]]
        /\ next' = next /\ content' = content /\ fault' = fault
  BY DEF fork
<1>2. /\ TablesOK(pgtable, next) /\ Counted(pgtable, refs, next) /\ Apart(pgtable)
      /\ ContentsOK(pgtable, written, fault, content) /\ Clean(content, next)
      /\ next \in Nat /\ DOMAIN pgtable = Procs /\ DOMAIN written = Procs /\ DOMAIN fault = Procs
  BY Same DEF AllOK
<1>3. p # c /\ fault[p] = NoFault /\ DOMAIN pgtable[c] = {} /\ fault[c] = NoFault
  <2>1. DOMAIN pgtable[c] = {} /\ fault[p] = NoFault /\ p # c
    BY <1>1 DEF Live, Runs
  <2>2. FaultOK(pgtable[c], written[c], fault[c], content)
    BY <1>2 DEF ContentsOK
  <2> QED
    BY <2>1, <2>2 DEF FaultOK
<1> DEFINE old(r) == IF r = c THEN pgtable[p] ELSE pgtable[r]
\* What an entry of a table was made from.
<1>4. ASSUME NEW e, EntryOK(e, next)
      PROVE  /\ EntryOK(ToCopy(e), next) /\ ToCopy(e).ppi = e.ppi
             /\ "share" \in ToCopy(e).flg <=> "share" \in e.flg
             /\ ~Writable(ToCopy(e))
  BY <1>4 DEF EntryOK, ToCopy, Writable
<1>5. /\ DOMAIN tab = DOMAIN pgtable[p] /\ TableOK(tab, next)
      /\ \A v \in DOMAIN tab : /\ tab[v].ppi = pgtable[p][v].ppi
                               /\ "share" \in tab[v].flg <=> "share" \in pgtable[p][v].flg
                               /\ ~Writable(tab[v])
  BY <1>2, <1>4 DEF TablesOK, TableOK
<1> HIDE DEF tab
<1>6. /\ DOMAIN pgtable' = Procs /\ pgtable'[p] = tab /\ pgtable'[c] = tab
      /\ \A r \in Procs \ {p, c} : pgtable'[r] = pgtable[r]
  BY <1>1, <1>2, <1>3
<1>7. TablesOK(pgtable', next) /\ Counted(pgtable', refs', next)
  BY <1>2, ForkCount
<1>8. Apart(pgtable')
  <2>1. ASSUME NEW r \in Procs PROVE
          /\ DOMAIN pgtable'[r] = DOMAIN old(r)
          /\ \A v \in DOMAIN old(r) :
               /\ pgtable'[r][v].ppi = old(r)[v].ppi
               /\ "share" \in pgtable'[r][v].flg <=> "share" \in old(r)[v].flg
               /\ Writable(pgtable'[r][v]) => r # p /\ r # c /\ Writable(old(r)[v])
    <3>1. CASE r \in {p, c}
      BY <1>5, <1>6, <3>1
    <3>2. CASE r \notin {p, c}
      BY <1>6, <3>2
    <3> QED
      BY <3>1, <3>2
  <2>2. ASSUME NEW r \in Procs, NEW s \in Procs PROVE ApartFrom(pgtable'[r], r, pgtable'[s], s)
    <3> DEFINE ro == IF r = c THEN p ELSE r
               so == IF s = c THEN p ELSE s
    <3>1. ro \in Procs /\ so \in Procs /\ old(r) = pgtable[ro] /\ old(s) = pgtable[so]
      OBVIOUS
    <3>2. ApartFrom(old(r), ro, old(s), so)
      BY <1>2, <3>1 DEF Apart
    <3> HIDE DEF old
    <3> QED
      BY <2>1, <3>2 DEF ApartFrom
  <2> QED
    BY <2>2 DEF Apart
<1>9. ContentsOK(pgtable', written', fault, content)
  <2>1. Finds(pgtable[p], written[p], NoFault, content) /\ FaultOK(pgtable[p], written[p], NoFault, content)
    BY <1>2, <1>3 DEF ContentsOK
  <2>2. Finds(tab, written[p], NoFault, content) /\ FaultOK(tab, written[p], NoFault, content)
    BY <1>5, <2>1 DEF Finds, FaultOK
  <2>3. /\ DOMAIN written' = Procs /\ written'[c] = written[p]
        /\ \A r \in Procs \ {c} : written'[r] = written[r]
    BY <1>1, <1>2
  <2> QED
    BY <1>2, <1>3, <1>6, <2>2, <2>3 DEF ContentsOK
<1>10. AllOK(pgtable', refs', next', written', fault', content')
  BY <1>1, <1>2, <1>7, <1>8, <1>9 DEF AllOK
<1> QED
  BY <1>1, <1>10, Same, BrkSame, Next1

LEMMA StoreSafe == ASSUME MemInv, StoreFlag = "w", NEW p \in Procs, Store(p) PROVE MemInv'
<1>1. PICK v \in DOMAIN pgtable[p], x \in Values :
        /\ Runs(p)
        /\ "w" \in pgtable[p][v].flg \/ ("cow" \in pgtable[p][v].flg /\ ~is_shared(pgtable[p][v].ppi))
        /\ pgtable' = IF "w" \in pgtable[p][v].flg THEN pgtable
                      ELSE [pgtable EXCEPT ![p][v].flg = (@ \ {"cow"}) \cup {"w"}]
        /\ content' = [content EXCEPT ![pgtable[p][v].ppi] = x]
        /\ written' = [written EXCEPT ![p][v] = x]
        /\ UNCHANGED <<segs, brk, refs, next, fault>>
  BY DEF Store, Owns
<1> DEFINE e == pgtable[p][v]
           g == (e.flg \ {"cow"}) \cup {"w"}
<1>2. EntryOK(e, next) /\ fault[p] = NoFault
  BY <1>1 DEF MemInv, TablesOK, TableOK, Runs
<1>3. CASE "w" \in e.flg
  <2>1. "share" \in e.flg \/ Writable(e)
    BY <1>3 DEF Writable
  <2>2. AllOK(pgtable, refs, next, written', fault, content')
    BY <1>1, <1>2, <2>1, Same, Writes
  <2>3. pgtable' = pgtable
    BY <1>1, <1>3
  <2> QED
    BY <1>1, <2>2, <2>3, Same, BrkSame, Next1
<1>4. CASE "w" \notin e.flg
  <2>1. "cow" \in e.flg /\ "share" \notin e.flg /\ e.ppi \in 1 .. next - 1
    BY <1>1, <1>2, <1>4 DEF EntryOK
  <2>2. Cardinality(Users(pgtable, e.ppi)) <= 1
    BY <1>1, <1>4, <2>1, NotShared
  <2>3. g \in SUBSET {"r", "w", "share", "cow"} /\ ("cow" \in g => "share" \notin g)
        /\ ("share" \in g <=> "share" \in e.flg)
    BY <1>2, <2>1 DEF EntryOK
  <2>4. Replaces(pgtable', pgtable, p, [pgtable[p] EXCEPT ![v].flg = g])
    BY <1>1, <1>4, Same DEF Replaces
  <2>5. AllOK(pgtable', refs, next, written, fault, content) /\ pgtable'[p][v].ppi = e.ppi
        /\ pgtable'[p][v].flg = g
    <3> HIDE DEF g
    <3> QED
      BY SMTT(30), <1>2, <2>2, <2>3, <2>4, Same, Reflag
  <2>6. v \in DOMAIN pgtable'[p] /\ Writable(pgtable'[p][v])
    BY <2>1, <2>4, <2>5 DEF Replaces, Writable
  <2>7. AllOK(pgtable', refs, next, written', fault, content')
    BY <1>1, <1>2, <2>5, <2>6, Same, Writes
  <2> QED
    BY <1>1, <2>7, Same, BrkSame, Next1
<1> QED
  BY <1>3, <1>4

\* Outside a fault the temporary page of a copy is the first above the mappings.
LEMMA TmpIsFree ==
  ASSUME NEW t, DOMAIN t \subseteq Ordinary
  PROVE  FirstFree(t) = Tmp
<1> DEFINE free(v) == v \notin DOMAIN t /\ \A u \in MmapTop + 1 .. v - 1 : u \in DOMAIN t
           range == MmapTop + 1 .. MmapTop + 1 + Cardinality(DOMAIN t)
<1>1. Cardinality(DOMAIN t) \in Nat
  <2>1. IsFiniteSet(Ordinary)
    BY MemAssumption, FS_Interval DEF Ordinary
  <2>2. IsFiniteSet(DOMAIN t)
    BY <2>1, FS_Subset
  <2> QED
    BY <2>2, FS_CardinalityType
<1>2. Tmp \in range /\ Tmp \notin DOMAIN t
  BY <1>1, MemAssumption DEF Tmp, Ordinary
<1>3. free(Tmp)
  BY <1>2, MemAssumption DEF Tmp
<1>4. ASSUME NEW v \in range, free(v) PROVE v = Tmp
  <2>1. v \in Int /\ v >= Tmp /\ Tmp = MmapTop + 1 /\ Tmp \in Int
    BY <1>1, MemAssumption DEF Tmp
  <2>2. CASE v > Tmp
    <3>1. Tmp \in MmapTop + 1 .. v - 1
      BY <2>1, <2>2
    <3> QED
      BY <1>2, <1>4, <3>1
  <2> QED
    BY <2>1, <2>2
<1>5. FirstFree(t) = CHOOSE v \in range : free(v)
  BY DEF FirstFree
<1> HIDE DEF free, range
<1>6. (CHOOSE v \in range : free(v)) \in range /\ free(CHOOSE v \in range : free(v))
  BY <1>2, <1>3
<1> QED
  BY <1>4, <1>5, <1>6

\* The page the copy goes to is counted once, the one it is made from as often as before: it
\* has lost an entry and got the temporary one.
LEMMA FaultCount ==
  ASSUME TablesOK(pgtable, next), Counted(pgtable, refs, next), next \in 1 .. NumPages + 1,
         NEW p \in Procs, DOMAIN pgtable[p] \subseteq Ordinary, cow_realloc_missed_page(p)
  PROVE  /\ TablesOK(pgtable', next') /\ Counted(pgtable', refs', next') /\ next' \in 1 .. NumPages + 1
         /\ Exact(pgtable, refs, next) => Exact(pgtable', refs', next')
         /\ DOMAIN pgtable'[p] = DOMAIN pgtable[p] \cup {Tmp}
         /\ \A r \in Procs \ {p} : pgtable'[r] = pgtable[r]
<1> DEFINE t == pgtable[p]
           old(v) == [ppi |-> t[v].ppi, flg |-> {"r"}]
           new(v) == [ppi |-> next, flg |-> (t[v].flg \ {"cow"}) \cup {"w"}]
<1>1. PICK v \in DOMAIN t :
        /\ Alloc(1) /\ refs' = Over(NewRefs(1), refs)
        /\ pgtable' = [pgtable EXCEPT ![p] =
             Over([u \in {v, FirstFree(t)} |-> IF u = v THEN new(v) ELSE old(v)], t)]
  BY DEF cow_realloc_missed_page
<1> DEFINE more == [u \in {v, Tmp} |-> IF u = v THEN new(v) ELSE old(v)]
           tab == Over(more, t)
<1>2. next' = next + 1 /\ next <= NumPages /\ next \in Nat /\ next > 0 /\ next' \in 1 .. NumPages + 1
  BY <1>1, MemAssumption DEF Alloc
<1>3. FirstFree(t) = Tmp
  BY TmpIsFree
<1>4. v \in Ordinary /\ v # Tmp /\ Tmp \notin DOMAIN t /\ Tmp # 0
  BY MemAssumption DEF Ordinary, Tmp
<1>5. Replaces(pgtable', pgtable, p, tab)
  BY <1>1, <1>3 DEF Replaces, TablesOK
<1>6. TableOK(t, next) /\ EntryOK(t[v], next)
  BY DEF TablesOK, TableOK
<1> HIDE DEF new, old
<1>7. /\ DOMAIN tab = DOMAIN t \cup {Tmp}
      /\ tab[v] = new(v) /\ tab[Tmp] = old(v)
      /\ \A u \in DOMAIN t \ {v} : tab[u] = t[u]
  BY <1>4 DEF Over
<1> HIDE DEF tab
<1>8. /\ tab[v].ppi = next /\ EntryOK(tab[v], next + 1)
      /\ tab[Tmp].ppi = t[v].ppi /\ EntryOK(tab[Tmp], next + 1)
  <2>1. /\ new(v).ppi = next /\ old(v).ppi = t[v].ppi
    BY DEF new, old
  <2>2. EntryOK(new(v), next + 1)
    BY <1>2, <1>6 DEF EntryOK, new
  <2>3. EntryOK(old(v), next + 1)
    <3>1. t[v].ppi \in 1 .. (next + 1) - 1
      BY <1>2, <1>6 DEF EntryOK
    <3>2. old(v).flg = {"r"}
      BY DEF old
    <3> QED
      BY <3>1, <3>2 DEF EntryOK, old
  <2> QED
    BY <1>7, <2>1, <2>2, <2>3
<1>9. TableOK(tab, next + 1)
  <2>1. \A u \in DOMAIN t \ {v} : EntryOK(tab[u], next + 1)
    BY <1>2, <1>6, <1>7 DEF TableOK, EntryOK
  <2>2. DOMAIN tab \subseteq VPages
    BY <1>7 DEF VPages
  <2> QED
    BY <1>7, <1>8, <2>1, <2>2 DEF TableOK
<1>10. ASSUME NEW q \in 1 .. next - 1 PROVE Cardinality(Own(tab, q)) = Cardinality(Own(t, q))
  <2>1. IsFiniteSet(Own(t, q)) /\ Cardinality(Own(t, q)) \in Nat
    BY <1>6, Finite DEF TableOK
  <2>2. CASE q = t[v].ppi
    <3>1. Own(tab, q) = (Own(t, q) \ {v}) \cup {Tmp} /\ v \in Own(t, q) /\ Tmp \notin Own(t, q) \ {v}
      BY <1>2, <1>4, <1>7, <1>8, <1>10, <2>2 DEF Own
    <3>2. IsFiniteSet(Own(t, q) \ {v}) /\ Cardinality(Own(t, q) \ {v}) = Cardinality(Own(t, q)) - 1
      BY <2>1, <3>1, FS_RemoveElement
    <3>3. Cardinality((Own(t, q) \ {v}) \cup {Tmp}) = Cardinality(Own(t, q) \ {v}) + 1
      BY <3>1, <3>2, FS_AddElement
    <3> QED
      BY <2>1, <3>1, <3>2, <3>3
  <2>3. CASE q # t[v].ppi
    <3>1. Own(tab, q) = Own(t, q)
      BY <1>2, <1>4, <1>7, <1>8, <1>10, <2>3 DEF Own
    <3> QED
      BY <2>1, <3>1
  <2> QED
    BY <2>2, <2>3
<1>11. ASSUME NEW q \in next .. next + 1 - 1 PROVE Cardinality(Own(tab, q)) = 1
  <2>1. \A u \in DOMAIN t : t[u].ppi < next
    BY <1>2, <1>6 DEF TableOK, EntryOK
  <2>2. q = next /\ t[v].ppi # next
    BY <1>2, <1>11, <2>1
  <2>3. Own(tab, q) = {v}
    BY <1>2, <1>7, <1>8, <2>1, <2>2 DEF Own
  <2> QED
    BY <2>3, FS_Singleton
<1>12. /\ DOMAIN NewRefs(1) = next .. next + 1 - 1 /\ \A q \in DOMAIN NewRefs(1) : NewRefs(1)[q] = 1
       /\ 1 \in Nat
  BY DEF NewRefs
<1>13. TablesOK(pgtable', next + 1) /\ Counted(pgtable', Over(NewRefs(1), refs), next + 1)
  <2>1. /\ \A q \in 1 .. next - 1 : Cardinality(Own(tab, q)) <= Cardinality(Own(t, q))
        /\ \A q \in next .. next + 1 - 1 : Cardinality(Own(tab, q)) <= 1
    <3>1. \A q : Cardinality(Own(t, q)) \in Nat
      BY <1>6, Finite DEF TableOK
    <3> QED
      BY <1>10, <1>11, <3>1
  <2> QED
    BY <1>2, <1>5, <1>9, <1>12, <2>1, Grows
<1>14. ASSUME Exact(pgtable, refs, next) PROVE Exact(pgtable', Over(NewRefs(1), refs), next + 1)
  BY <1>2, <1>5, <1>9, <1>10, <1>11, <1>12, <1>14, GrowsExactly
<1>15. DOMAIN pgtable'[p] = DOMAIN t \cup {Tmp} /\ \A r \in Procs \ {p} : pgtable'[r] = pgtable[r]
  BY <1>5, <1>7 DEF Replaces
<1> QED
  BY <1>1, <1>2, <1>13, <1>14, <1>15

LEMMA FaultSafe ==
  ASSUME MemInv, StoreFlag = "w", NEW p \in Procs, cow_realloc_missed_page(p) PROVE MemInv'
<1>1. PICK v \in DOMAIN pgtable[p] :
        LET e == pgtable[p][v] IN
        /\ Runs(p) /\ "w" \notin e.flg /\ "cow" \in e.flg
        /\ Alloc(1)
        /\ pgtable' = [pgtable EXCEPT ![p] =
             Over([u \in {v, FirstFree(pgtable[p])} |->
                     IF u = v THEN [ppi |-> next, flg |-> (e.flg \ {"cow"}) \cup {"w"}]
                     ELSE [ppi |-> e.ppi, flg |-> {"r"}]], pgtable[p])]
        /\ refs' = Over(NewRefs(1), refs)
        /\ fault' = [fault EXCEPT ![p] =
                       [missed |-> v, tmp |-> FirstFree(pgtable[p]), copied |-> FALSE]]
        /\ UNCHANGED <<segs, brk, content, written>>
  BY DEF cow_realloc_missed_page
<1> DEFINE t == pgtable[p]
           e == t[v]
           f == [missed |-> v, tmp |-> Tmp, copied |-> FALSE]
           g == (e.flg \ {"cow"}) \cup {"w"}
           more == [u \in {v, Tmp} |-> IF u = v THEN [ppi |-> next, flg |-> g]
                                       ELSE [ppi |-> e.ppi, flg |-> {"r"}]]
           tab == Over(more, t)
<1>2. /\ TablesOK(pgtable, next) /\ Counted(pgtable, refs, next) /\ Apart(pgtable)
      /\ ContentsOK(pgtable, written, fault, content) /\ Clean(content, next)
      /\ next \in Nat /\ next > 0 /\ next \in 1 .. NumPages + 1
      /\ DOMAIN pgtable = Procs /\ DOMAIN written = Procs /\ DOMAIN fault = Procs
  BY Same DEF AllOK
<1>3. fault[p] = NoFault /\ next' = next + 1 /\ next <= NumPages
  BY <1>1, <1>2, MemAssumption DEF Runs, Alloc
<1>4. Finds(t, written[p], NoFault, content) /\ DOMAIN t \subseteq Ordinary
  BY <1>2, <1>3 DEF ContentsOK, FaultOK
<1>5. FirstFree(pgtable[p]) = Tmp
  BY <1>4, TmpIsFree
<1>6. v \in Ordinary /\ v # Tmp /\ Tmp \notin DOMAIN t /\ Tmp # 0
  BY <1>4, MemAssumption DEF Ordinary, Tmp
<1>7. /\ Replaces(pgtable', pgtable, p, tab) /\ Replaces(fault', fault, p, f)
      /\ Replaces(written, written, p, written[p])
  BY <1>1, <1>2, <1>5 DEF Replaces
<1>8. TableOK(t, next) /\ EntryOK(e, next) /\ "share" \notin e.flg
  BY <1>1, <1>2 DEF TablesOK, TableOK, EntryOK
<1>9. /\ DOMAIN tab = DOMAIN t \cup {Tmp}
      /\ tab[v] = [ppi |-> next, flg |-> g] /\ tab[Tmp] = [ppi |-> e.ppi, flg |-> {"r"}]
      /\ \A u \in DOMAIN t \ {v} : tab[u] = t[u]
  BY <1>6 DEF Over
<1>10. /\ tab[v].ppi = next /\ Writable(tab[v]) /\ "share" \notin tab[v].flg
       /\ tab[Tmp].ppi = e.ppi /\ "share" \notin tab[Tmp].flg /\ ~Writable(tab[Tmp])
       /\ EntryOK(tab[v], next + 1) /\ EntryOK(tab[Tmp], next + 1)
  <2>1. /\ "w" \in g /\ "share" \notin g /\ g \in SUBSET {"r", "w", "share", "cow"}
    BY <1>8 DEF EntryOK
  <2>2. /\ next \in 1 .. (next + 1) - 1 /\ e.ppi \in 1 .. (next + 1) - 1
    BY <1>2, <1>8 DEF EntryOK
  <2>3. /\ {"r"} \in SUBSET {"r", "w", "share", "cow"} /\ "w" \notin {"r"} /\ "share" \notin {"r"}
    OBVIOUS
  <2> DEFINE a == tab[v]
             b == tab[Tmp]
  <2>4. a = [ppi |-> next, flg |-> g] /\ b = [ppi |-> e.ppi, flg |-> {"r"}]
    BY <1>9
  <2> HIDE DEF e, g, a, b, tab
  <2>5. a.ppi = next /\ a.flg = g /\ b.ppi = e.ppi /\ b.flg = {"r"}
    BY <2>4
  <2>6. EntryOK(a, next + 1)
    BY <2>1, <2>2, <2>4, <2>5 DEF EntryOK
  <2>7. EntryOK(b, next + 1)
    BY <2>2, <2>3, <2>4, <2>5 DEF EntryOK
  <2>8. Writable(a) /\ ~Writable(b)
    BY <2>1, <2>3, <2>5 DEF Writable
  <2> QED
    BY <2>1, <2>3, <2>5, <2>6, <2>7, <2>8 DEF a, b
<1> HIDE DEF tab, f
<1>11. TablesOK(pgtable', next') /\ Counted(pgtable', refs', next')
  BY <1>2, <1>4, FaultCount
<1>12. Apart(pgtable')
  <2>1. \A r \in Procs : \A u \in DOMAIN pgtable[r] : pgtable[r][u].ppi # next
    BY <1>2 DEF TablesOK, TableOK, EntryOK
  <2>2. ASSUME NEW r \in Procs, NEW u \in DOMAIN pgtable[r], pgtable[r][u].ppi = e.ppi
        PROVE  "share" \notin pgtable[r][u].flg /\ (Writable(pgtable[r][u]) => FALSE)
    <3>1. ApartFrom(t, p, pgtable[r], r) /\ ApartFrom(pgtable[r], r, t, p)
      BY <1>2 DEF Apart
    <3>2. ~Writable(e)
      BY <1>1 DEF Writable
    <3> QED
      BY <1>8, <2>2, <3>1, <3>2 DEF ApartFrom
  <2>3. e.ppi # next
    BY <2>1
  <2>4. ASSUME NEW r \in Procs \ {p} PROVE ApartFrom(tab, p, pgtable[r], r) /\ ApartFrom(pgtable[r], r, tab, p)
    <3>1. ApartFrom(t, p, pgtable[r], r) /\ ApartFrom(pgtable[r], r, t, p)
      BY <1>2 DEF Apart
    <3>2. ASSUME NEW a \in DOMAIN tab, NEW b \in DOMAIN pgtable[r], tab[a].ppi = pgtable[r][b].ppi
          PROVE  /\ "share" \in tab[a].flg <=> "share" \in pgtable[r][b].flg
                 /\ ~Writable(tab[a]) /\ ~Writable(pgtable[r][b])
      <4>1. CASE a = v
        BY <1>10, <2>1, <3>2, <4>1
      <4>2. CASE a = Tmp
        BY <1>10, <2>2, <3>2, <4>2
      <4>3. CASE a # v /\ a # Tmp
        BY <1>9, <3>1, <3>2, <4>3 DEF ApartFrom
      <4> QED
        BY <4>1, <4>2, <4>3
    <3> QED
      BY <3>2 DEF ApartFrom
  <2>5. ApartFrom(tab, p, tab, p)
    <3>1. ApartFrom(t, p, t, p)
      BY <1>2 DEF Apart
    <3>2. ASSUME NEW a \in DOMAIN t \ {v}, NEW b \in DOMAIN t \ {v}, tab[a].ppi = tab[b].ppi
          PROVE  /\ "share" \in tab[a].flg <=> "share" \in tab[b].flg
                 /\ Writable(tab[a]) => a = b
      BY <1>9, <3>1, <3>2 DEF ApartFrom
    <3>3. \A a \in DOMAIN t \ {v} : /\ tab[a].ppi # next
                                    /\ tab[a].ppi = e.ppi => /\ "share" \notin tab[a].flg
                                                             /\ ~Writable(tab[a])
      BY <1>9, <2>1, <2>2
    <3>4. \A a \in DOMAIN tab : a = v \/ a = Tmp \/ a \in DOMAIN t \ {v}
      BY <1>9
    <3> QED
      BY <1>10, <2>3, <3>2, <3>3, <3>4 DEF ApartFrom
  <2> QED
    BY <1>2, <1>7, <2>4, <2>5, ApartOne
<1>13. ContentsOK(pgtable', written, fault', content)
  <2>1. f.missed = v /\ f.tmp = Tmp /\ f.copied = FALSE /\ f # NoFault
        /\ f \in [missed : Ordinary, tmp : {Tmp}, copied : BOOLEAN]
    BY <1>6 DEF f, NoFault
  <2>2. Finds(tab, written[p], f, content)
    BY <1>4, <1>6, <1>9, <2>1 DEF Finds, Pending
  <2>3. v \in DOMAIN written[p] => content[e.ppi] = written[p][v]
    BY <1>4, <1>8 DEF Finds, Pending
  <2>4. Tmp \notin DOMAIN written[p]
    BY <1>4, <1>6 DEF Finds
  <2>5. FaultOK(tab, written[p], f, content)
    BY <1>9, <1>10, <2>1, <2>3, <2>4 DEF FaultOK
  <2> QED
    BY <1>2, <1>7, <2>2, <2>5, ContentsOne
<1>14. Clean(content, next + 1)
  BY <1>2 DEF Clean, PPages
<1>15. AllOK(pgtable', refs', next', written', fault', content')
  BY <1>1, <1>3, <1>11, <1>12, <1>13, <1>14 DEF AllOK
<1>16. next' \in 1 .. NumPages + 1
  BY <1>2, <1>3, MemAssumption
<1> QED
  BY <1>1, <1>15, <1>16, BrkSame, Next1

LEMMA CopySafe == ASSUME MemInv, NEW p \in Procs, CopyPage(p) PROVE MemInv'
<1> DEFINE t == pgtable[p]
           m == fault[p].missed
           q == t[m].ppi
<1>1. /\ fault[p] # NoFault /\ ~fault[p].copied
      /\ content' = [content EXCEPT ![q] = content[t[fault[p].tmp].ppi]]
      /\ fault' = [fault EXCEPT ![p].copied = TRUE]
      /\ UNCHANGED <<pgtable, segs, brk, refs, next, written>>
  BY DEF CopyPage
<1>2. /\ TablesOK(pgtable, next) /\ Counted(pgtable, refs, next) /\ Apart(pgtable)
      /\ ContentsOK(pgtable, written, fault, content) /\ Clean(content, next)
      /\ next \in 1 .. NumPages + 1
      /\ DOMAIN pgtable = Procs /\ DOMAIN written = Procs /\ DOMAIN fault = Procs /\ DOMAIN content = PPages
  BY Same DEF AllOK, ContentsOK
<1>3. /\ fault[p] \in [missed : Ordinary, tmp : {Tmp}, copied : BOOLEAN]
      /\ m \in DOMAIN t /\ Tmp \in DOMAIN t /\ Tmp \notin DOMAIN written[p]
      /\ Writable(t[m]) /\ "share" \notin t[Tmp].flg
      /\ m \in DOMAIN written[p] => content[t[Tmp].ppi] = written[p][m]
      /\ fault[p].tmp = Tmp
  BY <1>1, <1>2 DEF ContentsOK, FaultOK
<1>4. q \in 1 .. next - 1 /\ q \in PPages
  BY <1>2, <1>3, MemAssumption DEF TablesOK, TableOK, EntryOK, PPages
<1>5. ASSUME NEW r \in Procs, NEW u \in DOMAIN pgtable[r], pgtable[r][u].ppi = q PROVE r = p /\ u = m
  <2>1. ApartFrom(t, p, pgtable[r], r)
    BY <1>2 DEF Apart
  <2> QED
    BY <1>3, <1>5, <2>1 DEF ApartFrom
<1>6. /\ DOMAIN fault' = Procs /\ \A r \in Procs \ {p} : fault'[r] = fault[r]
      /\ fault'[p].missed = m /\ fault'[p].tmp = Tmp /\ fault'[p].copied = TRUE
      /\ fault'[p] \in [missed : Ordinary, tmp : {Tmp}, copied : BOOLEAN]
  BY <1>1, <1>2, <1>3
<1>7. /\ DOMAIN content' = PPages /\ content'[q] = content[t[Tmp].ppi]
      /\ \A y : y # q => content'[y] = content[y]
  BY <1>1, <1>2, <1>3, <1>4
<1>8. m # Tmp /\ fault'[p] # NoFault
  BY <1>3, <1>6, MemAssumption DEF Ordinary, Tmp, NoFault
<1> HIDE DEF q, m
<1>9. ASSUME NEW r \in Procs \ {p}
      PROVE  Finds(pgtable[r], written[r], fault'[r], content')
             /\ FaultOK(pgtable[r], written[r], fault'[r], content')
  <2>1. Finds(pgtable[r], written[r], fault[r], content) /\ FaultOK(pgtable[r], written[r], fault[r], content)
    BY <1>2 DEF ContentsOK
  <2>2. \A u \in DOMAIN pgtable[r] : content'[pgtable[r][u].ppi] = content[pgtable[r][u].ppi]
    BY <1>5, <1>7
  <2> QED
    BY <1>6, <2>1, <2>2 DEF Finds, FaultOK
<1>10. Finds(t, written[p], fault'[p], content')
  <2>1. Finds(t, written[p], fault[p], content)
    BY <1>2 DEF ContentsOK
  <2>2. ASSUME NEW u \in DOMAIN written[p], u # m
        PROVE  u \in DOMAIN t /\ ("share" \in t[u].flg \/ content'[t[u].ppi] = written[p][u])
    BY <1>5, <1>7, <2>1, <2>2 DEF Finds, Pending, m
  <2>3. ASSUME m \in DOMAIN written[p] PROVE content'[t[m].ppi] = written[p][m]
    BY <1>3, <1>7, <2>3 DEF q
  <2> QED
    BY <1>3, <2>2, <2>3 DEF Finds
<1>11. FaultOK(t, written[p], fault'[p], content')
  BY <1>3, <1>6, <1>8 DEF FaultOK
<1>12. ContentsOK(pgtable, written, fault', content')
  BY <1>2, <1>6, <1>7, <1>9, <1>10, <1>11 DEF ContentsOK
<1>13. Clean(content', next)
  BY <1>2, <1>4, <1>7 DEF Clean, PPages
<1>14. AllOK(pgtable', refs', next', written', fault', content')
  BY <1>1, <1>2, <1>12, <1>13 DEF AllOK
<1> QED
  BY <1>1, <1>2, <1>14, BrkSame, Next1

LEMMA FreeTmpSafe == ASSUME MemInv, NEW p \in Procs, cow_free_tmp_page(p) PROVE MemInv'
<1> DEFINE t == pgtable[p]
           tab == Without(t, {Tmp})
           part == Restrict(t, {Tmp})
<1>1. /\ TablesOK(pgtable, next) /\ Counted(pgtable, refs, next) /\ Apart(pgtable)
      /\ ContentsOK(pgtable, written, fault, content) /\ Clean(content, next) /\ next \in Nat
      /\ DOMAIN pgtable = Procs /\ DOMAIN written = Procs /\ DOMAIN fault = Procs
  BY Same DEF AllOK
<1>2. fault[p].copied /\ fault[p] # NoFault
  BY DEF cow_free_tmp_page, NoFault
<1>3. Finds(t, written[p], fault[p], content) /\ FaultOK(t, written[p], fault[p], content)
  BY <1>1 DEF ContentsOK
<1>4. fault[p].tmp = Tmp /\ Tmp \in DOMAIN t /\ Tmp \notin DOMAIN written[p]
  BY <1>2, <1>3 DEF FaultOK
<1>5. /\ refs' = Free(refs, part) /\ pgtable' = [pgtable EXCEPT ![p] = tab]
      /\ fault' = [fault EXCEPT ![p] = NoFault]
      /\ UNCHANGED <<segs, brk, next, content, written>>
  BY <1>4 DEF cow_free_tmp_page
<1>6. DOMAIN tab = DOMAIN t \ {Tmp} /\ PartOf(tab, t) /\ \A u \in DOMAIN t \ {Tmp} : tab[u] = t[u]
  BY DEF Without, Restrict, PartOf
<1>7. DOMAIN part = DOMAIN t \ DOMAIN tab /\ PartOf(part, t)
  BY <1>4, <1>6 DEF Restrict, PartOf
<1> HIDE DEF tab, part
<1>8. /\ Replaces(pgtable', pgtable, p, tab) /\ Replaces(fault', fault, p, NoFault)
      /\ Replaces(written, written, p, written[p])
  BY <1>1, <1>5 DEF Replaces
<1>9. TablesOK(pgtable', next) /\ Counted(pgtable', Free(refs, part), next)
  BY <1>1, <1>6, <1>7, <1>8, Drops
<1>10. Apart(pgtable')
  BY <1>1, <1>6, <1>8, ApartLess
<1>11. Finds(tab, written[p], NoFault, content)
  BY <1>2, <1>3, <1>4, <1>6 DEF Finds, Pending
<1>12. FaultOK(tab, written[p], NoFault, content)
  <2>1. DOMAIN t \subseteq VPages
    BY <1>1 DEF TablesOK, TableOK
  <2> QED
    BY <1>6, <2>1 DEF FaultOK, VPages
<1>13. ContentsOK(pgtable', written, fault', content)
  BY <1>1, <1>8, <1>11, <1>12, ContentsOne
<1>14. AllOK(pgtable', refs', next', written', fault', content')
  BY <1>1, <1>5, <1>9, <1>10, <1>13 DEF AllOK
<1> QED
  BY <1>5, <1>14, Same, BrkSame, Next1
-----------------------------------------------------------------------------
LEMMA StepSafe ==
  ASSUME MemInv, StoreFlag = "w", ~ProtectShared, [memNext]_memVars
  PROVE  MemInv'
<1>1. ASSUME NEW p \in Procs,
             \/ sys_brk(p) \/ sys_mmap(p) \/ sys_mmap_fixed(p) \/ sys_munmap(p) \/ sys_mprotect(p)
             \/ fork(p) \/ elf_exec(p) \/ exit(p)
             \/ Store(p) \/ cow_realloc_missed_page(p) \/ CopyPage(p) \/ cow_free_tmp_page(p)
      PROVE  MemInv'
  BY <1>1, BrkSafe, MmapSafe, MmapFixedSafe, MunmapSafe, ProtectSafe, ForkSafe, ExecSafe, ExitSafe,
     StoreSafe, FaultSafe, CopySafe, FreeTmpSafe
<1>2. CASE UNCHANGED memVars
  BY <1>2 DEF memVars, MemInv, BoundsOK
<1> QED
  BY <1>1, <1>2 DEF memNext

LEMMA AlwaysMemInv == StoreFlag = "w" /\ ~ProtectShared => (memSpec => []MemInv)
<1> SUFFICES ASSUME StoreFlag = "w", ~ProtectShared PROVE memSpec => []MemInv
  OBVIOUS
<1>1. memInit => MemInv
  BY InitSafe
<1>2. MemInv /\ [memNext]_memVars => MemInv'
  BY StepSafe
<1> QED
  BY <1>1, <1>2, PTL DEF memSpec

\* A process finds in its private pages what it wrote or was forked with, when a CPU asks for the
\* flag of a store (as pipeline5 does), and mprotect does not make a shared page writable.
THEOREM IsolationHolds == StoreFlag = "w" /\ ~ProtectShared => (memSpec => []Isolated)
<1>1. MemInv => Isolated
  <2> SUFFICES ASSUME MemInv, NEW p \in Live, NEW v \in DOMAIN written[p]
               PROVE  \/ "share" \in pgtable[p][v].flg
                      \/ v = fault[p].missed /\ ~fault[p].copied
                      \/ content[pgtable[p][v].ppi] = written[p][v]
    BY DEF Isolated
  <2>1. Finds(pgtable[p], written[p], fault[p], content)
    BY DEF MemInv, ContentsOK, Live
  <2> QED
    BY <2>1 DEF Finds, Pending
<1> QED
  BY <1>1, AlwaysMemInv, PTL
-----------------------------------------------------------------------------
(* The three records of a page agree.  The strengthening: the table of a process has its
   heap below brk, what its segments list, and the temporary page while it copies one; so
   no page is mapped where there is one already, and none is lost to the count. *)

Mapping == [vpi : Nat, cnt : Nat \ {0}]
Top(s) == s.vpi + s.cnt
Inside(x, s) == s.vpi <= x /\ x < Top(s)
Listed(x, ss) == \E k \in DOMAIN ss : Inside(x, ss[k])
FromHigh(ss) == \A j, k \in DOMAIN ss : j < k => Top(ss[k]) <= ss[j].vpi

\* Of a process with segments ss, heap end b, fault f, and pages D in its table.
SegsOK(ss, D) ==
  /\ ss \in Seq(Mapping) /\ FromHigh(ss)
  /\ \A x \in Nat : Listed(x, ss) <=> x \in D /\ HeapTop < x /\ x < MmapTop
HeapOK(b, D) ==
  /\ b \in Nat /\ 0 \notin D
  /\ \A v \in 1 .. HeapTop : v \in D <=> v < PageUp(b)
  /\ D # {} => b >= 1
TmpOK(f, D) ==
  IF f = NoFault THEN D \subseteq Ordinary
  ELSE f \in [missed : Ordinary, tmp : {Tmp}, copied : BOOLEAN] /\ Tmp \in D
ProcOK(ss, b, f, D) == SegsOK(ss, D) /\ HeapOK(b, D) /\ TmpOK(f, D)

AccountInv ==
  /\ next \in 1 .. NumPages + 1
  /\ DOMAIN segs = Procs /\ DOMAIN brk = Procs /\ DOMAIN fault = Procs
  /\ TablesOK(pgtable, next) /\ Exact(pgtable, refs, next)
  /\ \A p \in Procs : ProcOK(segs[p], brk[p], fault[p], DOMAIN pgtable[p])

LEMMA MappingFields ==
  \A s \in Mapping : s.vpi \in Nat /\ s.cnt \in Nat \ {0} /\ Top(s) = s.vpi + s.cnt
BY DEF Mapping, Top

\* What is left of a segment: its pages out of the way, from high to low.
LEMMA CutLeaves ==
  ASSUME NEW s \in Mapping, NEW v \in Nat, NEW e \in Nat, v < e
  PROVE  /\ Cut(s, v, e) \in Seq(Mapping) /\ FromHigh(Cut(s, v, e))
         /\ \A k \in DOMAIN Cut(s, v, e) : s.vpi <= Cut(s, v, e)[k].vpi /\ Top(Cut(s, v, e)[k]) <= Top(s)
         /\ \A x \in Nat : Listed(x, Cut(s, v, e)) <=> Inside(x, s) /\ ~(v <= x /\ x < e)
<1> DEFINE a == s.vpi
           b == Top(s)
           high == [vpi |-> e, cnt |-> s.vpi + s.cnt - e]
           low == [vpi |-> s.vpi, cnt |-> v - s.vpi]
           left == Cut(s, v, e)
<1>1. a \in Nat /\ b \in Nat /\ a < b /\ b = s.vpi + s.cnt
  BY MappingFields
<1>2. left = IF s.vpi >= e \/ s.vpi + s.cnt <= v THEN <<s>>
             ELSE (IF e < s.vpi + s.cnt THEN <<high>> ELSE <<>>) \o (IF v > s.vpi THEN <<low>> ELSE <<>>)
  BY DEF Cut
<1>3. ASSUME e < b PROVE high \in Mapping /\ high.vpi = e /\ Top(high) = b
  BY <1>1, <1>3 DEF Mapping, Top
<1>4. ASSUME a < v PROVE low \in Mapping /\ low.vpi = a /\ Top(low) = v
  BY <1>1, <1>4 DEF Mapping, Top
<1> HIDE DEF high, low
<1>5. CASE a >= e \/ b <= v
  <2>1. left = <<s>> /\ left \in Seq(Mapping) /\ DOMAIN left = {1} /\ left[1] = s
    BY <1>1, <1>2, <1>5
  <2> HIDE DEF left
  <2>2. \A x \in Nat : Listed(x, left) <=> Inside(x, s)
    BY <2>1 DEF Listed
  <2>3. \A x \in Nat : Inside(x, s) => ~(v <= x /\ x < e)
    BY <1>1, <1>5 DEF Inside
  <2>4. FromHigh(left)
    BY <2>1 DEF FromHigh
  <2> QED BY <1>1, <2>1, <2>2, <2>3, <2>4 DEF left
<1>6. CASE ~(a >= e \/ b <= v) /\ e < b /\ a < v
  <2>1. left = <<high>> \o <<low>>
    BY <1>1, <1>2, <1>6
  <2> DEFINE f == <<high>>
             g == <<low>>
  <2>2. f \in Seq(Mapping) /\ g \in Seq(Mapping) /\ Len(f) = 1 /\ Len(g) = 1 /\ f[1] = high /\ g[1] = low
    BY <1>3, <1>4, <1>6
  <2>3. left \in Seq(Mapping) /\ DOMAIN left = {1, 2} /\ left[1] = high /\ left[2] = low
    <3>1. left = f \o g
      BY <2>1
    <3> HIDE DEF f, g, left
    <3>2. /\ f \o g \in Seq(Mapping) /\ Len(f \o g) = Len(f) + Len(g)
          /\ \A i \in 1 .. Len(f) + Len(g) : (f \o g)[i] = IF i <= Len(f) THEN f[i] ELSE g[i - Len(f)]
      BY <2>2, ConcatProperties
    <3>3. 1 \in 1 .. Len(f) + Len(g) /\ 2 \in 1 .. Len(f) + Len(g) /\ 1 <= Len(f) /\ ~(2 <= Len(f)) /\ 2 - Len(f) = 1
          /\ Len(f) + Len(g) = 2
      BY <2>2
    <3>4. (f \o g)[1] = f[1] /\ (f \o g)[2] = g[1]
      BY <3>2, <3>3
    <3>5. DOMAIN (f \o g) = {1, 2}
      BY <3>2, <3>3
    <3> QED BY <2>2, <3>1, <3>2, <3>4, <3>5
  <2> HIDE DEF left
  <2>4. \A x \in Nat : Listed(x, left) <=> Inside(x, high) \/ Inside(x, low)
    BY <2>3 DEF Listed
  <2>5. \A x \in Nat : Inside(x, high) \/ Inside(x, low) <=> Inside(x, s) /\ ~(v <= x /\ x < e)
    <3> SUFFICES ASSUME NEW x \in Nat
                 PROVE  Inside(x, high) \/ Inside(x, low) <=> Inside(x, s) /\ ~(v <= x /\ x < e)
      OBVIOUS
    <3>1. Inside(x, high) <=> e <= x /\ x < b
      BY <1>3, <1>6 DEF Inside
    <3>2. Inside(x, low) <=> a <= x /\ x < v
      BY <1>4, <1>6 DEF Inside
    <3>3. Inside(x, s) <=> a <= x /\ x < b
      BY DEF Inside
    <3> HIDE DEF a, b
    <3> QED BY <1>1, <1>6, <3>1, <3>2, <3>3
  <2>6. FromHigh(left)
    BY <1>1, <1>3, <1>4, <1>6, <2>3 DEF FromHigh
  <2>7. \A k \in DOMAIN left : a <= left[k].vpi /\ Top(left[k]) <= b
    BY <1>1, <1>3, <1>4, <1>6, <2>3
  <2> QED BY <2>3, <2>4, <2>5, <2>6, <2>7 DEF left
<1>7. CASE ~(a >= e \/ b <= v) /\ e < b /\ ~(a < v)
  <2>1. left = <<high>> \o <<>>
    BY <1>1, <1>2, <1>7
  <2>2. left = <<high>>
    BY <2>1
  <2>3. left \in Seq(Mapping) /\ DOMAIN left = {1} /\ left[1] = high
    BY <1>3, <1>7, <2>2
  <2> HIDE DEF left
  <2>4. \A x \in Nat : Listed(x, left) <=> Inside(x, high)
    BY <2>3 DEF Listed
  <2>5. \A x \in Nat : Inside(x, high) <=> Inside(x, s) /\ ~(v <= x /\ x < e)
    <3> SUFFICES ASSUME NEW x \in Nat
                 PROVE  Inside(x, high) <=> Inside(x, s) /\ ~(v <= x /\ x < e)
      OBVIOUS
    <3>1. Inside(x, high) <=> e <= x /\ x < b
      BY <1>3, <1>7 DEF Inside
    <3>3. Inside(x, s) <=> a <= x /\ x < b
      BY DEF Inside
    <3> HIDE DEF a, b
    <3> QED BY <1>1, <1>7, <3>1, <3>3
  <2>6. FromHigh(left)
    BY <2>3 DEF FromHigh
  <2>7. \A k \in DOMAIN left : a <= left[k].vpi /\ Top(left[k]) <= b
    BY <1>1, <1>3, <1>7, <2>3
  <2> QED BY <2>3, <2>4, <2>5, <2>6, <2>7 DEF left
<1>8. CASE ~(a >= e \/ b <= v) /\ ~(e < b) /\ a < v
  <2>1. left = <<>> \o <<low>>
    BY <1>1, <1>2, <1>8
  <2>2. left = <<low>>
    BY <2>1
  <2>3. left \in Seq(Mapping) /\ DOMAIN left = {1} /\ left[1] = low
    BY <1>4, <1>8, <2>2
  <2> HIDE DEF left
  <2>4. \A x \in Nat : Listed(x, left) <=> Inside(x, low)
    BY <2>3 DEF Listed
  <2>5. \A x \in Nat : Inside(x, low) <=> Inside(x, s) /\ ~(v <= x /\ x < e)
    <3> SUFFICES ASSUME NEW x \in Nat
                 PROVE  Inside(x, low) <=> Inside(x, s) /\ ~(v <= x /\ x < e)
      OBVIOUS
    <3>2. Inside(x, low) <=> a <= x /\ x < v
      BY <1>4, <1>8 DEF Inside
    <3>3. Inside(x, s) <=> a <= x /\ x < b
      BY DEF Inside
    <3> HIDE DEF a, b
    <3> QED BY <1>1, <1>8, <3>2, <3>3
  <2>6. FromHigh(left)
    BY <2>3 DEF FromHigh
  <2>7. \A k \in DOMAIN left : a <= left[k].vpi /\ Top(left[k]) <= b
    BY <1>1, <1>4, <1>8, <2>3
  <2> QED BY <2>3, <2>4, <2>5, <2>6, <2>7 DEF left
<1>9. CASE ~(a >= e \/ b <= v) /\ ~(e < b) /\ ~(a < v)
  <2>1. left = <<>> \o <<>>
    BY <1>1, <1>2, <1>9
  <2>2. left = <<>> /\ left \in Seq(Mapping) /\ DOMAIN left = {}
    BY <2>1
  <2> HIDE DEF left
  <2>3. \A x \in Nat : ~Listed(x, left)
    BY <2>2 DEF Listed
  <2>4. \A x \in Nat : ~(Inside(x, s) /\ ~(v <= x /\ x < e))
    BY <1>1, <1>9 DEF Inside
  <2>5. FromHigh(left)
    BY <2>2 DEF FromHigh
  <2> QED BY <2>2, <2>3, <2>4, <2>5 DEF left
<1> QED BY <1>1, <1>5, <1>6, <1>7, <1>8, <1>9

\* Lists of lists are joined one by one.
FlattensBy(ls, g) ==
  g[1] = ls[1] /\ g[Len(ls)] = FlattenSeq(ls) /\ \A k \in 2 .. Len(ls) : g[k] = g[k - 1] \o ls[k]
LEMMA FlattenedOneByOne ==
  ASSUME NEW ls, Len(ls) \in Nat \ {0}
  PROVE  \E g : FlattensBy(ls, g)
<1> DEFINE W(x, k) == x \o ls[k]
           Path(m, f) == f = [k \in 1 .. m |-> IF k = 1 THEN ls[k] ELSE W(f[k - 1], k)]
           S == {m \in Nat : \E f : Path(m + 1, f)}
<1>1. FlattenSeq(ls) = (CHOOSE f : Path(Len(ls), f))[Len(ls)]
  BY DEF FlattenSeq
<1> HIDE DEF W
<1>2. 0 \in S
  <2> DEFINE f == [k \in 1 .. 1 |-> ls[1]]
  <2>1. Path(1, f)
    OBVIOUS
  <2>2. 0 + 1 = 1
    OBVIOUS
  <2> HIDE DEF Path, f
  <2> QED BY <2>1, <2>2
<1>3. ASSUME NEW i \in Nat, i \in S PROVE i + 1 \in S
  <2> DEFINE m == i + 1
  <2>a. m \in Nat \ {0}
    OBVIOUS
  <2>1. PICK f : Path(m, f)
    BY <1>3
  <2> DEFINE h == [k \in 1 .. m + 1 |-> IF k = m + 1 THEN W(f[m], k) ELSE f[k]]
  <2> HIDE DEF m
  <2>2. \A k \in 1 .. m : h[k] = f[k]
    BY <2>a
  <2>3. ASSUME NEW k \in 1 .. m + 1
        PROVE  h[k] = IF k = 1 THEN ls[k] ELSE W(h[k - 1], k)
    <3>1. CASE k = 1
      <4>1. f[1] = ls[1] /\ 1 \in 1 .. m
        BY <2>a, <2>1
      <4>2. h[1] = f[1]
        BY <2>2, <4>1
      <4> QED BY <3>1, <4>1, <4>2
    <3>2. CASE k \in 2 .. m
      <4>1. f[k] = W(f[k - 1], k)
        BY <2>a, <2>1, <3>2
      <4>2. h[k - 1] = f[k - 1] /\ h[k] = f[k]
        BY <2>a, <2>2, <3>2
      <4> QED BY <3>2, <4>1, <4>2
    <3>3. CASE k = m + 1
      <4>1. h[m] = f[m] /\ h[k] = W(f[m], k) /\ k # 1 /\ k - 1 = m
        BY <2>a, <2>2, <3>3
      <4> QED BY <4>1
    <3> QED BY <2>a, <3>1, <3>2, <3>3
  <2>4. Path(m + 1, h)
    <3>1. h = [k \in 1 .. m + 1 |-> h[k]]
      OBVIOUS
    <3> HIDE DEF h
    <3>2. [k \in 1 .. m + 1 |-> h[k]] = [k \in 1 .. m + 1 |-> IF k = 1 THEN ls[k] ELSE W(h[k - 1], k)]
      BY <2>3
    <3> QED BY <3>1, <3>2
  <2> HIDE DEF Path
  <2> QED BY <2>4 DEF m
<1> HIDE DEF Path
<1>4. \E f : Path(Len(ls), f)
  <2>1. Len(ls) - 1 \in Nat /\ Len(ls) - 1 + 1 = Len(ls)
    OBVIOUS
  <2>2. Len(ls) - 1 \in S
    <3> HIDE DEF S
    <3> QED BY <1>2, <1>3, <2>1, AllNumbers
  <2> QED BY <2>1, <2>2
<1> DEFINE g == CHOOSE f : Path(Len(ls), f)
<1>5. Path(Len(ls), g)
  BY <1>4
<1>6. g[1] = ls[1] /\ \A k \in 2 .. Len(ls) : g[k] = W(g[k - 1], k)
  <2> HIDE DEF g
  <2>1. g = [k \in 1 .. Len(ls) |-> IF k = 1 THEN ls[k] ELSE W(g[k - 1], k)]
    BY <1>5 DEF Path
  <2> QED BY <2>1
<1>7. g[Len(ls)] = FlattenSeq(ls)
  BY <1>1
<1> HIDE DEF g
<1> QED BY <1>6, <1>7 DEF W, FlattensBy

\* What free_mmap has made of the first k segments of ss.
FreedTo(out, ss, k, v, e) ==
  /\ out \in Seq(Mapping) /\ FromHigh(out)
  /\ \A i \in DOMAIN out : ss[k].vpi <= out[i].vpi
  /\ \A x \in Nat : Listed(x, out) <=> (\E j \in 1 .. k : Inside(x, ss[j])) /\ ~(v <= x /\ x < e)

LEMMA FreesOne ==
  ASSUME NEW ss \in Seq(Mapping), FromHigh(ss), NEW k \in 2 .. Len(ss), NEW v \in Nat, NEW e \in Nat, v < e,
         NEW out, FreedTo(out, ss, k - 1, v, e)
  PROVE  FreedTo(out \o Cut(ss[k], v, e), ss, k, v, e)
<1> DEFINE s == ss[k]
           left == Cut(s, v, e)
           n == Len(out)
           m == Len(left)
           new == out \o left
<1>1. s \in Mapping /\ s.vpi \in Nat /\ Top(s) \in Nat /\ s.vpi < Top(s) /\ k \in Nat /\ k - 1 \in DOMAIN ss
  <2>1. s \in Mapping /\ k \in Nat /\ k - 1 \in DOMAIN ss
    OBVIOUS
  <2> HIDE DEF s
  <2> QED BY SMTT(30), <2>1, MappingFields
<1>2. /\ left \in Seq(Mapping) /\ FromHigh(left) /\ m \in Nat /\ DOMAIN left = 1 .. m
      /\ \A i \in 1 .. m : s.vpi <= left[i].vpi /\ Top(left[i]) <= Top(s)
      /\ \A x \in Nat : Listed(x, left) <=> Inside(x, s) /\ ~(v <= x /\ x < e)
  <2>1. /\ left \in Seq(Mapping) /\ FromHigh(left)
        /\ \A i \in DOMAIN left : s.vpi <= left[i].vpi /\ Top(left[i]) <= Top(s)
        /\ \A x \in Nat : Listed(x, left) <=> Inside(x, s) /\ ~(v <= x /\ x < e)
    <3> HIDE DEF left, s
    <3> QED BY <1>1, CutLeaves DEF left
  <2> HIDE DEF left
  <2> QED BY <2>1
<1>3. /\ out \in Seq(Mapping) /\ FromHigh(out) /\ n \in Nat /\ DOMAIN out = 1 .. n
      /\ \A i \in 1 .. n : ss[k - 1].vpi <= out[i].vpi
      /\ \A x \in Nat : Listed(x, out) <=> (\E j \in 1 .. k - 1 : Inside(x, ss[j])) /\ ~(v <= x /\ x < e)
  <2>1. out \in Seq(Mapping)
    BY DEF FreedTo
  <2>2. n \in Nat /\ DOMAIN out = 1 .. n
    BY <2>1
  <2> HIDE DEF n
  <2> QED BY <2>1, <2>2 DEF FreedTo
<1>4. Top(s) <= ss[k - 1].vpi /\ ss[k - 1].vpi \in Nat
  <2>1. k - 1 < k /\ k \in DOMAIN ss /\ ss[k - 1] \in Mapping
    BY <1>1
  <2> QED BY <1>1, <2>1, MappingFields DEF FromHigh
<1>5. \A x \in Nat : (\E j \in 1 .. k : Inside(x, ss[j])) <=> (\E j \in 1 .. k - 1 : Inside(x, ss[j])) \/ Inside(x, s)
  <2>1. 1 .. k = (1 .. k - 1) \cup {k}
    BY <1>1
  <2> QED BY <2>1, Zenon
<1> HIDE DEF s, left, n, m
<1>a. n \in Nat /\ m \in Nat
  BY <1>2, <1>3
<1>6. /\ new \in Seq(Mapping) /\ DOMAIN new = 1 .. n + m
      /\ \A i \in 1 .. n : new[i] = out[i]
      /\ \A j \in 1 .. m : new[n + j] = left[j]
      /\ \A i \in n + 1 .. n + m : new[i] = left[i - n]
  <2>1. /\ new \in Seq(Mapping) /\ Len(new) = n + m
        /\ \A i \in 1 .. n + m : new[i] = IF i <= n THEN out[i] ELSE left[i - n]
    BY <1>2, <1>3, ConcatProperties DEF n, m
  <2> HIDE DEF new
  <2>2. DOMAIN new = 1 .. n + m
    BY <2>1
  <2>3. ASSUME NEW j \in 1 .. m PROVE new[n + j] = left[j]
    <3> DEFINE i == n + j
    <3>1. i \in 1 .. n + m /\ ~(i <= n) /\ i - n = j
      BY <1>a
    <3> HIDE DEF i
    <3>2. new[i] = left[i - n]
      BY <2>1, <3>1
    <3> QED BY <3>1, <3>2 DEF i
  <2>4. ASSUME NEW i \in 1 .. n PROVE new[i] = out[i]
    <3>1. i \in 1 .. n + m /\ i <= n
      BY <1>a
    <3> QED BY <2>1, <3>1
  <2>5. ASSUME NEW i \in n + 1 .. n + m PROVE new[i] = left[i - n]
    <3>1. i \in 1 .. n + m /\ ~(i <= n)
      BY <1>a
    <3> QED BY <2>1, <3>1
  <2> QED BY <2>1, <2>2, <2>3, <2>4, <2>5
<1> HIDE DEF new
<1>7. FromHigh(new)
  <2> SUFFICES ASSUME NEW i \in 1 .. n + m, NEW j \in 1 .. n + m, i < j PROVE Top(new[j]) <= new[i].vpi
    BY <1>6 DEF FromHigh
  <2>1. CASE j <= n
    <3>1. i \in DOMAIN out /\ j \in DOMAIN out /\ new[i] = out[i] /\ new[j] = out[j]
      BY <1>3, <1>6, <2>1
    <3> QED BY <1>3, <3>1 DEF FromHigh
  <2>2. CASE i > n
    <3>1. i - n \in DOMAIN left /\ j - n \in DOMAIN left /\ new[i] = left[i - n] /\ new[j] = left[j - n] /\ i - n < j - n
      <4>1. /\ i - n \in 1 .. m /\ j - n \in 1 .. m /\ i - n < j - n
            /\ i \in n + 1 .. n + m /\ j \in n + 1 .. n + m
        BY <1>a, <2>2
      <4> QED BY <1>2, <1>6, <4>1
    <3> QED BY <1>2, <3>1 DEF FromHigh
  <2>3. CASE i <= n /\ j > n
    <3>1. i \in 1 .. n /\ j - n \in 1 .. m /\ new[i] = out[i] /\ new[j] = left[j - n]
      BY <1>2, <1>3, <1>6, <2>3
    <3>2. Top(new[j]) <= Top(s) /\ ss[k - 1].vpi <= new[i].vpi
      BY <1>2, <1>3, <3>1
    <3>3. new[i] \in Mapping /\ new[j] \in Mapping
      <4>1. i \in DOMAIN new /\ j \in DOMAIN new /\ new \in Seq(Mapping)
        BY <1>6
      <4> QED BY ONLY <4>1
    <3>4. new[i].vpi \in Nat /\ Top(new[j]) \in Nat
      <4> HIDE DEF new
      <4>1. \A u \in Mapping : u.vpi \in Nat /\ Top(u) \in Nat
        BY SMTT(30), MappingFields
      <4> QED BY <3>3, <4>1
    <3> QED BY SMTT(30), <1>1, <1>4, <3>2, <3>4
  <2> QED BY <1>2, <1>3, <2>1, <2>2, <2>3
<1>8. \A i \in DOMAIN new : s.vpi <= new[i].vpi
  <2> SUFFICES ASSUME NEW i \in 1 .. n + m PROVE s.vpi <= new[i].vpi
    BY <1>6
  <2>1. CASE i <= n
    <3>1. ss[k - 1].vpi <= new[i].vpi /\ new[i] \in Mapping
      BY SMTT(30), <1>2, <1>3, <1>6, <2>1
    <3> QED BY <1>1, <1>4, <3>1, MappingFields
  <2>2. CASE i > n
    <3>1. i - n \in 1 .. m /\ new[i] = left[i - n]
      BY <1>2, <1>3, <1>6, <2>2
    <3> QED BY <1>2, <3>1
  <2> QED BY <1>2, <1>3, <2>1, <2>2
<1>9. ASSUME NEW x \in Nat PROVE Listed(x, new) <=> Listed(x, out) \/ Listed(x, left)
  <2>1. ASSUME NEW i \in 1 .. n + m, Inside(x, new[i]) PROVE Listed(x, out) \/ Listed(x, left)
    <3>1. (i \in DOMAIN out /\ new[i] = out[i]) \/ (i - n \in DOMAIN left /\ new[i] = left[i - n])
      <4>1. DOMAIN out = 1 .. n /\ DOMAIN left = 1 .. m /\ n \in Nat /\ m \in Nat
        BY <1>2, <1>3
      <4>2. new[i] = IF i <= n THEN out[i] ELSE left[i - n]
        BY <1>6, <4>1
      <4> HIDE DEF new, n, m, left
      <4> QED BY <4>1, <4>2
    <3> QED BY <2>1, <3>1 DEF Listed
  <2>2. ASSUME NEW i \in 1 .. n, Inside(x, out[i]) PROVE \E j \in 1 .. n + m : Inside(x, new[j])
    <3>1. i \in 1 .. n + m /\ new[i] = out[i]
      BY <1>2, <1>3, <1>6
    <3> QED BY <2>2, <3>1
  <2>3. ASSUME NEW i \in 1 .. m, Inside(x, left[i]) PROVE \E j \in 1 .. n + m : Inside(x, new[j])
    <3>1. n + i \in 1 .. n + m /\ new[n + i] = left[i]
      <4>1. i \in 1 .. m
        OBVIOUS
      <4>2. n + i \in 1 .. n + m
        BY ONLY <1>a, <4>1
      <4> QED BY <1>6, <4>1, <4>2
    <3> QED BY <2>3, <3>1
  <2> QED BY <1>2, <1>3, <1>6, <2>1, <2>2, <2>3 DEF Listed
<1>10. \A x \in Nat : Listed(x, new) <=> (\E j \in 1 .. k : Inside(x, ss[j])) /\ ~(v <= x /\ x < e)
  BY <1>2, <1>3, <1>5, <1>9
<1> QED BY <1>6, <1>7, <1>8, <1>10 DEF FreedTo, new, left, s

\* free_mmap takes the pages from v to e out of the segments, and no others.
LEMMA FreeSegsFrees ==
  ASSUME NEW ss \in Seq(Mapping), FromHigh(ss), NEW v \in Nat, NEW n \in Nat \ {0}
  PROVE  /\ FreeSegs(ss, v, n) \in Seq(Mapping) /\ FromHigh(FreeSegs(ss, v, n))
         /\ \A x \in Nat : Listed(x, FreeSegs(ss, v, n)) <=> Listed(x, ss) /\ ~(v <= x /\ x < v + n)
<1> DEFINE m == Len(ss)
           e == v + n
           ls == [k \in DOMAIN ss |-> Cut(ss[k], v, e)]
<1>1. m \in Nat /\ DOMAIN ss = 1 .. m /\ e \in Nat /\ v < e /\ \A k \in 1 .. m : ss[k] \in Mapping
  OBVIOUS
<1>2. FreeSegs(ss, v, n) = FlattenSeq(ls)
  BY DEF FreeSegs
<1>3. Len(ls) = m /\ \A k \in 1 .. m : ls[k] = Cut(ss[k], v, e)
  <2> HIDE DEF m
  <2>1. ls = [k \in 1 .. m |-> Cut(ss[k], v, e)]
    BY <1>1
  <2>2. DOMAIN ls = 1 .. m
    BY <2>1
  <2> QED BY <1>1, <2>1, <2>2
<1>4. CASE m = 0
  <2>1. FlattenSeq(ls) = ls /\ ls = <<>>
    <3>1. DOMAIN ls = {}
      BY <1>1, <1>4
    <3>2. ls = <<>>
      BY <3>1
    <3> HIDE DEF ls, m
    <3> QED BY <1>3, <1>4, <3>2 DEF FlattenSeq
  <2>2. DOMAIN <<>> = {} /\ <<>> \in Seq(Mapping)
    OBVIOUS
  <2>3. \A x \in Nat : ~Listed(x, ss)
    BY <1>1, <1>4 DEF Listed
  <2> HIDE DEF ls, m
  <2> QED BY <1>2, <2>1, <2>2, <2>3 DEF FromHigh, Listed
<1>5. CASE m # 0
  <2>1. Len(ls) \in Nat \ {0}
    BY <1>1, <1>3, <1>5
  <2> HIDE DEF ls, e, m
  <2>2. PICK g : FlattensBy(ls, g)
    BY <2>1, FlattenedOneByOne
  <2> DEFINE S == {k \in Nat : k + 1 <= m => FreedTo(g[k + 1], ss, k + 1, v, e)}
  <2>3. 0 \in S
    <3>1. g[1] = Cut(ss[1], v, e) /\ ss[1] \in Mapping /\ 0 + 1 = 1
      BY <1>1, <1>3, <1>5, <2>2 DEF FlattensBy
    <3>2. /\ g[1] \in Seq(Mapping) /\ FromHigh(g[1])
          /\ \A i \in DOMAIN g[1] : ss[1].vpi <= g[1][i].vpi
          /\ \A x \in Nat : Listed(x, g[1]) <=> Inside(x, ss[1]) /\ ~(v <= x /\ x < e)
      BY <1>1, <3>1, CutLeaves
    <3>3. \A x \in Nat : (\E j \in 1 .. 1 : Inside(x, ss[j])) <=> Inside(x, ss[1])
      <4>1. 1 .. 1 = {1}
        OBVIOUS
      <4> QED BY <4>1
    <3>4. FreedTo(g[1], ss, 1, v, e)
      BY <3>2, <3>3 DEF FreedTo
    <3> QED BY <3>1, <3>4
  <2>4. ASSUME NEW k \in Nat, k \in S PROVE k + 1 \in S
    <3> SUFFICES ASSUME k + 1 + 1 <= m PROVE FreedTo(g[k + 1 + 1], ss, k + 1 + 1, v, e)
      OBVIOUS
    <3> DEFINE j == k + 1 + 1
    <3>1. j \in 2 .. m /\ j \in 1 .. m /\ j - 1 = k + 1 /\ k + 1 <= m
      BY <1>1
    <3>2. FreedTo(g[k + 1], ss, k + 1, v, e)
      BY <2>4, <3>1
    <3> HIDE DEF j
    <3>3. g[j] = g[j - 1] \o Cut(ss[j], v, e)
      BY <1>3, <2>2, <3>1 DEF FlattensBy
    <3>4. FreedTo(g[j - 1], ss, j - 1, v, e)
      BY <3>1, <3>2
    <3>5. FreedTo(g[j - 1] \o Cut(ss[j], v, e), ss, j, v, e)
      BY <1>1, <3>1, <3>4, FreesOne DEF m
    <3>6. FreedTo(g[j], ss, j, v, e)
      BY <3>3, <3>5
    <3> QED BY <3>6 DEF j
  <2>5. m - 1 \in S /\ m - 1 + 1 = m
    <3>1. m - 1 \in Nat /\ m - 1 + 1 = m
      BY <1>1, <1>5
    <3> HIDE DEF S
    <3> QED BY <2>3, <2>4, <3>1, AllNumbers
  <2>6. FreedTo(g[m], ss, m, v, e)
    BY <1>1, <2>5
  <2>7. g[m] = FreeSegs(ss, v, n)
    BY <1>2, <1>3, <2>2 DEF FlattensBy
  <2> QED BY <1>1, <2>6, <2>7 DEF FreedTo, Listed, e
<1> QED BY <1>4, <1>5

\* A segment put between those that are higher and those that are lower.
LEMMA SegsGain ==
  ASSUME NEW ss \in Seq(Mapping), FromHigh(ss), NEW s \in Mapping, NEW k \in 1 .. Len(ss) + 1,
         \A j \in 1 .. k - 1 : Top(s) <= ss[j].vpi,
         \A j \in k .. Len(ss) : Top(ss[j]) <= s.vpi
  PROVE  /\ InsertAt(ss, k, s) \in Seq(Mapping) /\ FromHigh(InsertAt(ss, k, s))
         /\ \A x \in Nat : Listed(x, InsertAt(ss, k, s)) <=> Listed(x, ss) \/ Inside(x, s)
<1> DEFINE m == Len(ss)
           new == InsertAt(ss, k, s)
<1>1. m \in Nat /\ DOMAIN ss = 1 .. m /\ k \in 1 .. m + 1
  OBVIOUS
<1>2. /\ new \in Seq(Mapping) /\ Len(new) = m + 1 /\ new[k] = s
      /\ \A j \in 1 .. k - 1 : new[j] = ss[j]
      /\ \A j \in k + 1 .. m + 1 : new[j] = ss[j - 1]
  <2> HIDE DEF m
  <2>1. ASSUME NEW i \in 1 .. Len(ss) + 1
        PROVE  LET r == InsertAt(ss, i, s) IN
               /\ r \in Seq(Mapping) /\ Len(r) = Len(ss) + 1 /\ r[i] = s
               /\ \A j \in 1 .. i - 1 : r[j] = ss[j]
               /\ \A j \in i + 1 .. Len(ss) + 1 : r[j] = ss[j - 1]
    BY Inserted
  <2> QED BY <2>1 DEF m
<1> HIDE DEF new, m
<1>3. DOMAIN new = 1 .. m + 1
  BY <1>1, <1>2
<1>4. FromHigh(new)
  <2> SUFFICES ASSUME NEW i \in 1 .. m + 1, NEW j \in 1 .. m + 1, i < j PROVE Top(new[j]) <= new[i].vpi
    BY <1>3 DEF FromHigh
  <2>1. CASE i = k
    <3>1. j - 1 \in k .. m /\ j \in k + 1 .. m + 1
      BY <1>1, <2>1
    <3> QED BY <1>2, <2>1, <3>1 DEF m
  <2>2. CASE j = k
    <3>1. i \in 1 .. k - 1
      BY <1>1, <2>2
    <3> QED BY <1>2, <2>2, <3>1
  <2>3. CASE i # k /\ j # k
    <3> DEFINE p == IF i < k THEN i ELSE i - 1
               q == IF j < k THEN j ELSE j - 1
    <3>1. p \in 1 .. m /\ q \in 1 .. m /\ p < q /\ new[i] = ss[p] /\ new[j] = ss[q]
      BY <1>1, <1>2, <2>3
    <3> HIDE DEF p, q
    <3> QED BY <1>1, <3>1 DEF FromHigh
  <2> QED BY <2>1, <2>2, <2>3
<1>5. ASSUME NEW x \in Nat PROVE Listed(x, new) <=> Listed(x, ss) \/ Inside(x, s)
  <2>1. ASSUME NEW j \in 1 .. m + 1, Inside(x, new[j]) PROVE Listed(x, ss) \/ Inside(x, s)
    <3>1. j = k \/ (j \in 1 .. m /\ new[j] = ss[j]) \/ (j - 1 \in 1 .. m /\ new[j] = ss[j - 1])
      BY <1>1, <1>2
    <3> QED BY <1>1, <1>2, <2>1, <3>1 DEF Listed
  <2>2. ASSUME NEW j \in 1 .. m, Inside(x, ss[j]) PROVE \E i \in 1 .. m + 1 : Inside(x, new[i])
    <3>1. CASE j < k
      <4>1. j \in 1 .. k - 1 /\ j \in 1 .. m + 1
        BY <1>1, <3>1
      <4> QED BY <1>2, <2>2, <4>1
    <3>2. CASE ~(j < k)
      <4>1. j + 1 \in k + 1 .. m + 1 /\ j + 1 \in 1 .. m + 1 /\ j + 1 - 1 = j
        BY <1>1, <3>2
      <4>2. new[j + 1] = ss[j]
        BY <1>2, <4>1
      <4> QED BY <2>2, <4>1, <4>2
    <3> QED BY <3>1, <3>2
  <2>3. Inside(x, s) => \E i \in 1 .. m + 1 : Inside(x, new[i])
    BY <1>1, <1>2
  <2> QED BY <1>1, <1>3, <2>1, <2>2, <2>3 DEF Listed
<1> QED BY <1>2, <1>4, <1>5 DEF new

\* The one CHOOSE picks for the least is it.
LEMMA Least ==
  ASSUME NEW S, S \subseteq Nat, S # {}
  PROVE  LET m == CHOOSE j \in S : \A i \in S : j <= i IN m \in S /\ \A i \in S : m <= i
BY LeastNumber, Zenon

\* Where alloc_mmap puts n pages: under the segments before, above those behind.
LEMMA RoomFound ==
  ASSUME NEW ss \in Seq(Mapping), FromHigh(ss), NEW n \in Nat \ {0}
  PROVE  LET r == FindRoom(ss, n) IN
         /\ r.at \in 1 .. Len(ss) + 1 /\ r.vpi \in Int
         /\ \A j \in 1 .. r.at - 1 : r.vpi + n <= ss[j].vpi
         /\ \A j \in r.at .. Len(ss) : Top(ss[j]) <= r.vpi
<1> DEFINE m == Len(ss)
           above(k) == IF k = 1 THEN MmapTop ELSE ss[k - 1].vpi
           fits == {k \in 1 .. m : ss[k].vpi + ss[k].cnt + n <= above(k)}
           k == IF fits = {} THEN m + 1 ELSE CHOOSE j \in fits : \A i \in fits : j <= i
           r == FindRoom(ss, n)
<1>1. r.at = k /\ r.vpi = above(k) - n
  BY DEF FindRoom
<1>2. m \in Nat /\ DOMAIN ss = 1 .. m /\ MmapTop \in Nat
  BY MemAssumption
<1>3. \A j \in 1 .. m : /\ ss[j].vpi \in Nat /\ Top(ss[j]) \in Nat /\ ss[j].vpi < Top(ss[j])
                          /\ Top(ss[j]) = ss[j].vpi + ss[j].cnt
  <2>1. ASSUME NEW j \in 1 .. m PROVE ss[j] \in Mapping
    OBVIOUS
  <2> QED BY <2>1, MappingFields
<1>4. fits = {} => k = m + 1
  OBVIOUS
<1>5. fits # {} => k \in fits
  <2>1. fits \subseteq Nat
    OBVIOUS
  <2> HIDE DEF fits
  <2> QED BY <2>1, Least
<1>6. k \in 1 .. m + 1 /\ (k <= m => Top(ss[k]) + n <= above(k))
  <2>1. \A j \in fits : j \in 1 .. m /\ Top(ss[j]) + n <= above(j)
    BY <1>3
  <2> HIDE DEF fits, k, above, m
  <2>2. CASE fits = {}
    BY <1>2, <1>4, <2>2
  <2>3. CASE fits # {}
    BY <1>2, <1>5, <2>1, <2>3
  <2> QED BY <2>2, <2>3
<1> HIDE DEF k, fits, r, m
<1>7. above(k) \in Int /\ \A j \in 1 .. k - 1 : above(k) <= ss[j].vpi
  <2>1. CASE k = 1
    BY <1>2, <2>1
  <2>2. CASE k # 1
    <3>1. above(k) = ss[k - 1].vpi /\ k - 1 \in 1 .. m
      BY <1>2, <1>6, <2>2
    <3>2. ASSUME NEW j \in 1 .. k - 1 PROVE above(k) <= ss[j].vpi
      <4>1. CASE j = k - 1
        BY <1>3, <3>1, <4>1
      <4>2. CASE j < k - 1
        <5>1. j \in DOMAIN ss /\ k - 1 \in DOMAIN ss /\ j \in 1 .. m
          BY <1>2, <1>6, <3>1
        <5>2. Top(ss[k - 1]) <= ss[j].vpi
          BY <4>2, <5>1 DEF FromHigh
        <5> QED BY <1>3, <3>1, <5>1, <5>2
      <4> QED BY <1>6, <4>1, <4>2
    <3> QED BY <1>3, <3>1, <3>2
  <2> QED BY <2>1, <2>2
<1> HIDE DEF above
<1>8. ASSUME NEW j \in k .. m PROVE Top(ss[j]) <= above(k) - n
  <2>1. j \in 1 .. m /\ k \in 1 .. m /\ k <= m
    BY <1>2, <1>6
  <2>2. j # k => Top(ss[j]) <= ss[k].vpi
    <3>1. j # k => k < j
      BY <1>6
    <3> QED BY <1>2, <2>1, <3>1 DEF FromHigh
  <2> QED BY <1>3, <1>6, <1>7, <2>1, <2>2
<1>9. \A j \in 1 .. k - 1 : above(k) - n + n <= ss[j].vpi
  BY <1>7
<1> QED BY <1>1, <1>6, <1>7, <1>8, <1>9 DEF r, m

\* A mapping at a fixed place: above those segments it leaves that are under it.
PlaceFor(left, v) ==
  LET under == {k \in DOMAIN left : left[k].vpi + left[k].cnt <= v}
  IN  IF under = {} THEN Len(left) + 1 ELSE CHOOSE j \in under : \A i \in under : j <= i
LEMMA PlaceFound ==
  ASSUME NEW ss \in Seq(Mapping), FromHigh(ss), NEW v \in Nat, NEW n \in Nat \ {0},
         \A x \in Nat : Listed(x, ss) => ~(v <= x /\ x < v + n)
  PROVE  LET k == PlaceFor(ss, v) IN
         /\ k \in 1 .. Len(ss) + 1
         /\ \A j \in 1 .. k - 1 : v + n <= ss[j].vpi
         /\ \A j \in k .. Len(ss) : Top(ss[j]) <= v
<1> DEFINE m == Len(ss)
           under == {k \in DOMAIN ss : ss[k].vpi + ss[k].cnt <= v}
           k == PlaceFor(ss, v)
<1>2. m \in Nat /\ DOMAIN ss = 1 .. m
  OBVIOUS
<1>3. \A j \in 1 .. m : /\ ss[j].vpi \in Nat /\ Top(ss[j]) \in Nat /\ ss[j].vpi < Top(ss[j])
                          /\ Top(ss[j]) = ss[j].vpi + ss[j].cnt
  <2>1. ASSUME NEW j \in 1 .. m PROVE ss[j] \in Mapping
    OBVIOUS
  <2> QED BY <2>1, MappingFields
<1>4. under \subseteq Nat /\ \A j \in 1 .. m : j \in under <=> Top(ss[j]) <= v
  BY <1>2, <1>3
<1>5. k = IF under = {} THEN m + 1 ELSE CHOOSE j \in under : \A i \in under : j <= i
  BY DEF PlaceFor
<1>6. under # {} => k \in under /\ \A i \in under : k <= i
  <2> HIDE DEF under
  <2> QED BY ZenonT(60), <1>4, <1>5, Least
<1>7. k \in 1 .. m + 1 /\ (k <= m => k \in under)
  <2>1. under = {} => k = m + 1
    BY <1>5
  <2>2. under \subseteq 1 .. m
    BY <1>2
  <2> HIDE DEF under, k, m
  <2>3. CASE under = {}
    BY <1>2, <2>1, <2>3
  <2>4. CASE under # {}
    <3>1. k \in under
      BY <1>6, <2>4
    <3>2. k \in 1 .. m
      BY <2>2, <3>1
    <3> QED BY <1>2, <3>1, <3>2
  <2> QED BY <2>3, <2>4
<1> HIDE DEF k, under, m
<1>8. ASSUME NEW j \in 1 .. k - 1 PROVE v + n <= ss[j].vpi
  <2>1. j \in 1 .. m /\ Top(ss[j]) > v
    <3>1. j \in 1 .. m /\ j < k
      BY <1>2, <1>7
    <3>2. j \notin under
      BY <1>2, <1>6, <1>7, <3>1
    <3> QED BY <1>3, <1>4, <3>1, <3>2
  <2>2. SUFFICES ASSUME ss[j].vpi < v + n PROVE FALSE
    BY <1>3, <2>1
  <2> DEFINE x == IF ss[j].vpi <= v THEN v ELSE ss[j].vpi
  <2>3. x \in Nat /\ ss[j].vpi <= x /\ x < Top(ss[j]) /\ v <= x /\ x < v + n
    BY <1>3, <2>1, <2>2
  <2> HIDE DEF x
  <2>4. Listed(x, ss)
    BY <1>2, <2>1, <2>3 DEF Listed, Inside
  <2> QED BY <2>3, <2>4
<1>9. ASSUME NEW j \in k .. m PROVE Top(ss[j]) <= v
  <2>1. j \in 1 .. m /\ k \in 1 .. m
    BY <1>2, <1>7
  <2>2. Top(ss[k]) <= v
    BY <1>4, <1>7, <2>1
  <2>3. j # k => Top(ss[j]) <= ss[k].vpi
    <3>1. j # k => k < j
      BY <1>7
    <3> QED BY <1>2, <2>1, <3>1 DEF FromHigh
  <2> QED BY <1>3, <2>1, <2>2, <2>3
<1> QED BY <1>7, <1>8, <1>9 DEF k, m
-----------------------------------------------------------------------------
\* Only process p has changed.
OnlyOf(p) ==
  /\ DOMAIN segs' = Procs /\ DOMAIN brk' = Procs /\ DOMAIN fault' = Procs
  /\ \A r \in Procs \ {p} : /\ DOMAIN pgtable'[r] = DOMAIN pgtable[r]
                            /\ segs'[r] = segs[r] /\ brk'[r] = brk[r] /\ fault'[r] = fault[r]
LEMMA AccountStep ==
  ASSUME AccountInv, NEW p \in Procs, OnlyOf(p), next' \in 1 .. NumPages + 1,
         TablesOK(pgtable', next'), Exact(pgtable', refs', next'),
         ProcOK(segs'[p], brk'[p], fault'[p], DOMAIN pgtable'[p])
  PROVE  AccountInv'
<1>1. \A r \in Procs : ProcOK(segs'[r], brk'[r], fault'[r], DOMAIN pgtable'[r])
  BY DEF AccountInv, OnlyOf
<1> QED BY <1>1 DEF AccountInv, OnlyOf

LEMMA AccountNow ==
  ASSUME AccountInv
  PROVE  /\ next \in 1 .. NumPages + 1 /\ next \in Nat
         /\ DOMAIN segs = Procs /\ DOMAIN brk = Procs /\ DOMAIN fault = Procs /\ DOMAIN pgtable = Procs
         /\ TablesOK(pgtable, next) /\ Exact(pgtable, refs, next) /\ Counted(pgtable, refs, next)
         /\ \A p \in Procs : ProcOK(segs[p], brk[p], fault[p], DOMAIN pgtable[p])
BY MemAssumption DEF AccountInv, TablesOK, Exact

\* Process p has other pages D2 in place of D: its segments, heap and fault record may stay.
LEMMA SamePages ==
  ASSUME NEW ss, NEW D, SegsOK(ss, D), NEW D2, \A x \in Nat : HeapTop < x => (x \in D2 <=> x \in D)
  PROVE  SegsOK(ss, D2)
BY MemAssumption DEF SegsOK
LEMMA SameHeap ==
  ASSUME NEW b, NEW D, HeapOK(b, D), NEW D2, \A x \in 0 .. HeapTop : x \in D2 <=> x \in D, D # {}
  PROVE  HeapOK(b, D2)
<1>1. 0 \in 0 .. HeapTop /\ 1 .. HeapTop \subseteq 0 .. HeapTop
  BY MemAssumption
<1> QED BY <1>1 DEF HeapOK

\* What Maps does to the tables.
LEMMA MapsPages ==
  ASSUME DOMAIN pgtable = Procs, NEW p \in Procs, NEW tab, NEW rs, NEW ws, NEW vs, NEW flg,
         Maps(p, tab, rs, ws, vs, flg)
  PROVE  /\ DOMAIN pgtable'[p] = vs \cup DOMAIN tab /\ fault' = fault
         /\ \A r \in Procs \ {p} : pgtable'[r] = pgtable[r]
BY DEF Maps, Over, NewEntries

\* Pages vs of p go.
LEMMA DropsCount ==
  ASSUME AccountInv, NEW p \in Procs, NEW vs
  PROVE  LET tab == Without(pgtable[p], vs)
             T == [pgtable EXCEPT ![p] = tab]
             rs == Free(refs, Restrict(pgtable[p], vs \cap DOMAIN pgtable[p]))
         IN  /\ DOMAIN tab = DOMAIN pgtable[p] \ vs
             /\ Replaces(T, pgtable, p, tab)
             /\ TablesOK(T, next) /\ Counted(T, rs, next) /\ Exact(T, rs, next)
<1> DEFINE tab == Without(pgtable[p], vs)
           part == Restrict(pgtable[p], vs \cap DOMAIN pgtable[p])
           T == [pgtable EXCEPT ![p] = tab]
<1>1. DOMAIN tab = DOMAIN pgtable[p] \ vs /\ PartOf(tab, pgtable[p])
  BY DEF Without, Restrict, PartOf
<1>2. DOMAIN part = DOMAIN pgtable[p] \cap vs /\ PartOf(part, pgtable[p])
  BY DEF Restrict, PartOf
<1>3. Replaces(T, pgtable, p, tab)
  BY AccountNow DEF Replaces
<1>4. DOMAIN part = DOMAIN pgtable[p] \ DOMAIN tab
  BY <1>1, <1>2
<1> HIDE DEF tab, part, T
<1>5. /\ TablesOK(T, next) /\ Counted(T, Free(refs, part), next)
      /\ Exact(pgtable, refs, next) => Exact(T, Free(refs, part), next)
  BY <1>1, <1>2, <1>3, <1>4, AccountNow, Drops
<1> QED BY <1>1, <1>3, <1>5, AccountNow DEF tab, part, T

\* All pages of p go.
LEMMA DropsAll ==
  ASSUME AccountInv, NEW p \in Procs, NEW T, Replaces(T, pgtable, p, <<>>)
  PROVE  LET rs == Free(refs, pgtable[p])
         IN  TablesOK(T, next) /\ Counted(T, rs, next) /\ Exact(T, rs, next)
<1>1. PartOf(<<>>, pgtable[p]) /\ PartOf(pgtable[p], pgtable[p])
      /\ DOMAIN pgtable[p] = DOMAIN pgtable[p] \ DOMAIN <<>>
  BY DEF PartOf
<1>2. /\ TablesOK(T, next) /\ Counted(T, Free(refs, pgtable[p]), next)
      /\ Exact(pgtable, refs, next) => Exact(T, Free(refs, pgtable[p]), next)
  BY <1>1, AccountNow, Drops
<1> QED BY <1>2, AccountNow

\* Flags of an entry do not count.
LEMMA ReflagsCount ==
  ASSUME AccountInv, NEW p \in Procs, NEW v \in DOMAIN pgtable[p],
         NEW g \in SUBSET {"r", "w", "share", "cow"}, "cow" \in g => "share" \notin g,
         pgtable' = [pgtable EXCEPT ![p][v].flg = g]
  PROVE  /\ TablesOK(pgtable', next) /\ Exact(pgtable', refs, next)
         /\ \A r \in Procs : DOMAIN pgtable'[r] = DOMAIN pgtable[r]
<1> DEFINE t == pgtable[p]
           tab == [t EXCEPT ![v].flg = g]
<1>1. TableOK(t, next) /\ EntryOK(t[v], next)
  BY AccountNow DEF TablesOK, TableOK
<1>2. /\ DOMAIN tab = DOMAIN t /\ tab[v].ppi = t[v].ppi /\ EntryOK(tab[v], next)
      /\ \A u \in DOMAIN t \ {v} : tab[u] = t[u]
  BY <1>1 DEF EntryOK
<1>3. Replaces(pgtable', pgtable, p, tab) /\ pgtable'[p] = tab
  BY AccountNow DEF Replaces
<1> HIDE DEF tab
<1>4. TablesOK(pgtable', next)
  BY <1>1, <1>2, <1>3, AccountNow DEF TablesOK, TableOK, Replaces
<1>5. \A q : Users(pgtable', q) = Users(pgtable, q)
  <2>1. \A q : Own(tab, q) = Own(t, q)
    BY <1>2 DEF Own
  <2>2. \A q : \A r \in Procs : Own(pgtable'[r], q) = Own(pgtable[r], q)
    BY <1>3, <2>1 DEF Replaces
  <2> QED BY <2>2 DEF Users
<1>6. Exact(pgtable', refs, next)
  BY <1>5, AccountNow DEF Exact, Counted
<1>7. \A r \in Procs : DOMAIN pgtable'[r] = DOMAIN pgtable[r]
  BY <1>2, <1>3 DEF Replaces
<1> QED BY <1>4, <1>6, <1>7
-----------------------------------------------------------------------------
LEMMA BrkAccounts == ASSUME AccountInv, NEW p \in Procs, sys_brk(p) PROVE AccountInv'
<1> DEFINE D == DOMAIN pgtable[p]
           vs(b) == PageUp(brk[p]) .. PageUp(b) - 1
<1>1. PICK b \in brk[p] + 1 .. 2 * (HeapTop + 1) :
        /\ Runs(p) /\ brk' = [brk EXCEPT ![p] = b] /\ segs' = segs
        /\ Maps(p, pgtable[p], refs, written[p], vs(b), {"r", "w"})
  BY DEF sys_brk
<1>2. /\ SegsOK(segs[p], D) /\ HeapOK(brk[p], D) /\ D # {} /\ fault[p] = NoFault /\ D \subseteq Ordinary
  BY <1>1, AccountNow DEF Runs, Live, ProcOK, TmpOK
<1>3. brk[p] \in Nat /\ brk[p] >= 1 /\ b \in Nat /\ brk[p] < b /\ b <= 2 * (HeapTop + 1) /\ HeapTop \in Nat
  BY <1>1, <1>2, MemAssumption DEF HeapOK
<1>4. /\ PageUp(brk[p]) \in Nat /\ PageUp(b) \in Nat /\ 1 <= PageUp(brk[p]) /\ PageUp(brk[p]) <= PageUp(b)
      /\ PageUp(b) <= HeapTop + 1
  BY <1>3 DEF PageUp
<1>5. \A x \in vs(b) : x \in 1 .. HeapTop /\ ~(x < PageUp(brk[p])) /\ x < PageUp(b) /\ x \in Ordinary
  BY <1>3, <1>4, MemAssumption DEF Ordinary
<1>6. vs(b) \cap D = {} /\ vs(b) \in SUBSET Ordinary
  BY <1>2, <1>5 DEF HeapOK
<1>7. \A x \in 1 .. HeapTop : x \in vs(b) <=> ~(x < PageUp(brk[p])) /\ x < PageUp(b)
  BY <1>4
<1> HIDE DEF vs
<1>8. /\ DOMAIN pgtable'[p] = vs(b) \cup D /\ fault' = fault
      /\ \A r \in Procs \ {p} : pgtable'[r] = pgtable[r]
  BY <1>1, AccountNow, MapsPages
<1>9. TablesOK(pgtable', next') /\ Exact(pgtable', refs', next') /\ next' \in 1 .. NumPages + 1
  <2>1. Replaces(pgtable, pgtable, p, pgtable[p]) /\ {"r", "w"} \in Flags
    BY AccountNow DEF Replaces, Flags
  <2> QED BY <1>1, <1>6, <2>1, AccountNow, MapsCount
<1>10. ProcOK(segs[p], b, NoFault, vs(b) \cup D)
  <2>1. SegsOK(segs[p], vs(b) \cup D)
    <3>1. \A x \in Nat : HeapTop < x => (x \in vs(b) \cup D <=> x \in D)
      BY <1>5, <1>3
    <3> QED BY <1>2, <3>1, SamePages
  <2>2. HeapOK(b, vs(b) \cup D)
    <3>1. \A x \in 1 .. HeapTop : x \in vs(b) \cup D <=> x < PageUp(b)
      <4> SUFFICES ASSUME NEW x \in 1 .. HeapTop PROVE x \in vs(b) \cup D <=> x < PageUp(b)
        OBVIOUS
      <4>1. x \in D <=> x < PageUp(brk[p])
        BY <1>2 DEF HeapOK
      <4> QED BY <1>3, <1>4, <1>7, <4>1
    <3> QED BY <1>2, <1>3, <1>5, <3>1 DEF HeapOK
  <2> QED BY <1>2, <1>6, <2>1, <2>2 DEF ProcOK, TmpOK
<1>11. OnlyOf(p) /\ segs'[p] = segs[p] /\ brk'[p] = b /\ fault'[p] = NoFault
  BY <1>1, <1>2, <1>8, AccountNow DEF OnlyOf
<1> QED BY <1>8, <1>9, <1>10, <1>11, AccountStep

\* A mapping that is put where it belongs, of pages that were not there.
LEMMA MappingAccounts ==
  ASSUME NEW ss, NEW D, SegsOK(ss, D), NEW v \in Nat, NEW n \in Nat \ {0},
         Pages(v, n) \subseteq HeapTop + 1 .. MmapTop - 1,
         NEW k \in 1 .. Len(ss) + 1,
         \A j \in 1 .. k - 1 : v + n <= ss[j].vpi,
         \A j \in k .. Len(ss) : Top(ss[j]) <= v
  PROVE  /\ SegsOK(InsertAt(ss, k, [vpi |-> v, cnt |-> n]), Pages(v, n) \cup D)
         /\ Pages(v, n) \cap D = {}
<1> DEFINE s == [vpi |-> v, cnt |-> n]
           m == Len(ss)
<1>1. ss \in Seq(Mapping) /\ FromHigh(ss) /\ m \in Nat /\ DOMAIN ss = 1 .. m
  <2>1. ss \in Seq(Mapping) /\ FromHigh(ss)
    BY DEF SegsOK
  <2> QED BY <2>1
<1>2. s \in Mapping /\ s.vpi = v /\ Top(s) = v + n
  BY DEF Mapping, Top
<1> HIDE DEF s, m
<1>3. \A x \in Nat : Inside(x, s) <=> x \in Pages(v, n)
  BY <1>2 DEF Inside, Pages
<1>4. /\ InsertAt(ss, k, s) \in Seq(Mapping) /\ FromHigh(InsertAt(ss, k, s))
      /\ \A x \in Nat : Listed(x, InsertAt(ss, k, s)) <=> Listed(x, ss) \/ Inside(x, s)
  BY SMTT(30), <1>1, <1>2, SegsGain
<1>5. \A x \in Pages(v, n) : x \in Nat /\ HeapTop < x /\ x < MmapTop
  BY MemAssumption
<1>6. SegsOK(InsertAt(ss, k, s), Pages(v, n) \cup D)
  BY <1>3, <1>4, <1>5 DEF SegsOK
<1>7. ASSUME NEW x \in Pages(v, n), x \in D PROVE FALSE
  <2>1. Listed(x, ss)
    BY <1>5, <1>7 DEF SegsOK
  <2>2. PICK j \in 1 .. m : Inside(x, ss[j])
    BY <1>1, <2>1 DEF Listed
  <2>3. v <= x /\ x < v + n /\ ss[j].vpi <= x /\ x < Top(ss[j]) /\ x \in Nat
    BY <1>5, <2>2 DEF Inside, Pages
  <2>4. ss[j].vpi \in Nat /\ Top(ss[j]) \in Nat
    <3>1. ss[j] \in Mapping
      BY <1>1
    <3> DEFINE u == ss[j]
    <3>2. u \in Mapping
      BY <3>1
    <3> HIDE DEF u
    <3>3. u.vpi \in Nat /\ Top(u) \in Nat
      BY <3>2, MappingFields
    <3> QED BY <3>3 DEF u
  <2>5. j \in 1 .. k - 1 \/ j \in k .. m
    BY <1>1 DEF m
  <2> QED BY SMTT(30), <2>3, <2>4, <2>5 DEF m
<1> QED BY <1>6, <1>7 DEF s

LEMMA MmapAccounts == ASSUME AccountInv, NEW p \in Procs, sys_mmap(p) PROVE AccountInv'
<1> DEFINE D == DOMAIN pgtable[p]
<1>1. PICK n \in Lens, flg \in Flags :
        LET room == FindRoom(segs[p], n) IN
        /\ Runs(p) /\ brk' = brk
        /\ Pages(room.vpi, n) \subseteq HeapTop + 1 .. MmapTop - 1
        /\ segs' = [segs EXCEPT ![p] = InsertAt(@, room.at, [vpi |-> room.vpi, cnt |-> n])]
        /\ Maps(p, pgtable[p], refs, written[p], Pages(room.vpi, n), flg)
  BY DEF sys_mmap
<1> DEFINE v == FindRoom(segs[p], n).vpi
           k == FindRoom(segs[p], n).at
           vs == Pages(v, n)
<1>2. /\ SegsOK(segs[p], D) /\ HeapOK(brk[p], D) /\ D # {} /\ fault[p] = NoFault /\ D \subseteq Ordinary
  BY <1>1, AccountNow DEF Runs, Live, ProcOK, TmpOK
<1>3. n \in Nat \ {0} /\ segs[p] \in Seq(Mapping) /\ FromHigh(segs[p])
  BY <1>2, MemAssumption DEF SegsOK
<1>4. /\ k \in 1 .. Len(segs[p]) + 1 /\ v \in Int
      /\ \A j \in 1 .. k - 1 : v + n <= segs[p][j].vpi
      /\ \A j \in k .. Len(segs[p]) : Top(segs[p][j]) <= v
  BY <1>3, RoomFound
<1>5. /\ vs \subseteq HeapTop + 1 .. MmapTop - 1
      /\ segs' = [segs EXCEPT ![p] = InsertAt(@, k, [vpi |-> v, cnt |-> n])]
      /\ Maps(p, pgtable[p], refs, written[p], vs, flg)
  BY <1>1
<1> HIDE DEF v, k
<1>6. v \in Nat
  <2>1. v \in vs
    BY <1>3, <1>4 DEF Pages
  <2> QED BY <1>5, <2>1, MemAssumption
<1>7. SegsOK(InsertAt(segs[p], k, [vpi |-> v, cnt |-> n]), vs \cup D) /\ vs \cap D = {}
  BY <1>2, <1>3, <1>4, <1>5, <1>6, MappingAccounts
<1>8. \A x \in vs : x \in Ordinary /\ HeapTop < x
  BY <1>5, MemAssumption DEF Ordinary
<1> HIDE DEF vs
<1>9. /\ DOMAIN pgtable'[p] = vs \cup D /\ fault' = fault
      /\ \A r \in Procs \ {p} : pgtable'[r] = pgtable[r]
  BY <1>5, AccountNow, MapsPages
<1>10. TablesOK(pgtable', next') /\ Exact(pgtable', refs', next') /\ next' \in 1 .. NumPages + 1
  <2>1. Replaces(pgtable, pgtable, p, pgtable[p]) /\ vs \in SUBSET Ordinary
    BY <1>8, AccountNow DEF Replaces
  <2> QED BY <1>5, <1>7, <2>1, AccountNow, MapsCount
<1>11. HeapOK(brk[p], vs \cup D)
  <2>1. \A x \in 0 .. HeapTop : x \in vs \cup D <=> x \in D
    BY <1>8, MemAssumption
  <2> QED BY <1>2, <2>1, SameHeap
<1>12. ProcOK(InsertAt(segs[p], k, [vpi |-> v, cnt |-> n]), brk[p], NoFault, vs \cup D)
  BY <1>2, <1>7, <1>8, <1>11 DEF ProcOK, TmpOK
<1>13. /\ OnlyOf(p) /\ segs'[p] = InsertAt(segs[p], k, [vpi |-> v, cnt |-> n])
       /\ brk'[p] = brk[p] /\ fault'[p] = NoFault
  BY <1>1, <1>2, <1>5, <1>9, AccountNow DEF OnlyOf
<1> QED BY <1>9, <1>10, <1>12, <1>13, AccountStep

\* Segments and pages without vs.
LEMMA CutAccounts ==
  ASSUME NEW ss, NEW D, SegsOK(ss, D), NEW v \in Nat, NEW n \in Nat \ {0}
  PROVE  /\ SegsOK(FreeSegs(ss, v, n), D \ Pages(v, n))
         /\ \A x \in Nat : Listed(x, FreeSegs(ss, v, n)) => ~(v <= x /\ x < v + n)
<1>1. ss \in Seq(Mapping) /\ FromHigh(ss)
  BY DEF SegsOK
<1>2. /\ FreeSegs(ss, v, n) \in Seq(Mapping) /\ FromHigh(FreeSegs(ss, v, n))
      /\ \A x \in Nat : Listed(x, FreeSegs(ss, v, n)) <=> Listed(x, ss) /\ ~(v <= x /\ x < v + n)
  BY <1>1, FreeSegsFrees
<1>3. \A x \in Nat : x \in Pages(v, n) <=> v <= x /\ x < v + n
  BY DEF Pages
<1> QED BY <1>2, <1>3 DEF SegsOK

LEMMA MunmapAccounts == ASSUME AccountInv, NEW p \in Procs, sys_munmap(p) PROVE AccountInv'
<1> DEFINE D == DOMAIN pgtable[p]
<1>1. PICK v \in HeapTop + 1 .. MmapTop - 2, n \in Lens :
        /\ Runs(p)
        /\ segs' = [segs EXCEPT ![p] = FreeSegs(@, v, n)]
        /\ refs' = Free(refs, Restrict(pgtable[p], Pages(v, n) \cap DOMAIN pgtable[p]))
        /\ pgtable' = [pgtable EXCEPT ![p] = Without(@, Pages(v, n))]
        /\ UNCHANGED <<brk, next, content, fault>>
  BY DEF sys_munmap
<1>2. /\ SegsOK(segs[p], D) /\ HeapOK(brk[p], D) /\ D # {} /\ fault[p] = NoFault /\ D \subseteq Ordinary
  BY <1>1, AccountNow DEF Runs, Live, ProcOK, TmpOK
<1>3. n \in Nat \ {0} /\ v \in Nat /\ HeapTop < v /\ \A x \in Pages(v, n) : HeapTop < x /\ x \in Nat
  BY MemAssumption DEF Pages
<1> DEFINE vs == Pages(v, n)
           D2 == DOMAIN pgtable'[p]
<1>4. SegsOK(FreeSegs(segs[p], v, n), D \ vs)
  BY <1>2, <1>3, CutAccounts
<1> HIDE DEF vs
<1>5. /\ D2 = D \ vs /\ TablesOK(pgtable', next) /\ Exact(pgtable', refs', next)
      /\ \A r \in Procs \ {p} : pgtable'[r] = pgtable[r]
  <2>1. /\ DOMAIN Without(pgtable[p], vs) = DOMAIN pgtable[p] \ vs
        /\ Replaces(pgtable', pgtable, p, Without(pgtable[p], vs))
        /\ TablesOK(pgtable', next) /\ Exact(pgtable', refs', next)
    BY <1>1, DropsCount DEF vs
  <2> QED BY <2>1 DEF Replaces
<1> HIDE DEF D2
<1>6. HeapOK(brk[p], D2)
  <2>1. \A x \in 0 .. HeapTop : x \in D2 <=> x \in D
    BY <1>3, <1>5, MemAssumption DEF vs
  <2> QED BY <1>2, <2>1, SameHeap
<1>7. ProcOK(FreeSegs(segs[p], v, n), brk[p], NoFault, D2)
  BY <1>2, <1>4, <1>5, <1>6 DEF ProcOK, TmpOK
<1>8. /\ OnlyOf(p) /\ segs'[p] = FreeSegs(segs[p], v, n) /\ brk'[p] = brk[p] /\ fault'[p] = NoFault
      /\ next' = next
  BY <1>1, <1>2, <1>5, AccountNow DEF OnlyOf
<1> QED BY <1>5, <1>7, <1>8, AccountNow, AccountStep DEF D2

LEMMA MmapFixedAccounts == ASSUME AccountInv, NEW p \in Procs, sys_mmap_fixed(p) PROVE AccountInv'
<1> DEFINE D == DOMAIN pgtable[p]
<1>1. PICK v \in HeapTop + 1 .. MmapTop - 2, n \in Lens :
        LET left == FreeSegs(segs[p], v, n) IN
        /\ Runs(p) /\ v + n < MmapTop /\ brk' = brk
        /\ segs' = [segs EXCEPT ![p] = InsertAt(left, PlaceFor(left, v), [vpi |-> v, cnt |-> n])]
        /\ Maps(p, Without(pgtable[p], Pages(v, n)),
                Free(refs, Restrict(pgtable[p], Pages(v, n) \cap DOMAIN pgtable[p])),
                Without(written[p], Pages(v, n)), Pages(v, n), {"r", "w"})
  BY DEF sys_mmap_fixed, PlaceFor
<1> DEFINE left == FreeSegs(segs[p], v, n)
           k == PlaceFor(left, v)
           ss == InsertAt(left, k, [vpi |-> v, cnt |-> n])
           vs == Pages(v, n)
           tab == Without(pgtable[p], vs)
           T == [pgtable EXCEPT ![p] = tab]
           rs == Free(refs, Restrict(pgtable[p], vs \cap DOMAIN pgtable[p]))
<1>2. /\ SegsOK(segs[p], D) /\ HeapOK(brk[p], D) /\ D # {} /\ fault[p] = NoFault /\ D \subseteq Ordinary
  BY <1>1, AccountNow DEF Runs, Live, ProcOK, TmpOK
<1>3. /\ n \in Nat \ {0} /\ v \in Nat /\ vs \subseteq HeapTop + 1 .. MmapTop - 1
      /\ \A x \in vs : x \in Ordinary /\ HeapTop < x
  BY <1>1, MemAssumption DEF Pages, Ordinary
<1>4. SegsOK(left, D \ vs) /\ \A x \in Nat : Listed(x, left) => ~(v <= x /\ x < v + n)
  BY <1>2, <1>3, CutAccounts
<1> HIDE DEF left
<1>5. /\ k \in 1 .. Len(left) + 1
      /\ \A j \in 1 .. k - 1 : v + n <= left[j].vpi
      /\ \A j \in k .. Len(left) : Top(left[j]) <= v
  BY <1>3, <1>4, PlaceFound DEF SegsOK
<1> HIDE DEF k
<1>6. SegsOK(ss, vs \cup (D \ vs))
  BY <1>3, <1>4, <1>5, MappingAccounts
<1>7. /\ DOMAIN tab = D \ vs /\ Replaces(T, pgtable, p, tab)
      /\ TablesOK(T, next) /\ Counted(T, rs, next) /\ Exact(T, rs, next)
  BY DropsCount
<1>8. Maps(p, tab, rs, Without(written[p], vs), vs, {"r", "w"})
  BY <1>1
<1>9. segs' = [segs EXCEPT ![p] = ss]
  BY <1>1 DEF left, k
<1> HIDE DEF vs, tab, T, rs, ss
<1>10. /\ DOMAIN pgtable'[p] = vs \cup (D \ vs) /\ fault' = fault
       /\ \A r \in Procs \ {p} : pgtable'[r] = pgtable[r]
  BY <1>7, <1>8, AccountNow, MapsPages
<1>11. TablesOK(pgtable', next') /\ Exact(pgtable', refs', next') /\ next' \in 1 .. NumPages + 1
  <2>1. vs \in SUBSET Ordinary /\ {"r", "w"} \in Flags /\ vs \cap DOMAIN tab = {}
    BY <1>3, <1>7 DEF Flags
  <2> QED BY <1>7, <1>8, <2>1, AccountNow, MapsCount
<1>12. HeapOK(brk[p], vs \cup (D \ vs))
  <2>1. \A x \in 0 .. HeapTop : x \in vs \cup (D \ vs) <=> x \in D
    BY <1>3, MemAssumption
  <2> QED BY <1>2, <2>1, SameHeap
<1>13. ProcOK(ss, brk[p], NoFault, vs \cup (D \ vs))
  BY <1>2, <1>3, <1>6, <1>12 DEF ProcOK, TmpOK
<1>14. OnlyOf(p) /\ segs'[p] = ss /\ brk'[p] = brk[p] /\ fault'[p] = NoFault
  BY <1>1, <1>2, <1>9, <1>10, AccountNow DEF OnlyOf
<1> QED BY <1>10, <1>11, <1>13, <1>14, AccountStep

LEMMA ProtectAccounts == ASSUME AccountInv, NEW p \in Procs, sys_mprotect(p) PROVE AccountInv'
<1>1. PICK v \in DOMAIN pgtable[p], prot \in SUBSET {"w"} :
        /\ pgtable' = [pgtable EXCEPT ![p][v].flg = (@ \ {"r", "w"}) \cup {"r"} \cup prot]
        /\ UNCHANGED <<segs, brk, refs, next, content, fault, written>>
  BY DEF sys_mprotect
<1> DEFINE e == pgtable[p][v]
           g == (e.flg \ {"r", "w"}) \cup {"r"} \cup prot
<1>2. EntryOK(e, next)
  BY AccountNow DEF TablesOK, TableOK
<1>3. g \in SUBSET {"r", "w", "share", "cow"} /\ ("cow" \in g => "share" \notin g)
  BY <1>2 DEF EntryOK
<1>4. pgtable' = [pgtable EXCEPT ![p][v].flg = g]
  BY <1>1
<1> HIDE DEF g
<1>5. /\ TablesOK(pgtable', next) /\ Exact(pgtable', refs, next)
      /\ \A r \in Procs : DOMAIN pgtable'[r] = DOMAIN pgtable[r]
  BY <1>3, <1>4, ReflagsCount
<1> QED BY <1>1, <1>5 DEF AccountInv

LEMMA StoreAccounts == ASSUME AccountInv, NEW p \in Procs, Store(p) PROVE AccountInv'
<1>1. PICK v \in DOMAIN pgtable[p] :
        /\ \/ pgtable' = pgtable
           \/ pgtable' = [pgtable EXCEPT ![p][v].flg = (@ \ {"cow"}) \cup {"w"}]
        /\ UNCHANGED <<segs, brk, refs, next, fault>>
  BY DEF Store
<1> DEFINE e == pgtable[p][v]
           g == (e.flg \ {"cow"}) \cup {"w"}
<1>2. EntryOK(e, next)
  BY AccountNow DEF TablesOK, TableOK
<1>3. g \in SUBSET {"r", "w", "share", "cow"} /\ ("cow" \in g => "share" \notin g)
  BY <1>2 DEF EntryOK
<1>4. CASE pgtable' = pgtable
  BY <1>1, <1>4 DEF AccountInv
<1>5. CASE pgtable' = [pgtable EXCEPT ![p][v].flg = g]
  <2> HIDE DEF g
  <2>1. /\ TablesOK(pgtable', next) /\ Exact(pgtable', refs, next)
        /\ \A r \in Procs : DOMAIN pgtable'[r] = DOMAIN pgtable[r]
    BY <1>3, <1>5, ReflagsCount
  <2> QED BY <1>1, <2>1 DEF AccountInv
<1> QED BY <1>1, <1>4, <1>5

LEMMA ForkAccounts == ASSUME AccountInv, NEW p \in Procs, fork(p) PROVE AccountInv'
<1> DEFINE D == DOMAIN pgtable[p]
<1>1. PICK c \in Procs \ Live :
        LET tab == [v \in DOMAIN pgtable[p] |-> ToCopy(pgtable[p][v])] IN
        /\ Runs(p) /\ pgtable' = [pgtable EXCEPT ![p] = tab, ![c] = tab]
        /\ segs' = [segs EXCEPT ![c] = segs[p]] /\ brk' = [brk EXCEPT ![c] = brk[p]]
        /\ UNCHANGED <<next, content, fault>>
  BY DEF fork
<1>2. c # p /\ DOMAIN pgtable[c] = {} /\ fault[p] = NoFault
  BY <1>1 DEF Live, Runs
<1>3. /\ \A r \in Procs \ {c} : DOMAIN pgtable'[r] = DOMAIN pgtable[r]
      /\ DOMAIN pgtable'[c] = D
  BY <1>1, <1>2, AccountNow
<1>4. /\ \A r \in Procs : ProcOK(segs[r], brk[r], fault[r], DOMAIN pgtable[r])
      /\ DOMAIN segs = Procs /\ DOMAIN brk = Procs /\ DOMAIN fault = Procs /\ next \in 1 .. NumPages + 1
  BY AccountNow
<1>5. fault[c] = NoFault
  BY <1>2, <1>4 DEF ProcOK, TmpOK
<1>6. ProcOK(segs[p], brk[p], NoFault, D)
  BY <1>2, <1>4
<1>7. ASSUME NEW r \in Procs PROVE ProcOK(segs'[r], brk'[r], fault'[r], DOMAIN pgtable'[r])
  <2>1. CASE r = c
    <3>1. segs'[r] = segs[p] /\ brk'[r] = brk[p] /\ fault'[r] = NoFault /\ DOMAIN pgtable'[r] = D
      BY <1>1, <1>3, <1>4, <1>5, <2>1
    <3> QED BY <1>6, <3>1
  <2>2. CASE r # c
    <3>1. segs'[r] = segs[r] /\ brk'[r] = brk[r] /\ fault'[r] = fault[r] /\ DOMAIN pgtable'[r] = DOMAIN pgtable[r]
      BY <1>1, <1>3, <1>4, <2>2
    <3> QED BY <1>4, <3>1
  <2> QED BY <2>1, <2>2
<1>8. TablesOK(pgtable', next) /\ Exact(pgtable', refs', next)
  BY AccountNow, ForkCount
<1>9. /\ DOMAIN segs' = Procs /\ DOMAIN brk' = Procs /\ DOMAIN fault' = Procs /\ next' = next
  BY <1>1, <1>4
<1> QED BY <1>4, <1>7, <1>8, <1>9 DEF AccountInv

\* One segment, one page of heap: what elf_exec leaves.
LEMMA ImageAccounts ==
  ProcOK(<<[vpi |-> MmapTop - 1, cnt |-> 1]>>, 4, NoFault, ImagePages)
<1> DEFINE s == [vpi |-> MmapTop - 1, cnt |-> 1]
           ss == <<s>>
<1>1. /\ s \in Mapping /\ s.vpi = MmapTop - 1 /\ Top(s) = MmapTop
      /\ ImagePages = {1, MmapTop - 1} /\ MmapTop \in Nat /\ HeapTop \in Nat \ {0} /\ HeapTop + 1 < MmapTop
  BY MemAssumption DEF Mapping, Top, ImagePages
<1> HIDE DEF s
<1>2. ss \in Seq(Mapping) /\ DOMAIN ss = {1} /\ ss[1] = s
  BY <1>1
<1> HIDE DEF ss
<1>3. FromHigh(ss)
  BY <1>2 DEF FromHigh
<1>4. \A x \in Nat : Listed(x, ss) <=> x \in ImagePages /\ HeapTop < x /\ x < MmapTop
  <2>1. \A x \in Nat : Listed(x, ss) <=> Inside(x, s)
    BY <1>2 DEF Listed
  <2>2. \A x \in Nat : Inside(x, s) <=> x = MmapTop - 1
    BY <1>1 DEF Inside
  <2> QED BY <1>1, <2>1, <2>2
<1>5. HeapOK(4, ImagePages)
  <2>1. PageUp(4) = 2 /\ 4 \in Nat /\ 4 >= 1
    BY DEF PageUp
  <2>2. \A v \in 1 .. HeapTop : v \in ImagePages <=> v < 2
    BY <1>1
  <2> QED BY <1>1, <2>1, <2>2 DEF HeapOK
<1>6. ImagePages \subseteq Ordinary
  BY <1>1 DEF Ordinary
<1> QED BY <1>2, <1>3, <1>4, <1>5, <1>6 DEF ProcOK, SegsOK, TmpOK, ss, s
LEMMA NothingAccounts == ProcOK(<<>>, 0, NoFault, {})
<1>1. <<>> \in Seq(Mapping) /\ DOMAIN <<>> = {} /\ FromHigh(<<>>) /\ \A x \in Nat : ~Listed(x, <<>>)
  BY DEF FromHigh, Listed
<1>2. PageUp(0) = 0 /\ HeapOK(0, {})
  BY DEF PageUp, HeapOK
<1> QED BY <1>1, <1>2 DEF ProcOK, SegsOK, TmpOK

LEMMA ExecAccounts == ASSUME AccountInv, NEW p \in Procs, elf_exec(p) PROVE AccountInv'
<1> DEFINE T == [pgtable EXCEPT ![p] = <<>>]
           rs == Free(refs, pgtable[p])
           ss == <<[vpi |-> MmapTop - 1, cnt |-> 1]>>
<1>1. /\ Runs(p) /\ brk' = [brk EXCEPT ![p] = 4] /\ segs' = [segs EXCEPT ![p] = ss]
      /\ Maps(p, <<>>, rs, <<>>, ImagePages, {"r", "w"})
  BY DEF elf_exec
<1>2. Replaces(T, pgtable, p, <<>>)
  BY AccountNow DEF Replaces
<1> HIDE DEF T, ss
<1>3. TablesOK(T, next) /\ Counted(T, rs, next) /\ Exact(T, rs, next)
  BY <1>2, DropsAll
<1> HIDE DEF rs
<1>4. /\ DOMAIN pgtable'[p] = ImagePages /\ fault' = fault
      /\ \A r \in Procs \ {p} : pgtable'[r] = pgtable[r]
  <2>1. /\ DOMAIN pgtable'[p] = ImagePages \cup DOMAIN <<>> /\ fault' = fault
        /\ \A r \in Procs \ {p} : pgtable'[r] = pgtable[r]
    BY <1>1, AccountNow, MapsPages
  <2> QED BY <2>1
<1>5. TablesOK(pgtable', next') /\ Exact(pgtable', refs', next') /\ next' \in 1 .. NumPages + 1
  <2>1. ImagePages \in SUBSET Ordinary /\ {"r", "w"} \in Flags /\ ImagePages \cap DOMAIN <<>> = {}
    BY MemAssumption DEF ImagePages, Ordinary, Flags
  <2> QED BY <1>1, <1>2, <1>3, <2>1, AccountNow, MapsCount
<1>6. OnlyOf(p) /\ segs'[p] = ss /\ brk'[p] = 4 /\ fault'[p] = NoFault
  BY <1>1, <1>4, AccountNow DEF OnlyOf, Runs
<1> QED BY <1>4, <1>5, <1>6, ImageAccounts, AccountStep DEF ss

LEMMA ExitAccounts == ASSUME AccountInv, NEW p \in Procs, exit(p) PROVE AccountInv'
<1>1. /\ Runs(p) /\ refs' = Free(refs, pgtable[p]) /\ pgtable' = [pgtable EXCEPT ![p] = <<>>]
      /\ segs' = [segs EXCEPT ![p] = <<>>] /\ brk' = [brk EXCEPT ![p] = 0]
      /\ UNCHANGED <<next, content, fault>>
  BY DEF exit
<1>2. Replaces(pgtable', pgtable, p, <<>>)
  BY <1>1, AccountNow DEF Replaces
<1>3. TablesOK(pgtable', next) /\ Exact(pgtable', refs', next)
  BY <1>1, <1>2, DropsAll
<1>4. DOMAIN pgtable'[p] = {} /\ \A r \in Procs \ {p} : pgtable'[r] = pgtable[r]
  BY <1>2 DEF Replaces
<1>5. OnlyOf(p) /\ segs'[p] = <<>> /\ brk'[p] = 0 /\ fault'[p] = NoFault /\ next' = next
  BY <1>1, <1>4, AccountNow DEF OnlyOf, Runs
<1> QED BY <1>3, <1>4, <1>5, AccountNow, NothingAccounts, AccountStep

\* While a page is copied the table has the temporary page more.
LEMMA TmpPage == Tmp \in Nat /\ Tmp # 0 /\ Tmp > MmapTop /\ Tmp > HeapTop /\ Tmp \notin Ordinary
BY MemAssumption DEF Tmp, Ordinary
LEMMA FaultAccounts ==
  ASSUME AccountInv, NEW p \in Procs, cow_realloc_missed_page(p) PROVE AccountInv'
<1> DEFINE D == DOMAIN pgtable[p]
<1>1. PICK v \in D :
        /\ Runs(p) /\ UNCHANGED <<segs, brk>>
        /\ fault' = [fault EXCEPT ![p] = [missed |-> v, tmp |-> FirstFree(pgtable[p]), copied |-> FALSE]]
  BY DEF cow_realloc_missed_page
<1>2. /\ SegsOK(segs[p], D) /\ HeapOK(brk[p], D) /\ D # {} /\ fault[p] = NoFault /\ D \subseteq Ordinary
  BY <1>1, AccountNow DEF Runs, Live, ProcOK, TmpOK
<1>3. FirstFree(pgtable[p]) = Tmp
  BY <1>2, TmpIsFree
<1>4. /\ TablesOK(pgtable', next') /\ Exact(pgtable', refs', next') /\ next' \in 1 .. NumPages + 1
      /\ DOMAIN pgtable'[p] = D \cup {Tmp}
      /\ \A r \in Procs \ {p} : pgtable'[r] = pgtable[r]
  BY <1>2, AccountNow, FaultCount
<1>5. SegsOK(segs[p], D \cup {Tmp})
  <2>1. \A x \in Nat : x < MmapTop => x # Tmp
    BY TmpPage, MemAssumption
  <2> QED BY <1>2, <2>1 DEF SegsOK
<1>6. HeapOK(brk[p], D \cup {Tmp})
  <2>1. \A x \in 0 .. HeapTop : x \in D \cup {Tmp} <=> x \in D
    BY TmpPage, MemAssumption
  <2> QED BY <1>2, <2>1, SameHeap
<1> DEFINE f == [missed |-> v, tmp |-> Tmp, copied |-> FALSE]
<1>7. f # NoFault /\ f \in [missed : Ordinary, tmp : {Tmp}, copied : BOOLEAN]
  BY <1>2, TmpPage DEF NoFault
<1>8. ProcOK(segs[p], brk[p], f, D \cup {Tmp})
  BY <1>5, <1>6, <1>7 DEF ProcOK, TmpOK
<1>9. OnlyOf(p) /\ segs'[p] = segs[p] /\ brk'[p] = brk[p] /\ fault'[p] = f
  BY <1>1, <1>3, <1>4, AccountNow DEF OnlyOf
<1> QED BY <1>4, <1>8, <1>9, AccountStep

LEMMA CopyAccounts == ASSUME AccountInv, NEW p \in Procs, CopyPage(p) PROVE AccountInv'
<1> DEFINE D == DOMAIN pgtable[p]
           f == [fault[p] EXCEPT !.copied = TRUE]
<1>1. /\ fault[p] # NoFault /\ fault' = [fault EXCEPT ![p] = f]
      /\ UNCHANGED <<pgtable, segs, brk, refs, next>>
  BY DEF CopyPage
<1>2. ProcOK(segs[p], brk[p], fault[p], D)
  BY AccountNow
<1>3. fault[p] \in [missed : Ordinary, tmp : {Tmp}, copied : BOOLEAN] /\ Tmp \in D
  BY <1>1, <1>2 DEF ProcOK, TmpOK
<1>4. f \in [missed : Ordinary, tmp : {Tmp}, copied : BOOLEAN] /\ f.tmp = Tmp
  BY <1>3
<1> HIDE DEF f
<1>5. f # NoFault
  BY <1>4, TmpPage DEF NoFault
<1>6. ProcOK(segs[p], brk[p], f, D)
  BY <1>2, <1>3, <1>4, <1>5 DEF ProcOK, TmpOK
<1>7. /\ OnlyOf(p) /\ segs'[p] = segs[p] /\ brk'[p] = brk[p] /\ fault'[p] = f
      /\ pgtable' = pgtable /\ refs' = refs /\ next' = next
  BY <1>1, AccountNow DEF OnlyOf
<1> QED BY <1>6, <1>7, AccountNow, AccountStep

LEMMA FreeTmpAccounts == ASSUME AccountInv, NEW p \in Procs, cow_free_tmp_page(p) PROVE AccountInv'
<1> DEFINE D == DOMAIN pgtable[p]
<1>1. ProcOK(segs[p], brk[p], fault[p], D) /\ TableOK(pgtable[p], next)
  BY AccountNow DEF TablesOK
<1>2. /\ fault[p].copied
      /\ refs' = Free(refs, Restrict(pgtable[p], {fault[p].tmp}))
      /\ pgtable' = [pgtable EXCEPT ![p] = Without(@, {fault[p].tmp})]
      /\ fault' = [fault EXCEPT ![p] = NoFault]
      /\ UNCHANGED <<segs, brk, next>>
  BY DEF cow_free_tmp_page
<1>3. fault[p] # NoFault
  BY <1>2 DEF NoFault
<1>4. fault[p].tmp = Tmp /\ Tmp \in D
  BY <1>1, <1>3 DEF ProcOK, TmpOK
<1>5. {Tmp} \cap D = {Tmp}
  BY <1>4
<1>6. /\ DOMAIN pgtable'[p] = D \ {Tmp} /\ TablesOK(pgtable', next) /\ Exact(pgtable', refs', next)
      /\ \A r \in Procs \ {p} : pgtable'[r] = pgtable[r]
  <2>1. /\ refs' = Free(refs, Restrict(pgtable[p], {Tmp} \cap DOMAIN pgtable[p]))
        /\ pgtable' = [pgtable EXCEPT ![p] = Without(pgtable[p], {Tmp})]
    BY <1>2, <1>4, <1>5
  <2>2. /\ DOMAIN Without(pgtable[p], {Tmp}) = DOMAIN pgtable[p] \ {Tmp}
        /\ Replaces(pgtable', pgtable, p, Without(pgtable[p], {Tmp}))
        /\ TablesOK(pgtable', next) /\ Exact(pgtable', refs', next)
    BY <2>1, DropsCount
  <2> QED BY <2>2 DEF Replaces
<1>7. D \ {Tmp} \subseteq Ordinary
  BY <1>1 DEF TableOK, VPages
<1>8. SegsOK(segs[p], D \ {Tmp}) /\ HeapOK(brk[p], D \ {Tmp})
  <2>1. \A x \in Nat : x < MmapTop => x # Tmp
    BY TmpPage, MemAssumption
  <2>2. \A x \in 0 .. HeapTop : x \in D \ {Tmp} <=> x \in D
    BY TmpPage, MemAssumption
  <2>3. SegsOK(segs[p], D) /\ HeapOK(brk[p], D)
    BY <1>1 DEF ProcOK
  <2>4. SegsOK(segs[p], D \ {Tmp})
    BY <2>1, <2>3 DEF SegsOK
  <2> QED BY <1>4, <2>2, <2>3, <2>4, SameHeap
<1>9. ProcOK(segs[p], brk[p], NoFault, D \ {Tmp})
  BY <1>7, <1>8 DEF ProcOK, TmpOK
<1>10. /\ OnlyOf(p) /\ segs'[p] = segs[p] /\ brk'[p] = brk[p] /\ fault'[p] = NoFault /\ next' = next
  BY <1>2, <1>6, AccountNow DEF OnlyOf
<1> QED BY <1>6, <1>9, <1>10, AccountNow, AccountStep

LEMMA InitAccounts == memInit => AccountInv
<1> SUFFICES ASSUME memInit PROVE AccountInv
  OBVIOUS
<1>1. MemInv /\ next = 3
  <2>1. MmapTop - 1 # 1
    BY MemAssumption
  <2>2. Cardinality(ImagePages) = 2
    BY <2>1, Pair DEF ImagePages
  <2> QED BY <2>2, InitSafe DEF memInit
<1>2. TablesOK(pgtable, next) /\ Counted(pgtable, refs, next) /\ next \in 1 .. NumPages + 1
  BY <1>1, Same, Next1 DEF AllOK
<1>3. /\ 1 \in Procs /\ DOMAIN pgtable[1] = ImagePages
      /\ pgtable[1][1].ppi = 1 /\ pgtable[1][MmapTop - 1].ppi = 2
      /\ \A p \in Procs \ {1} : DOMAIN pgtable[p] = {}
  BY MemAssumption DEF memInit, ImagePages, Procs
<1>4. ASSUME NEW q \in 1 .. next - 1 PROVE Cardinality(Users(pgtable, q)) = Count(refs, q)
  <2>1. Count(refs, q) = 1
    BY <1>1 DEF memInit, Count
  <2>2. q = 1 \/ q = 2
    BY <1>1
  <2>3. 1 \in VPages /\ MmapTop - 1 \in VPages /\ MmapTop - 1 # 1
    BY MemAssumption DEF VPages, Ordinary
  <2>4. CASE q = 1
    <3>1. Users(pgtable, q) = {<<1, 1>>}
      BY <1>3, <2>3, <2>4 DEF Users, Own, ImagePages
    <3> QED BY <2>1, <3>1, FS_Singleton
  <2>5. CASE q = 2
    <3>1. Users(pgtable, q) = {<<1, MmapTop - 1>>}
      BY <1>3, <2>3, <2>5 DEF Users, Own, ImagePages
    <3> QED BY <2>1, <3>1, FS_Singleton
  <2> QED BY <2>2, <2>4, <2>5
<1>5. ASSUME NEW p \in Procs PROVE ProcOK(segs[p], brk[p], fault[p], DOMAIN pgtable[p])
  <2>1. CASE p = 1
    <3>1. /\ segs[p] = <<[vpi |-> MmapTop - 1, cnt |-> 1]>> /\ brk[p] = 4 /\ fault[p] = NoFault
          /\ DOMAIN pgtable[p] = ImagePages
      BY <1>3, <2>1 DEF memInit
    <3> QED BY <3>1, ImageAccounts
  <2>2. CASE p # 1
    <3>1. /\ segs[p] = <<>> /\ brk[p] = 0 /\ fault[p] = NoFault /\ DOMAIN pgtable[p] = {}
      BY <1>3, <2>2 DEF memInit
    <3> QED BY <3>1, NothingAccounts
  <2> QED BY <2>1, <2>2
<1>6. DOMAIN segs = Procs /\ DOMAIN brk = Procs /\ DOMAIN fault = Procs
  BY DEF memInit
<1> QED BY <1>2, <1>4, <1>5, <1>6 DEF AccountInv, Exact

LEMMA AccountKept == AccountInv /\ [memNext]_memVars => AccountInv'
<1> SUFFICES ASSUME AccountInv, [memNext]_memVars PROVE AccountInv'
  OBVIOUS
<1>1. ASSUME NEW p \in Procs,
             \/ sys_brk(p) \/ sys_mmap(p) \/ sys_mmap_fixed(p) \/ sys_munmap(p) \/ sys_mprotect(p)
             \/ fork(p) \/ elf_exec(p) \/ exit(p)
             \/ Store(p) \/ cow_realloc_missed_page(p) \/ CopyPage(p) \/ cow_free_tmp_page(p)
      PROVE  AccountInv'
  BY <1>1, BrkAccounts, MmapAccounts, MmapFixedAccounts, MunmapAccounts, ProtectAccounts,
     ForkAccounts, ExecAccounts, ExitAccounts, StoreAccounts, FaultAccounts, CopyAccounts,
     FreeTmpAccounts
<1>2. CASE UNCHANGED memVars
  BY <1>2 DEF memVars, AccountInv
<1> QED BY <1>1, <1>2 DEF memNext

LEMMA AlwaysAccounted == memSpec => []AccountInv
BY InitAccounts, AccountKept, PTL DEF memSpec

\* The pairs RefsExact counts are those that use the page: no process has a page 0.
LEMMA CountsAgree == AccountInv => RefsExact
<1> SUFFICES ASSUME AccountInv, NEW q \in 1 .. next - 1
             PROVE  Cardinality({u \in Live \X (1 .. MmapTop + 2) :
                          u[2] \in DOMAIN pgtable[u[1]] /\ pgtable[u[1]][u[2]].ppi = q})
                    = IF q \in DOMAIN refs THEN refs[q] ELSE 0
  BY DEF RefsExact
<1>1. Cardinality(Users(pgtable, q)) = IF q \in DOMAIN refs THEN refs[q] ELSE 0
  BY AccountNow DEF Exact, Count
<1>2. ASSUME NEW p \in Procs, NEW v \in DOMAIN pgtable[p]
      PROVE  p \in Live /\ v \in VPages /\ v \in 1 .. MmapTop + 2
  <2>1. v \in VPages /\ v # 0
    BY AccountNow DEF TablesOK, TableOK, ProcOK, HeapOK
  <2> QED BY <2>1, MemAssumption DEF VPages, Ordinary, Tmp, Live
<1>3. {u \in Live \X (1 .. MmapTop + 2) : u[2] \in DOMAIN pgtable[u[1]] /\ pgtable[u[1]][u[2]].ppi = q}
      = Users(pgtable, q)
  BY <1>2 DEF Users, Own, Live
<1> QED BY <1>1, <1>3

LEMMA SegmentsAgree == AccountInv => SegsExact
<1> SUFFICES ASSUME AccountInv, NEW p \in Live
             PROVE  /\ \A k \in 1 .. Len(segs[p]) - 1 :
                         segs[p][k + 1].vpi + segs[p][k + 1].cnt <= segs[p][k].vpi
                    /\ UNION {Pages(s.vpi, s.cnt) : s \in Range(segs[p])}
                       = {v \in DOMAIN pgtable[p] : HeapTop < v /\ v < MmapTop}
  BY DEF SegsExact
<1> DEFINE ss == segs[p]
           D == DOMAIN pgtable[p]
<1>1. SegsOK(ss, D) /\ D \subseteq VPages
  BY AccountNow DEF Live, ProcOK, TablesOK, TableOK
<1>2. ss \in Seq(Mapping) /\ FromHigh(ss) /\ \A x \in Nat : Listed(x, ss) <=> x \in D /\ HeapTop < x /\ x < MmapTop
  BY <1>1 DEF SegsOK
<1> HIDE DEF ss, D
<1>3. ASSUME NEW k \in 1 .. Len(ss) - 1 PROVE ss[k + 1].vpi + ss[k + 1].cnt <= ss[k].vpi
  <2>1. k \in DOMAIN ss /\ k + 1 \in DOMAIN ss /\ k < k + 1
    BY <1>2
  <2> QED BY <1>2, <2>1 DEF FromHigh, Top
<1>4. \A x : x \in UNION {Pages(s.vpi, s.cnt) : s \in Range(ss)} <=> x \in Nat /\ Listed(x, ss)
  <2>1. ASSUME NEW k \in DOMAIN ss, NEW x
        PROVE  x \in Pages(ss[k].vpi, ss[k].cnt) <=> x \in Nat /\ Inside(x, ss[k])
    <3>1. ss[k] \in Mapping
      BY <1>2
    <3> QED BY <3>1, MappingFields DEF Pages, Inside
  <2>2. Range(ss) = {ss[k] : k \in DOMAIN ss}
    BY DEF Range
  <2> QED BY <2>1, <2>2 DEF Listed
<1>5. \A x \in D : HeapTop < x => x \in Nat
  BY <1>1, MemAssumption DEF VPages, Ordinary, Tmp
<1>6. UNION {Pages(s.vpi, s.cnt) : s \in Range(ss)} = {v \in D : HeapTop < v /\ v < MmapTop}
  BY <1>2, <1>4, <1>5
<1> QED BY <1>3, <1>6 DEF ss, D

\* Table, count and segments agree in every state: every page is counted as often as entries of
\* the live processes lead to it, and the segments of a process list, from high to low and
\* without overlap, what is mapped between its heap and MAX_MMAP_VADDR.
THEOREM PagesAreAccounted == memSpec => []PagesAccounted
<1>1. AccountInv => PagesAccounted
  BY CountsAgree, SegmentsAgree DEF PagesAccounted
<1> QED BY <1>1, AlwaysAccounted, PTL

\* At most as many entries lead to a page as the allocator counts.
PagesHeld == \A q \in 1 .. next - 1 : Cardinality(Users(pgtable, q)) <= Count(refs, q)

\* So a page that dealloc hands back, or that a process finds to be its own in a store, is not
\* in use by anyone else.
THEOREM UsedPagesCounted == memSpec => []PagesHeld
<1>1. AccountInv => PagesHeld
  BY DEF AccountInv, Exact, Counted, PagesHeld
<1> QED BY <1>1, AlwaysAccounted, PTL
-----------------------------------------------------------------------------
(* The memory shared with the proxy library: every block is in one segment. *)

In(b, s) == s.at <= b /\ b < End(s)
InSome(b, ss) == \E k \in DOMAIN ss : In(b, ss[k])
Clear(s, r) == End(s) <= r.at \/ End(r) <= s.at
\* From low to high; with a gap after each, as a pass leaves them.
FromLow(ss) == \A j, k \in DOMAIN ss : j < k => End(ss[j]) <= ss[k].at
Gaps(ss) == \A j, k \in DOMAIN ss : j < k => End(ss[j]) < ss[k].at

SmemInv ==
  /\ free_segs \in Seq(Segment) /\ alloced_segs \subseteq Segment
  /\ Gaps(free_segs)
  /\ \A s, r \in alloced_segs : s # r => Clear(s, r)
  /\ \A k \in DOMAIN free_segs : \A s \in alloced_segs : Clear(free_segs[k], s)
  /\ \A b \in Nat : (SmemHead <= b /\ b < SmemHead + SmemSize)
                    <=> (InSome(b, free_segs) \/ \E s \in alloced_segs : In(b, s))

LEMMA SegmentFields ==
  \A s \in Segment : s.at \in Nat /\ s.len \in Nat \ {0} /\ End(s) = s.at + s.len
BY DEF Segment, End

\* Segments without a block in common are clear of each other.
LEMMA ClearOf ==
  ASSUME NEW s \in Segment, NEW r \in Segment, \A b \in Nat : ~(In(b, s) /\ In(b, r))
  PROVE  Clear(s, r)
<1>1. s.at \in Nat /\ r.at \in Nat /\ s.len \in Nat \ {0} /\ r.len \in Nat \ {0}
  BY DEF Segment
<1>2. ~(In(s.at, s) /\ In(s.at, r)) /\ ~(In(r.at, s) /\ In(r.at, r))
  BY <1>1
<1> QED BY <1>1, <1>2 DEF In, End, Clear

\* The lists a pass over ss goes through.
JoinsBy(ss, g) ==
  /\ g[0] = <<>> /\ g[Len(ss)] = Joined(ss)
  /\ \A k \in 1 .. Len(ss) : g[k] = Adds(g[k - 1], ss[k])
LEMMA JoinedOneByOne ==
  ASSUME NEW ss, Len(ss) \in Nat
  PROVE  \E g : JoinsBy(ss, g)
<1> DEFINE W(x, k) == Adds(x, ss[k])
           Path(m, f) == f = [k \in 0 .. m |-> IF k = 0 THEN <<>> ELSE W(f[k - 1], k)]
           S == {m \in Nat : \E f : Path(m, f)}
<1>1. Joined(ss) = (CHOOSE f : Path(Len(ss), f))[Len(ss)]
  BY DEF Joined
<1> HIDE DEF W
<1>2. 0 \in S
  <2> DEFINE f == [k \in 0 .. 0 |-> <<>>]
  <2>1. Path(0, f)
    OBVIOUS
  <2> QED BY <2>1
<1>3. ASSUME NEW m \in Nat, m \in S PROVE m + 1 \in S
  <2>1. PICK f : Path(m, f)
    BY <1>3
  <2> DEFINE h == [k \in 0 .. m + 1 |-> IF k = m + 1 THEN W(f[m], k) ELSE f[k]]
  <2>2. \A k \in 0 .. m : h[k] = f[k]
    OBVIOUS
  <2>3. ASSUME NEW k \in 0 .. m + 1
        PROVE  h[k] = IF k = 0 THEN <<>> ELSE W(h[k - 1], k)
    <3>1. CASE k = 0
      <4>1. f[0] = <<>>
        BY <2>1
      <4> QED BY <3>1, <4>1
    <3>2. CASE k \in 1 .. m
      <4>1. f[k] = W(f[k - 1], k)
        BY <2>1, <3>2
      <4>2. h[k - 1] = f[k - 1] /\ h[k] = f[k]
        BY <2>2, <3>2
      <4> QED BY <3>2, <4>1, <4>2
    <3>3. CASE k = m + 1
      <4>1. h[m] = f[m] /\ h[k] = W(f[m], k)
        BY <2>2, <3>3
      <4> QED BY <3>3, <4>1
    <3> QED BY <3>1, <3>2, <3>3
  <2>4. Path(m + 1, h)
    <3>1. h = [k \in 0 .. m + 1 |-> h[k]]
      OBVIOUS
    <3> HIDE DEF h
    <3>2. [k \in 0 .. m + 1 |-> h[k]] = [k \in 0 .. m + 1 |-> IF k = 0 THEN <<>> ELSE W(h[k - 1], k)]
      BY <2>3
    <3> QED BY <3>1, <3>2
  <2> HIDE DEF Path
  <2> QED BY <2>4
<1> HIDE DEF Path
<1>4. Len(ss) \in S
  <2> HIDE DEF S
  <2> QED BY <1>2, <1>3, AllNumbers
<1> DEFINE g == CHOOSE f : Path(Len(ss), f)
<1>5. Path(Len(ss), g)
  BY <1>4
<1>6. g[0] = <<>> /\ \A k \in 1 .. Len(ss) : g[k] = W(g[k - 1], k)
  <2> HIDE DEF g
  <2>1. g = [k \in 0 .. Len(ss) |-> IF k = 0 THEN <<>> ELSE W(g[k - 1], k)]
    BY <1>5 DEF Path
  <2> QED BY <2>1
<1>7. g[Len(ss)] = Joined(ss)
  BY <1>1
<1> HIDE DEF g
<1> QED BY <1>6, <1>7 DEF W, JoinsBy

\* What the pass has made of the first k segments of ss.
JoinedTo(out, ss, k) ==
  /\ out \in Seq(Segment) /\ Gaps(out)
  /\ k > 0 => Len(out) > 0 /\ End(out[Len(out)]) = End(ss[k])
  /\ k = 0 => out = <<>>
  /\ \A b \in Nat : InSome(b, out) <=> \E j \in 1 .. k : In(b, ss[j])

LEMMA AddsOne ==
  ASSUME NEW ss \in Seq(Segment), FromLow(ss), NEW k \in 1 .. Len(ss),
         NEW out, JoinedTo(out, ss, k - 1)
  PROVE  JoinedTo(Adds(out, ss[k]), ss, k)
<1> DEFINE s == ss[k]
           n == Len(out)
           new == Adds(out, s)
<1>1. /\ s \in Segment /\ s.at \in Nat /\ s.len \in Nat \ {0} /\ k \in Nat \ {0}
      /\ End(s) = s.at + s.len
  <2>1. s \in Segment /\ k \in Nat \ {0}
    OBVIOUS
  <2> QED BY <2>1, SegmentFields
<1>2. /\ n \in Nat /\ out \in Seq(Segment) /\ Gaps(out) /\ DOMAIN out = 1 .. n
      /\ \A j \in 1 .. n : /\ out[j] \in Segment /\ out[j].at \in Nat /\ out[j].len \in Nat \ {0}
                           /\ End(out[j]) = out[j].at + out[j].len
  <2>1. n \in Nat /\ out \in Seq(Segment) /\ Gaps(out) /\ DOMAIN out = 1 .. n
    BY DEF JoinedTo
  <2>2. \A j \in 1 .. n : out[j] \in Segment
    BY <2>1
  <2> QED BY <2>1, <2>2, SegmentFields
<1>3. n > 0 => End(out[n]) <= s.at
  <2>1. CASE k = 1
    BY <2>1 DEF JoinedTo
  <2>2. CASE k > 1
    <3>1. k - 1 \in DOMAIN ss /\ k \in DOMAIN ss /\ k - 1 < k /\ k - 1 > 0
      BY <2>2
    <3>2. End(ss[k - 1]) <= s.at
      BY <3>1 DEF FromLow
    <3>3. End(out[n]) = End(ss[k - 1])
      BY <3>1 DEF JoinedTo
    <3> QED BY <3>2, <3>3
  <2> QED BY <1>1, <2>1, <2>2
<1>4. \A b \in Nat : (\E j \in 1 .. k : In(b, ss[j])) <=> (\E j \in 1 .. k - 1 : In(b, ss[j])) \/ In(b, s)
  BY <1>1
<1>a. new = IF n > 0 /\ End(out[n]) >= s.at
            THEN [out EXCEPT ![n].len = Longer(@, End(s) - out[n].at)] ELSE Append(out, s)
  BY DEF Adds
<1> HIDE DEF s, n, new
<1>5. CASE n > 0 /\ End(out[n]) >= s.at
  <2> DEFINE l == [out[n] EXCEPT !.len = End(s) - out[n].at]
  <2>1. n \in 1 .. n
    BY <1>2, <1>5
  <2>2. End(out[n]) = s.at /\ End(out[n]) = out[n].at + out[n].len /\ out[n].at \in Nat /\ out[n].len \in Nat \ {0}
    <3>1. out[n].at \in Nat /\ out[n].len \in Nat \ {0} /\ End(out[n]) = out[n].at + out[n].len
      BY <1>2, <2>1
    <3> QED BY SMTT(30), <1>1, <1>3, <1>5, <3>1
  <2>3. l \in Segment /\ l.at = out[n].at /\ End(l) = End(s)
    <3>1. End(s) - out[n].at \in Nat \ {0}
      <4> DEFINE low == out[n].at
                 size == out[n].len
      <4>1. low \in Nat /\ size \in Nat \ {0} /\ low + size = s.at /\ End(s) = s.at + s.len
        BY <1>1, <2>2
      <4> HIDE DEF low, size
      <4>2. End(s) - low \in Nat \ {0}
        BY SMTT(30), <1>1, <4>1
      <4> QED BY <4>2 DEF low
    <3>2. out[n] \in [at : Nat, len : Nat \ {0}]
      BY <1>2, <2>1 DEF Segment
    <3>3. l \in Segment /\ l.at = out[n].at /\ l.len = End(s) - out[n].at
      BY <3>1, <3>2 DEF Segment
    <3>4. End(l) = l.at + l.len
      BY <3>3, SegmentFields
    <3> QED BY <1>1, <2>2, <3>3, <3>4
  <2>4. new = [out EXCEPT ![n] = l]
    <3>1. Longer(out[n].len, End(s) - out[n].at) = End(s) - out[n].at
      BY SMTT(30), <1>1, <2>2 DEF Longer
    <3>2. new = [out EXCEPT ![n].len = Longer(@, End(s) - out[n].at)]
      BY <1>a, <1>5
    <3> QED BY <1>2, <2>1, <3>1, <3>2
  <2> HIDE DEF l
  <2>5. /\ new \in Seq(Segment) /\ Len(new) = n /\ DOMAIN new = 1 .. n
        /\ new[n] = l /\ \A j \in 1 .. n - 1 : new[j] = out[j]
    BY <1>2, <2>1, <2>3, <2>4
  <2>6. Gaps(new)
    <3> SUFFICES ASSUME NEW i \in 1 .. n, NEW j \in 1 .. n, i < j PROVE End(new[i]) < new[j].at
      BY <2>5 DEF Gaps
    <3>1. End(out[i]) < out[j].at
      BY <1>2 DEF Gaps
    <3>2. new[i] = out[i] /\ new[j].at = out[j].at
      BY <1>2, <2>3, <2>5
    <3> QED BY <3>1, <3>2
  <2>7. ASSUME NEW b \in Nat PROVE In(b, l) <=> In(b, out[n]) \/ In(b, s)
    <3>1. In(b, l) <=> out[n].at <= b /\ b < s.at + s.len
      BY <1>1, <2>3 DEF In
    <3>2. In(b, out[n]) <=> out[n].at <= b /\ b < s.at
      BY <2>2 DEF In
    <3>3. In(b, s) <=> s.at <= b /\ b < s.at + s.len
      BY <1>1 DEF In
    <3>4. out[n].at < s.at
      BY <2>2
    <3> QED BY SMTT(30), <1>1, <2>2, <3>1, <3>2, <3>3, <3>4
  <2>8. ASSUME NEW b \in Nat PROVE InSome(b, new) <=> InSome(b, out) \/ In(b, s)
    <3>1. InSome(b, new) <=> In(b, l) \/ \E j \in 1 .. n - 1 : In(b, out[j])
      <4>1. DOMAIN new = (1 .. n - 1) \cup {n}
        BY <1>2, <2>1, <2>5
      <4>2. InSome(b, new) <=> In(b, new[n]) \/ \E j \in 1 .. n - 1 : In(b, new[j])
        BY <4>1, Zenon DEF InSome
      <4>3. \A j \in 1 .. n - 1 : In(b, new[j]) <=> In(b, out[j])
        BY <2>5
      <4> QED BY <2>5, <4>2, <4>3
    <3>2. InSome(b, out) <=> In(b, out[n]) \/ \E j \in 1 .. n - 1 : In(b, out[j])
      <4>1. DOMAIN out = (1 .. n - 1) \cup {n}
        BY <1>2, <2>1
      <4> QED BY <4>1, Zenon DEF InSome
    <3> QED BY <3>1, <3>2, <2>7
  <2>20. \A b \in Nat : InSome(b, new) <=> \E j \in 1 .. k : In(b, ss[j])
    <3>1. \A b \in Nat : InSome(b, out) <=> \E j \in 1 .. k - 1 : In(b, ss[j])
      BY DEF JoinedTo
    <3> QED BY <1>4, <2>8, <3>1
  <2>21. Len(new) > 0 /\ End(new[Len(new)]) = End(ss[k])
    BY <1>1, <1>2, <2>5, <1>5, <2>1, <2>3 DEF s
  <2> QED BY <1>1, <2>5, <2>6, <2>20, <2>21 DEF JoinedTo, new, s
<1>6. CASE ~(n > 0 /\ End(out[n]) >= s.at)
  <2>1. new = Append(out, s)
    BY <1>a, <1>6
  <2>2. /\ new \in Seq(Segment) /\ Len(new) = n + 1 /\ DOMAIN new = 1 .. n + 1
        /\ new[n + 1] = s /\ \A j \in 1 .. n : new[j] = out[j]
    BY <1>1, <1>2, <2>1
  <2>3. \A i \in 1 .. n : End(out[i]) < s.at
    <3> SUFFICES ASSUME NEW i \in 1 .. n PROVE End(out[i]) < s.at
      OBVIOUS
    <3>1. n > 0 /\ End(out[n]) < s.at /\ n \in 1 .. n
      BY SMTT(30), <1>1, <1>2, <1>6
    <3>2. CASE i < n
      <4>1. End(out[i]) < out[n].at
        BY <1>2, <3>1, <3>2 DEF Gaps
      <4>2. out[n].at <= End(out[n]) /\ out[n].at \in Nat /\ End(out[n]) \in Nat /\ End(out[i]) \in Nat
        <5>1. ASSUME NEW j \in 1 .. n
              PROVE  out[j].at \in Nat /\ End(out[j]) \in Nat /\ out[j].at <= End(out[j])
          <6>1. out[j].at \in Nat /\ out[j].len \in Nat \ {0} /\ End(out[j]) = out[j].at + out[j].len
            BY <1>2
          <6> QED BY SMTT(30), <6>1
        <5> QED BY <3>1, <5>1
      <4> QED BY SMTT(30), <1>1, <3>1, <4>1, <4>2
    <3> QED BY <1>2, <3>1, <3>2
  <2>4. Gaps(new)
    <3> SUFFICES ASSUME NEW i \in 1 .. n + 1, NEW j \in 1 .. n + 1, i < j PROVE End(new[i]) < new[j].at
      BY <2>2 DEF Gaps
    <3>1. CASE j = n + 1
      BY <1>2, <2>2, <2>3, <3>1
    <3>2. CASE j \in 1 .. n
      <4>1. i \in 1 .. n
        BY <1>2, <3>2
      <4> QED BY <1>2, <2>2, <3>2, <4>1 DEF Gaps
    <3> QED BY <1>2, <3>1, <3>2
  <2>5. ASSUME NEW b \in Nat PROVE InSome(b, new) <=> InSome(b, out) \/ In(b, s)
    <3>1. DOMAIN new = DOMAIN out \cup {n + 1} /\ \A j \in DOMAIN out : new[j] = out[j]
      BY <1>2, <2>2
    <3>2. InSome(b, new) <=> In(b, new[n + 1]) \/ \E j \in DOMAIN out : In(b, new[j])
      BY <3>1, Zenon DEF InSome
    <3>3. (\E j \in DOMAIN out : In(b, new[j])) <=> InSome(b, out)
      BY <3>1, Zenon DEF InSome
    <3> QED BY <2>2, <3>2, <3>3
  <2>20. \A b \in Nat : InSome(b, new) <=> \E j \in 1 .. k : In(b, ss[j])
    <3>1. \A b \in Nat : InSome(b, out) <=> \E j \in 1 .. k - 1 : In(b, ss[j])
      BY DEF JoinedTo
    <3> QED BY <1>4, <2>5, <3>1
  <2>21. Len(new) > 0 /\ End(new[Len(new)]) = End(ss[k])
    BY <1>1, <1>2, <2>2, <2>2 DEF s
  <2> QED BY <1>1, <2>2, <2>4, <2>20, <2>21 DEF JoinedTo, new, s
<1> QED BY <1>5, <1>6

\* A pass over segments from low to high leaves gaps, and loses or adds no block.
LEMMA JoinedJoins ==
  ASSUME NEW ss \in Seq(Segment), FromLow(ss)
  PROVE  /\ Joined(ss) \in Seq(Segment) /\ Gaps(Joined(ss))
         /\ \A b \in Nat : InSome(b, Joined(ss)) <=> InSome(b, ss)
<1>1. Len(ss) \in Nat /\ DOMAIN ss = 1 .. Len(ss)
  OBVIOUS
<1>2. PICK g : JoinsBy(ss, g)
  BY <1>1, JoinedOneByOne
<1> DEFINE S == {k \in Nat : k <= Len(ss) => JoinedTo(g[k], ss, k)}
<1>3. 0 \in S
  <2>1. g[0] = <<>> /\ DOMAIN <<>> = {} /\ <<>> \in Seq(Segment)
    BY <1>2 DEF JoinsBy
  <2>2. JoinedTo(<<>>, ss, 0)
    BY <2>1 DEF JoinedTo, Gaps, InSome
  <2> QED BY <2>1, <2>2
<1>4. ASSUME NEW k \in Nat, k \in S PROVE k + 1 \in S
  <2> SUFFICES ASSUME k + 1 <= Len(ss) PROVE JoinedTo(g[k + 1], ss, k + 1)
    OBVIOUS
  <2>1. k + 1 \in 1 .. Len(ss) /\ (k + 1) - 1 = k /\ k <= Len(ss)
    BY <1>1
  <2>2. JoinedTo(g[k], ss, k)
    BY <1>4, <2>1
  <2>3. g[k + 1] = Adds(g[k], ss[k + 1])
    BY <1>2, <2>1 DEF JoinsBy
  <2>4. JoinedTo(g[k], ss, (k + 1) - 1)
    BY <2>1, <2>2
  <2>5. JoinedTo(Adds(g[k], ss[k + 1]), ss, k + 1)
    BY <2>1, <2>4, AddsOne
  <2> QED BY <2>3, <2>5
<1>5. Len(ss) \in S
  <2> HIDE DEF S
  <2> QED BY <1>1, <1>3, <1>4, AllNumbers
<1>6. JoinedTo(Joined(ss), ss, Len(ss))
  BY <1>1, <1>2, <1>5 DEF JoinsBy
<1> QED BY <1>1, <1>6 DEF JoinedTo, InSome

-----------------------------------------------------------------------------
LEMMA SmemInitial == smemInit => SmemInv
<1> SUFFICES ASSUME smemInit PROVE SmemInv
  OBVIOUS
<1> DEFINE s == [at |-> SmemHead, len |-> SmemSize]
<1>1. s \in Segment /\ free_segs = <<s>> /\ alloced_segs = {}
  BY SmemAssumption DEF smemInit, Segment
<1>2. s.at = SmemHead /\ End(s) = SmemHead + SmemSize
  BY DEF End
<1> HIDE DEF s
<1>3. free_segs \in Seq(Segment) /\ DOMAIN free_segs = {1} /\ free_segs[1] = s
  BY <1>1
<1>4. Gaps(free_segs)
  BY <1>3 DEF Gaps
<1>5. \A b \in Nat : (SmemHead <= b /\ b < SmemHead + SmemSize) <=> InSome(b, free_segs)
  BY <1>2, <1>3 DEF In, InSome
<1> QED BY <1>1, <1>3, <1>4, <1>5 DEF SmemInv

\* The first segment that is long enough gives its lower end, or all of it.
LEMMA SmemAllocStep == ASSUME SmemInv, 0 \notin SmemLens, smem_alloc PROVE SmemInv'
<1>1. PICK n \in SmemLens, k \in DOMAIN free_segs :
        /\ Fits(k, n)
        /\ alloced_segs' = Recorded(alloced_segs, [at |-> free_segs[k].at, len |-> n])
        /\ free_segs' = IF free_segs[k].len = n THEN RemoveAt(free_segs, k)
                        ELSE ReplaceAt(free_segs, k, Shortened(free_segs[k], n))
  BY DEF smem_alloc
<1> DEFINE m == Len(free_segs)
           s == free_segs[k]
           a == [at |-> s.at, len |-> n]
           r == Shortened(s, n)
<1>2. /\ free_segs \in Seq(Segment) /\ alloced_segs \subseteq Segment /\ Gaps(free_segs)
      /\ m \in Nat /\ DOMAIN free_segs = 1 .. m /\ k \in 1 .. m /\ s \in Segment
      /\ n \in Nat \ {0}
  BY SmemAssumption DEF SmemInv
<1>3. /\ s.at \in Nat /\ s.len \in Nat \ {0} /\ End(s) = s.at + s.len /\ n <= s.len
      /\ \A j \in 1 .. m : free_segs[j].at \in Nat /\ free_segs[j].len \in Nat \ {0}
                           /\ End(free_segs[j]) = free_segs[j].at + free_segs[j].len
      /\ \A t \in alloced_segs : t.at \in Nat /\ t.len \in Nat \ {0} /\ End(t) = t.at + t.len
  <2>1. n <= s.len
    BY <1>1, <1>2 DEF Fits, Segment
  <2>2. \A j \in 1 .. m : free_segs[j] \in Segment
    BY <1>2
  <2> QED BY <1>2, <2>1, <2>2, SegmentFields
<1>4. a \in Segment /\ a.at = s.at /\ End(a) = s.at + n
  BY <1>2, <1>3 DEF Segment, End
<1>5. r.at = s.at + n /\ r.len = s.len - n /\ End(r) = End(s)
  <2>1. r.at = s.at + n /\ r.len = s.len - n
    BY DEF Shortened
  <2>2. End(r) = r.at + r.len
    BY DEF End
  <2> HIDE DEF r, s
  <2> QED BY <1>2, <1>3, <2>1, <2>2
<1>6. \A t \in alloced_segs : Clear(s, t)
  BY <1>2 DEF SmemInv
<1>7. alloced_segs' = alloced_segs \cup {a}
  <2>1. \A t \in alloced_segs : t.at # s.at
    BY <1>3, <1>6 DEF Clear
  <2> QED BY <1>1, <1>4, <2>1 DEF Recorded
<1>8. \A t \in alloced_segs : Clear(a, t) /\ Clear(t, a)
  BY <1>2, <1>3, <1>4, <1>6 DEF Clear
<1>9. \A t \in alloced_segs' : \A u \in alloced_segs' : t # u => Clear(t, u)
  <2>1. \A t, u \in alloced_segs : t # u => Clear(t, u)
    BY DEF SmemInv
  <2> QED BY <1>7, <1>8, <2>1
\* A free segment elsewhere is clear of the new one.
<1>10. \A j \in 1 .. m : j # k => Clear(free_segs[j], a)
  <2> SUFFICES ASSUME NEW j \in 1 .. m, j # k PROVE Clear(free_segs[j], a)
    OBVIOUS
  <2>1. IF j < k THEN End(free_segs[j]) < s.at ELSE End(s) < free_segs[j].at
    BY <1>2 DEF Gaps
  <2> DEFINE u == free_segs[j]
  <2>2. u.at \in Nat /\ u.len \in Nat /\ End(u) = u.at + u.len
    BY <1>3
  <2>3. /\ s.at \in Nat /\ s.len \in Nat /\ End(s) = s.at + s.len
        /\ n \in Nat /\ n <= s.len /\ a.at = s.at /\ End(a) = s.at + n
    BY <1>2, <1>3, <1>4
  <2>4. IF j < k THEN End(u) < s.at ELSE End(s) < u.at
    BY <2>1
  <2> HIDE DEF a, s, m, u
  <2>5. End(u) <= a.at \/ End(a) <= u.at
    BY <2>2, <2>3, <2>4
  <2> QED BY <2>5 DEF Clear, u
<1>11. \A b \in Nat : (\E t \in alloced_segs' : In(b, t)) <=> (\E t \in alloced_segs : In(b, t)) \/ In(b, a)
  BY <1>7, Zenon
<1>12. \A b \in Nat : (SmemHead <= b /\ b < SmemHead + SmemSize)
                      <=> (InSome(b, free_segs) \/ \E t \in alloced_segs : In(b, t))
  BY DEF SmemInv
<1>13. \A b \in Nat : InSome(b, free_segs) <=> In(b, s) \/ \E j \in (1 .. m) \ {k} : In(b, free_segs[j])
  BY <1>2, Zenon DEF InSome
<1> HIDE DEF m, s, a, r
<1>14. CASE s.len = n
  <2> DEFINE new == free_segs'
             old(j) == IF j < k THEN j ELSE j + 1
  <2>1. /\ new \in Seq(Segment) /\ Len(new) = m - 1
        /\ \A j \in 1 .. m - 1 : new[j] = IF j < k THEN free_segs[j] ELSE free_segs[j + 1]
    BY <1>1, <1>2, <1>14, Removed DEF m, s
  <2>2. /\ new \in Seq(Segment) /\ DOMAIN new = 1 .. m - 1
        /\ \A j \in 1 .. m - 1 : new[j] = free_segs[old(j)] /\ old(j) \in (1 .. m) \ {k}
    <3> HIDE DEF new
    <3> QED BY <1>2, <2>1
  <2>3. \A j \in (1 .. m) \ {k} : \E i \in 1 .. m - 1 : old(i) = j
    <3> SUFFICES ASSUME NEW j \in (1 .. m) \ {k} PROVE \E i \in 1 .. m - 1 : old(i) = j
      OBVIOUS
    <3>1. CASE j < k
      BY <1>2, <3>1
    <3>2. CASE j > k
      <4>1. j - 1 \in 1 .. m - 1 /\ old(j - 1) = j
        BY <1>2, <3>2
      <4> QED BY <4>1
    <3> QED BY <1>2, <3>1, <3>2
  <2>4. \A i, j \in 1 .. m - 1 : i < j => old(i) < old(j)
    BY <1>2
  <2> HIDE DEF new, old
  <2>5. Gaps(new)
    BY <1>2, <2>2, <2>4 DEF Gaps
  <2>6. \A b \in Nat : InSome(b, new) <=> \E j \in (1 .. m) \ {k} : In(b, free_segs[j])
    <3> SUFFICES ASSUME NEW b \in Nat
                 PROVE  InSome(b, new) <=> \E j \in (1 .. m) \ {k} : In(b, free_segs[j])
      OBVIOUS
    <3>1. ASSUME NEW j \in 1 .. m - 1, In(b, new[j]) PROVE \E i \in (1 .. m) \ {k} : In(b, free_segs[i])
      BY <2>2, <3>1
    <3>2. ASSUME NEW j \in (1 .. m) \ {k}, In(b, free_segs[j]) PROVE \E i \in 1 .. m - 1 : In(b, new[i])
      BY <2>2, <2>3, <3>2
    <3> QED BY <2>2, <3>1, <3>2 DEF InSome
  <2>7. \A b \in Nat : In(b, a) <=> In(b, s)
    BY <1>3, <1>4, <1>14 DEF In
  <2>8. \A b \in Nat : (SmemHead <= b /\ b < SmemHead + SmemSize)
                       <=> (InSome(b, new) \/ \E t \in alloced_segs' : In(b, t))
    BY <1>11, <1>12, <1>13, <2>6, <2>7
  <2>9. \A j \in DOMAIN new : \A t \in alloced_segs' : Clear(new[j], t)
    <3>1. \A j \in (1 .. m) \ {k} : \A t \in alloced_segs : Clear(free_segs[j], t)
      BY <1>2 DEF SmemInv
    <3> QED BY <1>7, <1>10, <2>2, <3>1
  <2> QED BY <1>2, <1>4, <1>7, <1>9, <2>2, <2>5, <2>8, <2>9 DEF SmemInv, new
<1>15. CASE s.len # n
  <2> DEFINE new == free_segs'
  <2>1. r \in Segment
    <3>1. s.at + n \in Nat /\ s.len - n \in Nat \ {0}
      BY SMTT(30), <1>2, <1>3, <1>15
    <3>2. r = [at |-> s.at + n, len |-> s.len - n]
      BY <1>2 DEF r, Shortened, Segment
    <3> HIDE DEF r
    <3> QED BY <3>1, <3>2 DEF Segment
  <2>2. /\ new \in Seq(Segment) /\ DOMAIN new = 1 .. m /\ new[k] = r
        /\ \A j \in (1 .. m) \ {k} : new[j] = free_segs[j]
    BY <1>1, <1>2, <1>15, <2>1 DEF ReplaceAt, s, r
  <2> HIDE DEF new
  <2>3. \A j \in 1 .. m : End(new[j]) = End(free_segs[j]) /\ new[j].at >= free_segs[j].at /\ new[j].at \in Nat
    <3>1. End(new[k]) = End(free_segs[k]) /\ new[k].at >= free_segs[k].at /\ new[k].at \in Nat
      BY <1>2, <1>3, <1>5, <2>2 DEF s
    <3>2. \A j \in (1 .. m) \ {k} : End(new[j]) = End(free_segs[j]) /\ new[j].at = free_segs[j].at
      BY <2>2
    <3> QED BY <1>3, <3>1, <3>2
  <2>4. Gaps(new)
    <3> SUFFICES ASSUME NEW i \in 1 .. m, NEW j \in 1 .. m, i < j PROVE End(new[i]) < new[j].at
      BY <2>2 DEF Gaps
    <3>1. End(free_segs[i]) < free_segs[j].at
      BY <1>2 DEF Gaps
    <3>2. End(free_segs[i]) \in Nat /\ free_segs[j].at \in Nat
      BY <1>3
    <3> QED BY <2>3, <3>1, <3>2
  <2>5. \A b \in Nat : InSome(b, new) <=> In(b, r) \/ \E j \in (1 .. m) \ {k} : In(b, free_segs[j])
    <3>1. \A b \in Nat : InSome(b, new) <=> In(b, new[k]) \/ \E j \in (1 .. m) \ {k} : In(b, new[j])
      BY <1>2, <2>2, Zenon DEF InSome
    <3> QED BY <2>2, <3>1
  <2>6. \A b \in Nat : In(b, s) <=> In(b, a) \/ In(b, r)
    BY SMTT(30), <1>2, <1>3, <1>4, <1>5 DEF In
  <2>7. \A b \in Nat : (SmemHead <= b /\ b < SmemHead + SmemSize)
                       <=> (InSome(b, new) \/ \E t \in alloced_segs' : In(b, t))
    BY <1>11, <1>12, <1>13, <2>5, <2>6
  <2>8. \A j \in DOMAIN new : \A t \in alloced_segs' : Clear(new[j], t)
    <3>1. \A j \in (1 .. m) \ {k} : \A t \in alloced_segs : Clear(free_segs[j], t)
      BY <1>2 DEF SmemInv
    <3>2. ASSUME NEW t \in alloced_segs PROVE Clear(r, t)
      <4>1. End(s) <= t.at \/ End(t) <= s.at
        BY <1>6 DEF Clear
      <4>2. s.at \in Nat /\ s.len \in Nat /\ End(s) = s.at + s.len /\ n \in Nat
        BY <1>2, <1>3
      <4>3. t.at \in Nat /\ t.len \in Nat /\ End(t) = t.at + t.len
        BY <1>3
      <4> HIDE DEF r, s
      <4>4. End(r) <= t.at \/ End(t) <= r.at
        BY <1>5, <4>1, <4>2, <4>3
      <4> QED BY <4>4 DEF Clear
    <3>3. Clear(r, a)
      BY <1>2, <1>3, <1>4, <1>5 DEF Clear
    <3> QED BY <1>7, <1>10, <2>2, <3>1, <3>2, <3>3
  <2> QED BY <1>2, <1>4, <1>7, <1>9, <2>2, <2>4, <2>7, <2>8 DEF SmemInv, new
<1> QED BY <1>14, <1>15

\* A segment given back comes behind those that are lower, and the pass joins it.
LEMMA SmemFreeStep == ASSUME SmemInv, smem_free PROVE SmemInv'
<1>1. PICK s \in alloced_segs :
        LET higher == {k \in DOMAIN free_segs : free_segs[k].at > s.at}
            k == IF higher = {} THEN Len(free_segs) + 1
                 ELSE CHOOSE j \in higher : \A i \in higher : j <= i
        IN  /\ alloced_segs' = alloced_segs \ {s}
            /\ free_segs' = Joined(InsertAt(free_segs, k, s))
  BY DEF smem_free
<1> DEFINE m == Len(free_segs)
           higher == {j \in DOMAIN free_segs : free_segs[j].at > s.at}
           k == IF higher = {} THEN m + 1 ELSE CHOOSE j \in higher : \A i \in higher : j <= i
           ss == InsertAt(free_segs, k, s)
<1>2. /\ free_segs \in Seq(Segment) /\ alloced_segs \subseteq Segment /\ Gaps(free_segs)
      /\ m \in Nat /\ DOMAIN free_segs = 1 .. m /\ s \in Segment
  BY DEF SmemInv
<1>3. /\ s.at \in Nat /\ s.len \in Nat \ {0} /\ End(s) = s.at + s.len
      /\ \A j \in 1 .. m : free_segs[j].at \in Nat /\ free_segs[j].len \in Nat \ {0}
                           /\ End(free_segs[j]) = free_segs[j].at + free_segs[j].len
  <2>2. \A j \in 1 .. m : free_segs[j] \in Segment
    BY <1>2
  <2> QED BY <1>2, <2>2, SegmentFields
<1>4. \A j \in 1 .. m : Clear(free_segs[j], s)
  BY <1>2 DEF SmemInv
<1>5. /\ k \in 1 .. m + 1
      /\ \A j \in 1 .. m : IF j < k THEN End(free_segs[j]) <= s.at ELSE End(s) <= free_segs[j].at
  <2>1. \A j \in 1 .. m : IF free_segs[j].at > s.at THEN End(s) <= free_segs[j].at
                          ELSE End(free_segs[j]) <= s.at
    BY SMTT(30), <1>3, <1>4 DEF Clear
  <2>2. CASE higher = {}
    <3>1. k = m + 1
      BY <2>2
    <3>2. \A j \in 1 .. m : ~(free_segs[j].at > s.at)
      BY <1>2, <2>2
    <3> HIDE DEF k
    <3> QED BY <1>2, <2>1, <3>1, <3>2
  <2>3. CASE higher # {}
    <3>1. higher \subseteq 1 .. m
      BY <1>2
    <3>2. PICK h \in higher : \A i \in higher : h <= i
      <4>1. higher \subseteq Nat
        BY <3>1
      <4> HIDE DEF higher
      <4> QED BY <2>3, <4>1, LeastNumber
    <3>3. k \in higher /\ \A i \in higher : k <= i
      BY <2>3, <3>2
    <3> HIDE DEF k
    <3>4. k \in 1 .. m /\ free_segs[k].at > s.at
      BY <1>2, <3>3
    <3>5. ASSUME NEW j \in 1 .. m
          PROVE  IF j < k THEN End(free_segs[j]) <= s.at ELSE End(s) <= free_segs[j].at
      <4>1. CASE j < k
        <5>1. ~(free_segs[j].at > s.at)
          BY <1>2, <3>3, <3>4, <4>1
        <5> QED BY <2>1, <4>1, <5>1
      <4>2. CASE ~(j < k)
        <5>1. free_segs[j].at > s.at
          <6>1. CASE j = k
            BY <3>4, <6>1
          <6>2. CASE k < j
            <7>1. End(free_segs[k]) < free_segs[j].at
              BY <1>2, <3>4, <6>2 DEF Gaps
            <7>2. free_segs[k].at < End(free_segs[k]) /\ free_segs[k].at \in Nat /\ End(free_segs[k]) \in Nat
              BY SMTT(30), <1>3, <3>4
            <7>3. free_segs[j].at \in Nat
              BY <1>3
            <7> QED BY SMTT(30), <1>3, <3>4, <7>1, <7>2, <7>3
          <6> QED BY <3>4, <4>2, <6>1, <6>2
        <5> QED BY <2>1, <4>2, <5>1
      <4> QED BY <4>1, <4>2
    <3> QED BY <1>2, <3>4, <3>5
  <2> QED BY <2>2, <2>3
<1>6. alloced_segs' = alloced_segs \ {s} /\ free_segs' = Joined(ss)
  BY <1>1
<1> HIDE DEF k, higher
<1> DEFINE new(j) == IF j < k THEN j ELSE j + 1
<1>7. /\ ss \in Seq(Segment) /\ DOMAIN ss = 1 .. m + 1 /\ ss[k] = s
      /\ \A j \in 1 .. k - 1 : ss[j] = free_segs[j]
      /\ \A j \in k + 1 .. m + 1 : ss[j] = free_segs[j - 1]
  <2>1. /\ ss \in Seq(Segment) /\ Len(ss) = m + 1 /\ ss[k] = s
        /\ \A j \in 1 .. k - 1 : ss[j] = free_segs[j]
        /\ \A j \in k + 1 .. m + 1 : ss[j] = free_segs[j - 1]
    <3>1. k \in 1 .. Len(free_segs) + 1
      BY <1>5
    <3>2. free_segs \in Seq(Segment) /\ s \in Segment
      BY <1>2
    <3>3. ASSUME NEW i \in 1 .. Len(free_segs) + 1
          PROVE  LET r == InsertAt(free_segs, i, s)
                 IN  /\ r \in Seq(Segment) /\ Len(r) = Len(free_segs) + 1 /\ r[i] = s
                     /\ \A j \in 1 .. i - 1 : r[j] = free_segs[j]
                     /\ \A j \in i + 1 .. Len(free_segs) + 1 : r[j] = free_segs[j - 1]
      <4> HIDE DEF m
      <4> QED BY <3>2, Inserted
    <3> QED BY <3>1, <3>3
  <2> HIDE DEF ss
  <2> QED BY <2>1
<1> HIDE DEF ss
<1>8. FromLow(ss)
  <2> SUFFICES ASSUME NEW i \in 1 .. m + 1, NEW j \in 1 .. m + 1, i < j PROVE End(ss[i]) <= ss[j].at
    BY <1>7 DEF FromLow
  <2>1. CASE i = k
    <3>1. j - 1 \in 1 .. m /\ ~(j - 1 < k) /\ ss[j] = free_segs[j - 1] /\ ss[i] = s
      BY <1>2, <1>5, <1>7, <2>1
    <3> QED BY <1>5, <3>1
  <2>2. CASE j = k
    <3>1. i \in 1 .. m /\ i < k /\ ss[i] = free_segs[i] /\ ss[j] = s
      BY <1>2, <1>5, <1>7, <2>2
    <3> QED BY <1>5, <3>1
  <2>3. CASE i # k /\ j # k
    <3> DEFINE p == IF i < k THEN i ELSE i - 1
               q == IF j < k THEN j ELSE j - 1
    <3>1. p \in 1 .. m /\ q \in 1 .. m /\ p < q /\ ss[i] = free_segs[p] /\ ss[j] = free_segs[q]
      BY <1>2, <1>5, <1>7, <2>3
    <3> HIDE DEF p, q
    <3>2. End(free_segs[p]) < free_segs[q].at
      BY <1>2, <3>1 DEF Gaps
    <3>3. End(free_segs[p]) \in Nat /\ free_segs[q].at \in Nat
      BY SMTT(30), <1>3, <3>1
    <3> QED BY <3>1, <3>2, <3>3
  <2> QED BY <2>1, <2>2, <2>3
<1>9. \A b \in Nat : InSome(b, ss) <=> InSome(b, free_segs) \/ In(b, s)
  <2> SUFFICES ASSUME NEW b \in Nat PROVE InSome(b, ss) <=> InSome(b, free_segs) \/ In(b, s)
    OBVIOUS
  <2>1. ASSUME NEW j \in 1 .. m + 1, In(b, ss[j]) PROVE InSome(b, free_segs) \/ In(b, s)
    <3>1. j = k \/ (j \in 1 .. m /\ ss[j] = free_segs[j]) \/ (j - 1 \in 1 .. m /\ ss[j] = free_segs[j - 1])
      BY <1>2, <1>5, <1>7
    <3> QED BY <1>2, <1>7, <2>1, <3>1 DEF InSome
  <2>2. ASSUME NEW j \in 1 .. m, In(b, free_segs[j]) PROVE \E i \in 1 .. m + 1 : In(b, ss[i])
    <3>1. new(j) \in 1 .. m + 1 /\ ss[new(j)] = free_segs[j]
      BY <1>2, <1>5, <1>7
    <3> HIDE DEF new
    <3> QED BY <2>2, <3>1
  <2>3. In(b, s) => \E i \in 1 .. m + 1 : In(b, ss[i])
    BY <1>5, <1>7
  <2> QED BY <1>2, <1>7, <2>1, <2>2, <2>3 DEF InSome
<1>10. /\ Joined(ss) \in Seq(Segment) /\ Gaps(Joined(ss))
       /\ \A b \in Nat : InSome(b, Joined(ss)) <=> InSome(b, ss)
  BY <1>7, <1>8, JoinedJoins
<1>11. \A t, u \in alloced_segs' : t # u => Clear(t, u)
  BY <1>6 DEF SmemInv
<1>12. \A b \in Nat : (SmemHead <= b /\ b < SmemHead + SmemSize)
                      <=> (InSome(b, Joined(ss)) \/ \E t \in alloced_segs' : In(b, t))
  <2>1. \A b \in Nat : (\E t \in alloced_segs : In(b, t)) <=> In(b, s) \/ \E t \in alloced_segs' : In(b, t)
    BY <1>6, Zenon
  <2>2. \A b \in Nat : (SmemHead <= b /\ b < SmemHead + SmemSize)
                       <=> (InSome(b, free_segs) \/ \E t \in alloced_segs : In(b, t))
    BY DEF SmemInv
  <2> QED BY <1>9, <1>10, <2>1, <2>2
<1>13. ASSUME NEW j \in DOMAIN Joined(ss), NEW t \in alloced_segs'
       PROVE  Clear(Joined(ss)[j], t)
  <2>1. t \in alloced_segs /\ t # s /\ t \in Segment /\ Joined(ss)[j] \in Segment
    BY <1>2, <1>6, <1>10
  <2>2. ASSUME NEW b \in Nat, In(b, Joined(ss)[j]), In(b, t) PROVE FALSE
    <3>1. InSome(b, free_segs) \/ In(b, s)
      BY <1>9, <1>10, <2>2 DEF InSome
    <3>2. Clear(s, t) /\ \A i \in 1 .. m : Clear(free_segs[i], t)
      BY <1>2, <2>1 DEF SmemInv
    <3>3. t.at \in Nat /\ End(t) \in Nat
      BY <2>1, SegmentFields
    <3>4. ~In(b, s)
      BY <1>3, <2>2, <3>2, <3>3 DEF Clear, In
    <3>5. ASSUME NEW i \in 1 .. m PROVE ~In(b, free_segs[i])
      <4>1. free_segs[i].at \in Nat /\ End(free_segs[i]) \in Nat /\ Clear(free_segs[i], t)
        BY <1>3, <3>2
      <4> QED BY <2>2, <3>3, <4>1 DEF Clear, In
    <3> QED BY <1>2, <3>1, <3>4, <3>5 DEF InSome
  <2> QED BY <2>1, <2>2, ClearOf
<1> QED BY <1>2, <1>6, <1>10, <1>11, <1>12, <1>13 DEF SmemInv

LEMMA SmemInvPartitions == ASSUME SmemInv PROVE SmemPartitioned
<1> DEFINE all == Range(free_segs) \cup alloced_segs
           blocks(s) == s.at .. s.at + s.len - 1
<1>1. /\ free_segs \in Seq(Segment) /\ alloced_segs \subseteq Segment /\ Gaps(free_segs)
      /\ Range(free_segs) = {free_segs[j] : j \in DOMAIN free_segs}
  BY DEF SmemInv, Range
<1>2. \A s \in all : s \in Segment
  BY <1>1
<1>3. ASSUME NEW s \in Segment, NEW b \in Int PROVE b \in blocks(s) <=> b \in Nat /\ In(b, s)
  <2>1. s.at \in Nat /\ s.len \in Nat \ {0} /\ End(s) = s.at + s.len
    BY SegmentFields
  <2> QED BY <2>1 DEF In
<1>4. ASSUME NEW s \in all, NEW r \in all, s # r PROVE Clear(s, r)
  <2>1. CASE s \in alloced_segs /\ r \in alloced_segs
    BY <1>4, <2>1 DEF SmemInv
  <2>2. CASE s \in Range(free_segs) /\ r \in alloced_segs
    BY <1>1, <2>2 DEF SmemInv
  <2>3. CASE s \in alloced_segs /\ r \in Range(free_segs)
    BY <1>1, <2>3 DEF SmemInv, Clear
  <2>4. CASE s \in Range(free_segs) /\ r \in Range(free_segs)
    <3>1. PICK i \in DOMAIN free_segs : s = free_segs[i]
      BY <1>1, <2>4
    <3>2. PICK j \in DOMAIN free_segs : r = free_segs[j]
      BY <1>1, <2>4
    <3>3. i \in Nat /\ j \in Nat /\ i # j
      BY <1>1, <1>4, <3>1, <3>2
    <3>4. IF i < j THEN End(s) < r.at ELSE End(r) < s.at
      BY <1>1, <3>1, <3>2, <3>3 DEF Gaps
    <3>5. s.at \in Nat /\ r.at \in Nat /\ End(s) \in Nat /\ End(r) \in Nat
      BY <1>2, SegmentFields
    <3> QED BY <3>4, <3>5 DEF Clear
  <2> QED BY <2>1, <2>2, <2>3, <2>4
<1>5. ASSUME NEW s \in all, NEW r \in all, s # r PROVE blocks(s) \cap blocks(r) = {}
  <2>1. /\ s.at \in Nat /\ s.len \in Nat \ {0} /\ End(s) = s.at + s.len
        /\ r.at \in Nat /\ r.len \in Nat \ {0} /\ End(r) = r.at + r.len
    BY <1>2, SegmentFields
  <2>2. Clear(s, r)
    BY <1>4, <1>5
  <2> QED BY <2>1, <2>2 DEF Clear
<1>6. UNION {blocks(s) : s \in all} = SmemHead .. SmemHead + SmemSize - 1
  <2>1. ASSUME NEW b PROVE b \in UNION {blocks(s) : s \in all} <=> b \in Nat /\ \E s \in all : In(b, s)
    <3>1. \A s \in all : b \in blocks(s) <=> b \in Nat /\ In(b, s)
      <4> SUFFICES ASSUME NEW s \in all PROVE b \in blocks(s) <=> b \in Nat /\ In(b, s)
        OBVIOUS
      <4>1. CASE b \in Int
        BY <1>2, <1>3, <4>1
      <4>2. CASE b \notin Int
        BY <4>2
      <4> QED BY <4>1, <4>2
    <3> HIDE DEF all, blocks
    <3> QED BY <3>1
  <2>2. \A b \in Nat : (\E s \in all : In(b, s)) <=> InSome(b, free_segs) \/ \E s \in alloced_segs : In(b, s)
    BY <1>1, Zenon DEF InSome
  <2>3. \A b \in Nat : (SmemHead <= b /\ b < SmemHead + SmemSize) <=> \E s \in all : In(b, s)
    BY <2>2 DEF SmemInv
  <2>4. \A b : b \in SmemHead .. SmemHead + SmemSize - 1
               <=> b \in Nat /\ SmemHead <= b /\ b < SmemHead + SmemSize
    BY SmemAssumption
  <2> HIDE DEF all, blocks
  <2> QED BY <2>1, <2>3, <2>4
<1>7. Range(free_segs) \cap alloced_segs = {}
  <2> SUFFICES ASSUME NEW j \in DOMAIN free_segs, free_segs[j] \in alloced_segs PROVE FALSE
    BY <1>1
  <2>1. Clear(free_segs[j], free_segs[j])
    BY DEF SmemInv
  <2>2. free_segs[j] \in Segment
    BY <1>1
  <2> QED BY <2>1, <2>2, SegmentFields DEF Clear
<1>8. \A k \in 1 .. Len(free_segs) - 1 : free_segs[k].at + free_segs[k].len < free_segs[k + 1].at
  BY <1>1 DEF Gaps, End
<1> HIDE DEF SmemInv
<1> QED BY <1>5, <1>6, <1>7, <1>8 DEF SmemPartitioned

\* If no request is for nothing, every block of the shared memory is in one segment, free or
\* given out, and free segments are as long as they can be (smem_alloc, smem_free).
THEOREM SmemNeverLost == 0 \notin SmemLens => (smemSpec => []SmemPartitioned)
<1> SUFFICES ASSUME 0 \notin SmemLens PROVE smemSpec => []SmemPartitioned
  OBVIOUS
<1>1. SmemInv /\ [smemNext]_smemVars => SmemInv'
  <2> SUFFICES ASSUME SmemInv, [smemNext]_smemVars PROVE SmemInv'
    OBVIOUS
  <2>1. CASE UNCHANGED smemVars
    BY <2>1 DEF SmemInv, smemVars, InSome
  <2> QED BY <2>1, SmemAllocStep, SmemFreeStep DEF smemNext
<1> QED BY <1>1, SmemInitial, SmemInvPartitions, PTL DEF smemSpec
-----------------------------------------------------------------------------
(* Scheduler: every step keeps SchedInv, which says where each thread is,  *)
(* that it can go on there, and what the tables of the waiting threads     *)
(* have to do with each other.  Its heart is Core, about the tables of the *)
(* scheduler and the set of threads that wait elsewhere: the lemmas Core.. *)
(* say what waiting, yielding, waking, starting, ending and cancelling do  *)
(* to it, whatever call they are part of.                                  *)

\* The states in which the waiters of a list are woken, one after the other.
WakesBy(s, ws, g) ==
  /\ g[0] = s /\ g[Len(ws)] = Woken(s, ws)
  /\ \A k \in 1 .. Len(ws) : g[k] = InsertReady(g[k - 1], ws[k].t, ws[k].cpu)
LEMMA WokenOneByOne ==
  ASSUME NEW s, NEW ws, Len(ws) \in Nat
  PROVE  \E g : WakesBy(s, ws, g)
<1> DEFINE W(x, k) == InsertReady(x, ws[k].t, ws[k].cpu)
           Path(m, f) == f = [k \in 0 .. m |-> IF k = 0 THEN s ELSE W(f[k - 1], k)]
           S == {m \in Nat : \E f : Path(m, f)}
<1>1. Woken(s, ws) = (CHOOSE f : Path(Len(ws), f))[Len(ws)]
  BY DEF Woken
<1> HIDE DEF W
<1>2. 0 \in S
  <2> DEFINE f == [k \in 0 .. 0 |-> s]
  <2>1. Path(0, f)
    OBVIOUS
  <2> QED BY <2>1
<1>3. ASSUME NEW m \in Nat, m \in S PROVE m + 1 \in S
  <2>1. PICK f : Path(m, f)
    BY <1>3
  <2> DEFINE h == [k \in 0 .. m + 1 |-> IF k = m + 1 THEN W(f[m], k) ELSE f[k]]
  <2>2. \A k \in 0 .. m : h[k] = f[k]
    OBVIOUS
  <2>3. ASSUME NEW k \in 0 .. m + 1
        PROVE  h[k] = IF k = 0 THEN s ELSE W(h[k - 1], k)
    <3>1. CASE k = 0
      <4>1. f[0] = s
        BY <2>1
      <4> QED BY <3>1, <4>1
    <3>2. CASE k \in 1 .. m
      <4>1. f[k] = W(f[k - 1], k)
        BY <2>1, <3>2
      <4>2. h[k - 1] = f[k - 1] /\ h[k] = f[k]
        BY <2>2, <3>2
      <4> QED BY <3>2, <4>1, <4>2
    <3>3. CASE k = m + 1
      <4>1. h[m] = f[m] /\ h[k] = W(f[m], k)
        BY <2>2, <3>3
      <4> QED BY <3>3, <4>1
    <3> QED BY <3>1, <3>2, <3>3
  <2>4. Path(m + 1, h)
    <3>1. h = [k \in 0 .. m + 1 |-> h[k]]
      OBVIOUS
    <3> HIDE DEF h
    <3>2. [k \in 0 .. m + 1 |-> h[k]] = [k \in 0 .. m + 1 |-> IF k = 0 THEN s ELSE W(h[k - 1], k)]
      BY <2>3
    <3> QED BY <3>1, <3>2
  <2> HIDE DEF Path
  <2> QED BY <2>4
<1> HIDE DEF Path
<1>4. Len(ws) \in S
  <2> HIDE DEF S
  <2> QED BY <1>2, <1>3, AllNumbers
<1> DEFINE g == CHOOSE f : Path(Len(ws), f)
<1>5. Path(Len(ws), g)
  BY <1>4
<1>6. g[0] = s /\ \A k \in 1 .. Len(ws) : g[k] = W(g[k - 1], k)
  <2> HIDE DEF g
  <2>1. g = [k \in 0 .. Len(ws) |-> IF k = 0 THEN s ELSE W(g[k - 1], k)]
    BY <1>5 DEF Path
  <2> QED BY <2>1
<1>7. g[Len(ws)] = Woken(s, ws)
  BY <1>1
<1> HIDE DEF g
<1> QED BY <1>6, <1>7 DEF W, WakesBy

\* What At picks out of a list: the entries at the places ks, each once.
Picks(p, r, ws, ks) ==
  /\ DOMAIN r = DOMAIN p
  /\ \A i \in DOMAIN p : p[i] \in ks /\ r[i] = ws[p[i]]
  /\ \A i, j \in DOMAIN p : p[i] = p[j] => i = j
  /\ \A k \in ks : \E i \in DOMAIN p : p[i] = k
LEMMA PickedOut ==
  ASSUME NEW S, NEW ws \in Seq(S), NEW ks \in SUBSET DOMAIN ws
  PROVE  At(ws, ks) \in Seq(S) /\ \E p : Picks(p, At(ws, ks), ws, ks)
<1> DEFINE N == Cardinality(ks)
           r == [k \in ks |-> Rank(ks, k)]
           p == [i \in 1 .. N |-> CHOOSE k \in ks : Rank(ks, k) = i]
           n == Len(ws)
<1>a. n \in Nat /\ DOMAIN ws = 1 .. n /\ \A k \in ks : ws[k] \in S
  OBVIOUS
<1>b. ks \subseteq 1 .. n
  BY <1>a
<1> HIDE DEF n
<1>0. \A k \in ks : k \in Int
  BY <1>a, <1>b
<1>1. IsFiniteSet(ks) /\ N \in Nat /\ N <= n
  <2>1. IsFiniteSet(1 .. n) /\ Cardinality(1 .. n) = n
    BY <1>a, FS_Interval
  <2>2. IsFiniteSet(ks) /\ Cardinality(ks) <= n
    BY ZenonT(60), <1>b, <2>1, FS_Subset
  <2> QED BY <2>2, FS_CardinalityType
<1>2. ASSUME NEW k \in ks PROVE Rank(ks, k) \in 1 .. N
  <2> DEFINE low == {j \in ks : j <= k}
  <2>1. low \subseteq ks /\ k \in low
    BY <1>0
  <2> HIDE DEF low
  <2>2. IsFiniteSet(low) /\ Cardinality(low) <= N /\ Cardinality(low) \in Nat
    BY <1>1, <2>1, FS_Subset, FS_CardinalityType
  <2>3. Cardinality(low) # 0
    BY <2>1, <2>2, FS_EmptySet
  <2> QED BY <1>1, <2>2, <2>3 DEF Rank, low
<1>3. ASSUME NEW j \in ks, NEW k \in ks, j < k PROVE Rank(ks, j) < Rank(ks, k)
  <2> DEFINE lj == {i \in ks : i <= j}
             lk == {i \in ks : i <= k}
  <2>1. lj \subseteq lk /\ lk \subseteq ks /\ k \in lk /\ k \notin lj
    <3>1. j \in Int /\ k \in Int /\ \A i \in ks : i <= j => i <= k
      BY <1>0, <1>3
    <3>2. ~(k <= j) /\ k <= k
      BY <3>1, <1>3
    <3> QED BY <3>1, <3>2
  <2> HIDE DEF lj, lk
  <2>2. IsFiniteSet(lk)
    BY <1>1, <2>1, FS_Subset
  <2>3. IsFiniteSet(lj) /\ Cardinality(lj) <= Cardinality(lk) /\ Cardinality(lj) # Cardinality(lk)
    BY <2>1, <2>2, FS_Subset
  <2>4. Cardinality(lj) \in Nat /\ Cardinality(lk) \in Nat
    BY <2>2, <2>3, FS_CardinalityType
  <2> QED BY <2>3, <2>4 DEF Rank, lj, lk
<1>4. \A j, k \in ks : Rank(ks, j) = Rank(ks, k) => j = k
  <2> SUFFICES ASSUME NEW j \in ks, NEW k \in ks, j # k PROVE Rank(ks, j) # Rank(ks, k)
    OBVIOUS
  <2>1. j < k \/ k < j
    BY <1>0
  <2>2. Rank(ks, j) \in Int /\ Rank(ks, k) \in Int
    BY <1>2
  <2> QED BY <1>3, <2>1, <2>2
<1>5. \A i \in 1 .. N : \E k \in ks : Rank(ks, k) = i
  <2>0. r \in [ks -> 1 .. N]
    BY <1>2
  <2>1. r \in Injection(ks, 1 .. N)
    <3>1. \A j \in ks : r[j] = Rank(ks, j)
      OBVIOUS
    <3> HIDE DEF r
    <3>2. \A j, k \in ks : r[j] = r[k] => j = k
      BY <3>1, <1>4
    <3> QED BY <2>0, <3>2 DEF Injection, IsInjective
  <2>2. IsFiniteSet(1 .. N) /\ Cardinality(1 .. N) = N
    BY <1>1, FS_Interval
  <2> HIDE DEF r, N
  <2>3. r \in Surjection(ks, 1 .. N)
    BY <2>1, <2>2, FS_Injection DEF N
  <2> QED BY <2>3 DEF Surjection, r
<1>6. \A i \in 1 .. N : p[i] \in ks /\ Rank(ks, p[i]) = i
  BY <1>5
<1>7. p \in [1 .. N -> ks]
  BY <1>6
<1>8. At(ws, ks) = [i \in 1 .. N |-> ws[p[i]]]
  BY DEF At
<1> HIDE DEF p
<1>9. \A i, j \in 1 .. N : p[i] = p[j] => i = j
  BY <1>6
<1>10. \A k \in ks : \E i \in 1 .. N : p[i] = k
  BY <1>2, <1>4, <1>6
<1> HIDE DEF N
<1>11. At(ws, ks) \in Seq(S)
  BY <1>1, <1>6, <1>8, <1>a
<1>12. Picks(p, At(ws, ks), ws, ks)
  BY <1>6, <1>7, <1>8, <1>9, <1>10 DEF Picks
<1> QED BY <1>11, <1>12
-----------------------------------------------------------------------------
(* The frames of a thread: one that runs is in calls of the proxy library  *)
(* and page faults; one that waits has been saved on top of them.          *)

Going(f) == f \in Seq({"proxy", "fault"})
Suspended(f) == \E g \in Seq({"proxy", "fault"}), how \in {"switch", "result"} : f = Append(g, how)

LEMMA GoingFacts ==
  ASSUME NEW f, Going(f)
  PROVE  /\ Going(Append(f, "proxy")) /\ Going(Append(f, "fault"))
         /\ Suspended(Append(f, "switch"))
         /\ f # <<>> => Going(Front(f))
<1>1. Going(Append(f, "proxy")) /\ Going(Append(f, "fault"))
  BY DEF Going
<1>2. Suspended(Append(f, "switch"))
  BY DEF Going, Suspended
<1>3. f # <<>> => Going(Front(f))
  BY DEF Going, Front
<1> QED BY <1>1, <1>2, <1>3

LEMMA SuspendedFacts ==
  ASSUME NEW f, Suspended(f)
  PROVE  /\ Going(Front(f)) /\ f # <<>> /\ Last(f) \in {"switch", "result"}
         /\ Suspended([f EXCEPT ![Len(f)] = "result"])
         /\ Last([f EXCEPT ![Len(f)] = "result"]) = "result"
<1>1. PICK g \in Seq({"proxy", "fault"}), how \in {"switch", "result"} : f = Append(g, how)
  BY DEF Suspended
<1>2. Len(f) = Len(g) + 1 /\ Len(g) \in Nat /\ f # <<>> /\ f[Len(f)] = how
  BY <1>1
<1>3. Front(f) = g
  <2>1. Front(f) = SubSeq(f, 1, Len(g))
    BY <1>2 DEF Front
  <2> QED BY <1>1, <2>1
<1>4. [f EXCEPT ![Len(f)] = "result"] = Append(g, "result")
  <2> DEFINE any == {"proxy", "fault", "switch", "result"}
             n == Len(g) + 1
             h == [f EXCEPT ![Len(f)] = "result"]
             a == Append(g, "result")
  <2>0. g \in Seq(any) /\ n \in Nat /\ Len(f) = n /\ Len(a) = n
    BY <1>1, <1>2
  <2>1. f \in [1 .. n -> any] /\ a \in [1 .. n -> any]
    <3>1. f \in Seq(any) /\ a \in Seq(any)
      BY <1>1, <2>0
    <3> HIDE DEF a, any, n
    <3> QED BY <2>0, <3>1
  <2>2. \A k \in 1 .. n : f[k] = (IF k = n THEN how ELSE g[k]) /\ a[k] = (IF k = n THEN "result" ELSE g[k])
    BY <1>1
  <2>3. h \in [1 .. n -> any] /\ \A k \in 1 .. n : h[k] = IF k = n THEN "result" ELSE f[k]
    BY <1>2, <2>1
  <2> HIDE DEF h, a, n
  <2>4. \A k \in 1 .. n : h[k] = a[k]
    BY <2>2, <2>3
  <2>5. h = a
    <3>1. h = [k \in 1 .. n |-> h[k]] /\ a = [k \in 1 .. n |-> a[k]]
      BY <2>1, <2>3
    <3>2. [k \in 1 .. n |-> h[k]] = [k \in 1 .. n |-> a[k]]
      BY <2>4
    <3> QED BY <3>1, <3>2
  <2> QED BY <2>5 DEF h, a
<1>5. Last(Append(g, "result")) = "result"
  BY DEF Last
<1> QED BY <1>1, <1>2, <1>3, <1>4, <1>5 DEF Going, Suspended, Last
-----------------------------------------------------------------------------
(* What the tables of the scheduler are at any moment of an ecall: a       *)
(* thread is on one CPU or once among the ready ones, and can go on there. *)

AnyFrame == {"proxy", "fault", "switch", "result"}
SchTables ==
  [exec : [Cpus -> Threads \cup {NoThread}], on : [Cpus -> BOOLEAN], ready : Seq(Threads),
   waiting : SUBSET Threads, frames : [Threads -> Seq(AnyFrame)], stopped : BOOLEAN]

OnCpus(s) == {t \in Threads : \E c \in Cpus : s.exec[c] = t}
InReady(s) == {s.ready[k] : k \in DOMAIN s.ready}
Running(s) == OnCpus(s) \cup InReady(s)
Busy(s) == \E c \in Cpus : s.exec[c] # NoThread

OneCpu(s) == \A c, d \in Cpus : s.exec[c] = s.exec[d] /\ s.exec[c] # NoThread => c = d
OnceReady(s) == \A j, k \in DOMAIN s.ready : s.ready[j] = s.ready[k] => j = k
Lit(s) == \A c \in Cpus : s.exec[c] # NoThread => s.on[c]
CanGoOn(s) ==
  /\ \A t \in OnCpus(s) : Going(s.frames[t])
  /\ \A t \in InReady(s) : Suspended(s.frames[t])
Tables(s) ==
  /\ s \in SchTables /\ OneCpu(s) /\ OnceReady(s) /\ Lit(s) /\ CanGoOn(s)
  /\ OnCpus(s) \cap InReady(s) = {}

\* From s to r the threads new have been made ready.
MadeReady(s, r, new) ==
  /\ Tables(r) /\ Running(r) = Running(s) \cup new
  /\ r.stopped = s.stopped /\ r.waiting \subseteq s.waiting /\ s.waiting \ new \subseteq r.waiting
  /\ \A u \in Threads \ new : r.frames[u] = s.frames[u]
  /\ \A c \in Cpus : s.exec[c] # NoThread => r.exec[c] = s.exec[c]
  /\ Busy(r) \/ r.ready = s.ready

\* A thread that can go on is put on a CPU that has none.
LEMMA DispatchKeeps ==
  ASSUME NEW s, Tables(s), NEW c \in Cpus, s.exec[c] = NoThread,
         NEW t \in Threads, t \notin Running(s), Suspended(s.frames[t])
  PROVE  /\ MadeReady(s, Dispatched(s, c, t), {t})
         /\ Dispatched(s, c, t).exec[c] = t
         /\ Dispatched(s, c, t).waiting = s.waiting
<1> DEFINE r == Dispatched(s, c, t)
<1>0. s \in SchTables /\ t # NoThread
  BY DEF Tables, Threads, NoThread
<1>1. /\ r.exec = [s.exec EXCEPT ![c] = t] /\ r.on = [s.on EXCEPT ![c] = TRUE]
      /\ r.frames = [s.frames EXCEPT ![t] = Front(s.frames[t])]
      /\ r.ready = s.ready /\ r.waiting = s.waiting /\ r.stopped = s.stopped
  BY <1>0 DEF Dispatched, Resumed, SchTables
<1>2. Going(Front(s.frames[t]))
  BY SuspendedFacts
<1>3. r \in SchTables
  <2>1. Front(s.frames[t]) \in Seq(AnyFrame)
    BY <1>2 DEF Going, AnyFrame
  <2> QED BY <1>0, <2>1 DEF SchTables, Dispatched, Resumed
<1> HIDE DEF r
<1>4. r.exec[c] = t /\ \A d \in Cpus : d # c => r.exec[d] = s.exec[d]
  BY <1>0, <1>1 DEF SchTables
<1>5. OnCpus(r) = OnCpus(s) \cup {t} /\ InReady(r) = InReady(s)
  <2>1. OnCpus(r) = OnCpus(s) \cup {t}
    BY <1>0, <1>4 DEF OnCpus, Threads, NoThread
  <2> QED BY <2>1, <1>1 DEF InReady
<1>6. t \notin OnCpus(s) /\ t \notin InReady(s)
  BY DEF Running
<1>7. OneCpu(r)
  BY <1>4, <1>6 DEF Tables, OneCpu, OnCpus
<1>8. OnceReady(r) /\ Lit(r)
  <2>1. OnceReady(r)
    BY <1>1 DEF Tables, OnceReady
  <2>2. \A d \in Cpus : r.on[d] = (d = c \/ s.on[d])
    BY ZenonT(60), <1>0, <1>1 DEF SchTables
  <2> QED BY <2>1, <2>2, <1>4 DEF Tables, Lit
<1>9. \A u \in Threads : r.frames[u] = IF u = t THEN Front(s.frames[t]) ELSE s.frames[u]
  BY <1>0, <1>1 DEF SchTables
<1>10. CanGoOn(r)
  <2>1. \A u \in OnCpus(r) : u \in Threads
    BY DEF OnCpus
  <2>2. \A u \in InReady(s) : u \in Threads
    BY <1>0 DEF InReady, SchTables
  <2> QED BY <2>1, <2>2, <1>2, <1>5, <1>6, <1>9 DEF Tables, CanGoOn
<1>11. Tables(r)
  BY <1>3, <1>5, <1>6, <1>7, <1>8, <1>10 DEF Tables
<1>12. Running(r) = Running(s) \cup {t}
  BY <1>5 DEF Running
<1>13. Busy(r) /\ \A d \in Cpus : s.exec[d] # NoThread => r.exec[d] = s.exec[d]
  BY <1>0, <1>4 DEF Busy
<1>14. MadeReady(s, r, {t})
  BY <1>1, <1>9, <1>11, <1>12, <1>13 DEF MadeReady
<1> QED BY <1>1, <1>4, <1>14 DEF r

\* A thread that can go on is made ready: on a CPU that has none, the one it is asked for
\* if it can be, or behind the others.
LEMMA InsertKeeps ==
  ASSUME NEW s, Tables(s), NEW t \in Threads, t \notin Running(s), Suspended(s.frames[t]),
         NEW c \in Cpus
  PROVE  MadeReady(s, InsertReady(s, t, c), {t})
<1> DEFINE idle == {d \in Cpus : s.exec[d] = NoThread}
           d == IF c \in idle THEN c ELSE Min(idle)
           r == InsertReady(s, t, c)
<1>0. s \in SchTables
  BY DEF Tables
<1>1. CASE idle = {}
  <2>1. r = [s EXCEPT !.ready = Append(s.ready, t)]
    BY <1>0, <1>1 DEF InsertReady, SchTables
  <2> HIDE DEF r
  <2>3. s.ready \in Seq(Threads) /\ Append(s.ready, t) \in Seq(Threads)
    BY <1>0 DEF SchTables
  <2>2. /\ r \in SchTables /\ r.exec = s.exec /\ r.on = s.on /\ r.frames = s.frames
        /\ r.waiting = s.waiting /\ r.stopped = s.stopped /\ r.ready = Append(s.ready, t)
    BY <1>0, <2>1, <2>3 DEF SchTables
  <2>4. InReady(r) = InReady(s) \cup {t}
    BY SMTT(30), <2>2, <2>3 DEF InReady
  <2>5. OnCpus(r) = OnCpus(s)
    BY <2>2 DEF OnCpus
  <2>6. t \notin OnCpus(s) /\ t \notin InReady(s)
    BY DEF Running
  <2>7. OnceReady(r)
    BY <2>2, <2>3, <2>6 DEF Tables, OnceReady, InReady
  <2>8. OneCpu(r) /\ Lit(r)
    BY <2>2 DEF Tables, OneCpu, Lit
  <2>9. CanGoOn(r)
    BY <2>2, <2>4, <2>5 DEF Tables, CanGoOn
  <2>10. Tables(r)
    BY <2>2, <2>4, <2>5, <2>6, <2>7, <2>8, <2>9 DEF Tables
  <2>11. Busy(r)
    BY <1>1, <2>2 DEF Busy
  <2>12. Running(r) = Running(s) \cup {t}
    BY <2>4, <2>5 DEF Running
  <2>13. MadeReady(s, r, {t})
    BY <2>2, <2>10, <2>11, <2>12 DEF MadeReady
  <2> QED BY <2>13 DEF r
<1>2. CASE idle # {}
  <2>1. d \in idle
    <3>1. idle \subseteq Nat
      BY SchedulerAssumption DEF Cpus
    <3>2. \E x \in idle : \A y \in idle : x <= y
      BY <1>2, <3>1, LeastNumber
    <3> HIDE DEF idle
    <3>3. Min(idle) \in idle
      BY <3>2 DEF Min
    <3> QED BY <3>3
  <2>2. r = [Dispatched(s, d, t) EXCEPT !.waiting = @ \ {t}]
    BY <1>2 DEF InsertReady
  <2> DEFINE q == Dispatched(s, d, t)
  <2>3. d \in Cpus /\ s.exec[d] = NoThread
    BY <2>1
  <2> HIDE DEF d, idle
  <2>4. MadeReady(s, q, {t}) /\ q.exec[d] = t /\ q.waiting = s.waiting
    BY <2>3, DispatchKeeps
  <2>5. r = [q EXCEPT !.waiting = q.waiting \ {t}]
    BY <2>2
  <2> HIDE DEF q, r
  <2>6. q \in SchTables
    BY <2>4 DEF MadeReady, Tables
  <2>7. /\ r \in SchTables /\ r.exec = q.exec /\ r.on = q.on /\ r.frames = q.frames
        /\ r.waiting = q.waiting \ {t} /\ r.stopped = q.stopped /\ r.ready = q.ready
    BY <2>5, <2>6 DEF SchTables
  <2>8. OnCpus(r) = OnCpus(q) /\ InReady(r) = InReady(q) /\ (Busy(r) <=> Busy(q))
    BY <2>7 DEF OnCpus, InReady, Busy
  <2>9. OneCpu(r) /\ OnceReady(r) /\ Lit(r) /\ CanGoOn(r)
    BY <2>4, <2>7, <2>8 DEF MadeReady, Tables, OneCpu, OnceReady, Lit, CanGoOn
  <2>10. Tables(r)
    BY <2>4, <2>7, <2>8, <2>9 DEF MadeReady, Tables
  <2>11. Running(r) = Running(q)
    BY <2>8 DEF Running
  <2>12. MadeReady(s, r, {t})
    BY <2>4, <2>7, <2>8, <2>10, <2>11 DEF MadeReady
  <2> QED BY <2>12 DEF r
<1> QED BY <1>1, <1>2

\* Growing goes on.
LEMMA GrowsOn ==
  ASSUME NEW s, NEW r, NEW q, NEW A, NEW B, MadeReady(s, r, A), MadeReady(r, q, B)
  PROVE  MadeReady(s, q, A \cup B)
<1>1. \A c \in Cpus : s.exec[c] # NoThread => q.exec[c] = s.exec[c]
  BY DEF MadeReady
<1>2. Busy(r) => Busy(q)
  BY DEF MadeReady, Busy
<1>3. \A u \in Threads \ (A \cup B) : q.frames[u] = s.frames[u]
  BY DEF MadeReady
<1> QED BY <1>1, <1>2, <1>3 DEF MadeReady

LEMMA GrowsNot ==
  ASSUME NEW s, Tables(s)
  PROVE  MadeReady(s, s, {})
BY DEF MadeReady

\* Waiters that can go on are woken.
Waiter == [t : Threads, mask : Nat, cpu : Cpus]
Wakeable(s, ws) ==
  /\ ws \in Seq(Waiter)
  /\ \A j, k \in DOMAIN ws : ws[j].t = ws[k].t => j = k
  /\ \A k \in DOMAIN ws : ws[k].t \notin Running(s) /\ Suspended(s.frames[ws[k].t])

LEMMA WokenGrows ==
  ASSUME NEW s, Tables(s), NEW ws, Wakeable(s, ws)
  PROVE  MadeReady(s, Woken(s, ws), ThreadsOf(ws))
<1>0. Len(ws) \in Nat /\ DOMAIN ws = 1 .. Len(ws)
  BY DEF Wakeable
<1>a. PICK g : WakesBy(s, ws, g)
  BY <1>0, WokenOneByOne
<1>1. /\ g[0] = s /\ g[Len(ws)] = Woken(s, ws)
      /\ \A k \in 1 .. Len(ws) : g[k] = InsertReady(g[k - 1], ws[k].t, ws[k].cpu)
  BY <1>a DEF WakesBy
<1> DEFINE First(n) == {ws[k].t : k \in 1 .. n}
           S == {n \in Nat : n <= Len(ws) => MadeReady(s, g[n], First(n))}
<1>2. 0 \in S
  <2>1. First(0) = {}
    OBVIOUS
  <2> HIDE DEF First
  <2> QED BY <1>1, <2>1, GrowsNot
<1>3. ASSUME NEW n \in Nat, n \in S PROVE n + 1 \in S
  <2> SUFFICES ASSUME n + 1 <= Len(ws) PROVE MadeReady(s, g[n + 1], First(n + 1))
    OBVIOUS
  <2>1. MadeReady(s, g[n], First(n))
    <3>1. n <= Len(ws)
      BY <1>0
    <3> HIDE DEF First
    <3> QED BY <3>1, <1>3
  <2> DEFINE w == ws[n + 1]
  <2>2. n + 1 \in DOMAIN ws /\ \A k \in 1 .. n : k \in DOMAIN ws /\ k # n + 1
    BY <1>0
  <2>3. w.t \in Threads /\ w.cpu \in Cpus /\ w.t \notin Running(s) /\ Suspended(s.frames[w.t])
    <3>1. ws[n + 1] \in Waiter
      BY <2>2 DEF Wakeable
    <3> QED BY <2>2, <3>1 DEF Wakeable, Waiter
  <2>4. w.t \notin First(n)
    BY <2>2 DEF Wakeable
  <2>5. First(n + 1) = First(n) \cup {w.t}
    <3>1. \A k : k \in 1 .. n + 1 <=> k \in 1 .. n \/ k = n + 1
      OBVIOUS
    <3> QED BY <3>1
  <2>6. g[n + 1] = InsertReady(g[n], w.t, w.cpu)
    BY <1>0, <1>1, <2>2
  <2> HIDE DEF First, w
  <2>7. Tables(g[n]) /\ w.t \notin Running(g[n]) /\ Suspended(g[n].frames[w.t])
    BY <2>1, <2>3, <2>4 DEF MadeReady
  <2>8. MadeReady(g[n], g[n + 1], {w.t})
    BY <2>3, <2>6, <2>7, InsertKeeps
  <2> QED BY <2>1, <2>5, <2>8, GrowsOn
<1>4. Len(ws) \in S
  <2> HIDE DEF S
  <2> QED BY <1>0, <1>2, <1>3, AllNumbers
<1>5. First(Len(ws)) = ThreadsOf(ws)
  BY <1>0 DEF ThreadsOf
<1> HIDE DEF First
<1> QED BY <1>0, <1>1, <1>4, <1>5
-----------------------------------------------------------------------------
(* The invariant.  Core: the tables s of the scheduler and the threads B   *)
(* that wait elsewhere, of which those of R have their result, account for *)
(* the threads that live.                                                  *)

Core(s, B, R, live) ==
  /\ Tables(s) /\ Running(s) \cup B = live /\ Running(s) \cap B = {}
  /\ B \subseteq s.waiting /\ \A t \in B : Suspended(s.frames[t])
  /\ R \subseteq B /\ \A t \in R : Last(s.frames[t]) = "result"
  /\ s.ready # <<>> => Busy(s)
  /\ s.stopped => live = {}

\* The threads in a list of a futex, in dma_wait_threads, and those of the host threads;
\* that of an ecall which is not over is still on its CPU.
InFutex == {t \in Threads : \E f \in Futexes : \E k \in DOMAIN futexWait[f] : futexWait[f][k].t = t}
InDma == {t \in Threads : dma[t].ref > 0}
Starting == IF call.at = "started" THEN {sch.exec[call.cpu]} ELSE {}
OfHosts == {h.t : h \in hosts}
InHost == OfHosts \ Starting
Blocked == InFutex \cup InDma \cup InHost
Returned == {h.t : h \in {g \in hosts : g.done}}

Host == [t : Threads, cpu : Cpus, kind : AllKinds, done : BOOLEAN]
TypesInv ==
  /\ futexWait \in [Futexes -> Seq(Waiter)]
  /\ dma \in [Threads -> [ref : Nat, cpu : Cpus]] /\ requests \in [Threads -> Nat]
  /\ waitMap \in [AllKinds -> SUBSET Threads] /\ hosts \subseteq Host
  /\ call \in [cpu : Cpus, at : {"-", "started"}]
  /\ born \in Threads /\ alive \subseteq 1 .. born /\ group \in [Threads -> Threads]
  /\ clearTid \in [Threads -> Futexes \cup {NoFutex}] /\ doClear \in [Threads -> BOOLEAN]

\* A thread waits for one thing, once.
FutexOnce ==
  \A f, g \in Futexes : \A j \in DOMAIN futexWait[f], k \in DOMAIN futexWait[g] :
    futexWait[f][j].t = futexWait[g][k].t => f = g /\ j = k
HostOnce == \A g, h \in hosts : g.t = h.t => g = h
OneWait ==
  /\ FutexOnce /\ HostOnce
  /\ InFutex \cap InDma = {} /\ InFutex \cap InHost = {} /\ InDma \cap InHost = {}

\* The host thread of an ecall that is not over is at work.
CallInv ==
  call.at = "started" =>
    /\ sch.exec[call.cpu] # NoThread /\ sch.frames[sch.exec[call.cpu]] = <<"proxy">>
    /\ sch.exec[call.cpu] \in OfHosts \ Returned

\* The maps of host calls name threads that make such a call.
MapsInv ==
  \A k \in AllKinds \ {"sleep"} : \A t \in waitMap[k] : \E h \in hosts : h.t = t /\ h.kind = k

SchedInv ==
  /\ TypesInv /\ OneWait /\ CallInv /\ MapsInv
  /\ Core(sch, Blocked, Returned, alive)
-----------------------------------------------------------------------------
(* What the scheduler does to Core.                                        *)

Freed(s, c) == [s EXCEPT !.exec[c] = NoThread]
Halted(s, c) == [s EXCEPT !.on[c] = s.exec[c] # NoThread]

\* From f, whose CPU has lost its thread, to r: one of the ready threads has taken it.
Taken(f, r) ==
  /\ Tables(r) /\ Running(r) = Running(f)
  /\ r.waiting = f.waiting /\ r.stopped = f.stopped
  /\ \A u \in Threads \ Running(f) : r.frames[u] = f.frames[u]
  /\ r.ready # <<>> => Busy(r)
  /\ f.ready = <<>> => r.ready = <<>>

LEMMA TakeReadyTakes ==
  ASSUME NEW s \in SchTables, NEW c \in Cpus, Tables(Freed(s, c))
  PROVE  Taken(Freed(s, c), TakeReady(s, c))
<1> DEFINE f == Freed(s, c)
           r == TakeReady(s, c)
<1>0. /\ f.exec = [s.exec EXCEPT ![c] = NoThread] /\ f.on = s.on /\ f.ready = s.ready
      /\ f.waiting = s.waiting /\ f.stopped = s.stopped /\ f.frames = s.frames
      /\ f \in SchTables /\ f.exec[c] = NoThread
  BY DEF Freed, SchTables, NoThread
<1>1. CASE s.ready = <<>>
  <2>1. r = f
    BY <1>1 DEF TakeReady, Freed
  <2> HIDE DEF f, r
  <2> QED BY <1>0, <1>1, <2>1 DEF Taken, f, r
<1>2. CASE s.ready # <<>>
  <2> DEFINE h == Head(s.ready)
             q == [f EXCEPT !.ready = Tail(s.ready)]
  <2>1. r = Dispatched(q, c, h)
    <3>1. r = Dispatched([s EXCEPT !.ready = Tail(s.ready)], c, h)
      BY <1>2 DEF TakeReady, SchTables
    <3> DEFINE p == [s EXCEPT !.ready = Tail(s.ready)]
    <3>2. /\ p.exec = s.exec /\ p.on = s.on /\ p.ready = Tail(s.ready) /\ p.waiting = s.waiting
          /\ p.stopped = s.stopped /\ p.frames = s.frames
      BY DEF SchTables
    <3>3. [p.exec EXCEPT ![c] = h] = [q.exec EXCEPT ![c] = h]
      BY <1>0, <3>2 DEF SchTables
    <3>4. Dispatched(p, c, h) = Dispatched(q, c, h)
      BY <3>3 DEF Dispatched, Resumed, SchTables, Freed
    <3> QED BY <3>1, <3>4
  <2>2. /\ q.exec = f.exec /\ q.on = f.on /\ q.ready = Tail(f.ready) /\ q.waiting = f.waiting
        /\ q.stopped = f.stopped /\ q.frames = f.frames
    BY <1>0 DEF SchTables
  <2>3. s.ready \in Seq(Threads) /\ h \in Threads /\ Tail(s.ready) \in Seq(Threads)
    BY <1>2 DEF SchTables
  <2>4. q \in SchTables
    BY <1>0, <2>3 DEF SchTables
  <2> HIDE DEF f, q, r
  <2>5. /\ DOMAIN f.ready = 1 .. Len(f.ready) /\ Len(f.ready) \in Nat \ {0} /\ h = f.ready[1]
        /\ DOMAIN q.ready = 1 .. Len(f.ready) - 1
        /\ \A k \in 1 .. Len(f.ready) - 1 : q.ready[k] = f.ready[k + 1]
    BY <1>0, <1>2, <2>2, <2>3 DEF h
  <2> HIDE DEF h
  <2>6. InReady(f) = InReady(q) \cup {h} /\ h \notin InReady(q)
    <3>1. h \notin InReady(q)
      <4> SUFFICES ASSUME NEW k \in DOMAIN q.ready, q.ready[k] = h PROVE FALSE
        BY DEF InReady
      <4>1. k + 1 \in DOMAIN f.ready /\ 1 \in DOMAIN f.ready /\ f.ready[k + 1] = f.ready[1] /\ k + 1 # 1
        BY <2>5
      <4> QED BY <4>1 DEF Tables, OnceReady, f
    <3>2. ASSUME NEW j \in DOMAIN f.ready PROVE f.ready[j] \in InReady(q) \cup {h}
      <4>1. CASE j = 1
        BY <4>1, <2>5
      <4>2. CASE j # 1
        <5>1. j - 1 \in DOMAIN q.ready /\ q.ready[j - 1] = f.ready[j]
          BY <4>2, <2>5
        <5> QED BY <5>1 DEF InReady
      <4> QED BY <4>1, <4>2
    <3>3. ASSUME NEW k \in DOMAIN q.ready PROVE q.ready[k] \in InReady(f)
      <4>1. k + 1 \in DOMAIN f.ready /\ q.ready[k] = f.ready[k + 1]
        BY <2>5
      <4> QED BY <4>1 DEF InReady
    <3>4. h \in InReady(f)
      BY <2>5 DEF InReady
    <3> QED BY <3>1, <3>2, <3>3, <3>4 DEF InReady
  <2>7. OnceReady(q)
    <3> SUFFICES ASSUME NEW j \in DOMAIN q.ready, NEW k \in DOMAIN q.ready, q.ready[j] = q.ready[k]
                 PROVE  j = k
      BY DEF OnceReady
    <3>1. j + 1 \in DOMAIN f.ready /\ k + 1 \in DOMAIN f.ready /\ f.ready[j + 1] = f.ready[k + 1]
      <4> DEFINE last == Len(f.ready)
      <4>1. last \in Nat /\ DOMAIN f.ready = 1 .. last /\ j \in 1 .. last - 1 /\ k \in 1 .. last - 1
        BY <2>5
      <4>2. q.ready[j] = f.ready[j + 1] /\ q.ready[k] = f.ready[k + 1]
        BY <2>5, <4>1
      <4> HIDE DEF last
      <4>3. j + 1 \in 1 .. last /\ k + 1 \in 1 .. last
        BY <4>1
      <4> QED BY <4>1, <4>2, <4>3
    <3>2. j \in Nat /\ k \in Nat /\ j + 1 = k + 1
      <4>1. OnceReady(f)
        BY DEF Tables, f
      <4>2. j \in Nat /\ k \in Nat
        BY <2>5
      <4> HIDE DEF f
      <4> QED BY <3>1, <4>1, <4>2 DEF OnceReady
    <3> QED BY <3>2
  <2>8. OnCpus(q) = OnCpus(f)
    BY <2>2 DEF OnCpus
  <2>9. Tables(f)
    BY DEF f
  <2>10. OneCpu(q) /\ Lit(q) /\ CanGoOn(q)
    BY <2>2, <2>6, <2>8, <2>9 DEF Tables, OneCpu, Lit, CanGoOn
  <2>11. Tables(q)
    BY <2>4, <2>6, <2>7, <2>8, <2>9, <2>10 DEF Tables
  <2>12. h \notin Running(q) /\ Suspended(q.frames[h]) /\ q.exec[c] = NoThread
    BY <1>0, <2>2, <2>6, <2>8, <2>9 DEF Tables, Running, CanGoOn
  <2>13. MadeReady(q, r, {h}) /\ r.exec[c] = h /\ r.waiting = q.waiting
    BY ZenonT(60), <2>1, <2>3, <2>11, <2>12, DispatchKeeps DEF h
  <2>14. Busy(r)
    BY <2>3, <2>13 DEF Busy, h, Threads, NoThread
  <2>15. Running(r) = Running(f) /\ h \in Running(f)
    BY <2>6, <2>8, <2>13 DEF MadeReady, Running
  <2>16. f.ready # <<>>
    BY <1>0, <1>2
  <2> QED BY <2>2, <2>13, <2>14, <2>15, <2>16 DEF MadeReady, Taken, f, r
<1> QED BY <1>1, <1>2

\* The thread of a CPU is taken from it.
LEMMA FreedTables ==
  ASSUME NEW s, Tables(s), NEW c \in Cpus, NEW t \in Threads, s.exec[c] = t,
         NEW r \in SchTables, r.exec = [s.exec EXCEPT ![c] = NoThread], r.on = s.on,
         r.ready = s.ready, \A u \in Threads \ {t} : r.frames[u] = s.frames[u]
  PROVE  Tables(r) /\ Running(r) = Running(s) \ {t}
<1>0. s \in SchTables /\ t # NoThread /\ t \in OnCpus(s) /\ t \notin InReady(s)
  BY DEF Tables, OnCpus, Threads, NoThread
<1>1. \A d \in Cpus : r.exec[d] = IF d = c THEN NoThread ELSE s.exec[d]
  BY <1>0 DEF SchTables
<1>2. OnCpus(r) = OnCpus(s) \ {t} /\ InReady(r) = InReady(s)
  <2>1. OnCpus(r) = OnCpus(s) \ {t}
    BY <1>0, <1>1 DEF OnCpus, Tables, OneCpu, Threads, NoThread
  <2> QED BY <2>1 DEF InReady
<1>3. OneCpu(r) /\ OnceReady(r) /\ Lit(r)
  BY <1>1 DEF Tables, OneCpu, OnceReady, Lit
<1>4. CanGoOn(r)
  <2>1. \A u \in OnCpus(r) : u \in Threads \ {t}
    BY <1>2 DEF OnCpus
  <2>2. \A u \in InReady(r) : u \in Threads \ {t}
    BY <1>0, <1>2 DEF InReady, SchTables
  <2> QED BY <1>2, <2>1, <2>2 DEF Tables, CanGoOn
<1> QED BY <1>0, <1>2, <1>3, <1>4 DEF Tables, Running

\* Nothing but the frames changes, and each thread can go on.
LEMMA CoreFrames ==
  ASSUME NEW s, NEW B, NEW R, NEW live, Core(s, B, R, live), NEW r \in SchTables,
         r.exec = s.exec, r.on = s.on, r.ready = s.ready, r.waiting = s.waiting,
         r.stopped = s.stopped,
         \A u \in OnCpus(s) : Going(r.frames[u]),
         \A u \in InReady(s) \cup B : Suspended(r.frames[u]),
         NEW Q \in SUBSET B, \A u \in Q : Last(r.frames[u]) = "result"
  PROVE  Core(r, B, Q, live)
<1>1. OnCpus(r) = OnCpus(s) /\ InReady(r) = InReady(s) /\ (Busy(r) <=> Busy(s))
  BY DEF OnCpus, InReady, Busy
<1>2. OneCpu(r) /\ OnceReady(r) /\ Lit(r) /\ CanGoOn(r)
  BY <1>1 DEF Core, Tables, OneCpu, OnceReady, Lit, CanGoOn
<1>3. Tables(r) /\ Running(r) = Running(s)
  BY <1>1, <1>2 DEF Core, Tables, Running
<1> QED BY <1>1, <1>3 DEF Core

\* The CPU halts if it has no thread.
LEMMA CoreHalted ==
  ASSUME NEW s, NEW B, NEW R, NEW live, Core(s, B, R, live), NEW c \in Cpus
  PROVE  Core(Halted(s, c), B, R, live)
<1> DEFINE r == Halted(s, c)
<1>0. s \in SchTables
  BY DEF Core, Tables
<1>1. /\ r \in SchTables /\ r.exec = s.exec /\ r.ready = s.ready /\ r.waiting = s.waiting
      /\ r.stopped = s.stopped /\ r.frames = s.frames
      /\ \A d \in Cpus : r.on[d] = IF d = c THEN s.exec[c] # NoThread ELSE s.on[d]
  <2>1. (s.exec[c] # NoThread) \in BOOLEAN
    OBVIOUS
  <2> QED BY <1>0, <2>1 DEF Halted, SchTables
<1> HIDE DEF r
<1>2. OnCpus(r) = OnCpus(s) /\ InReady(r) = InReady(s) /\ (Busy(r) <=> Busy(s))
  BY <1>1 DEF OnCpus, InReady, Busy
<1>3. OneCpu(r) /\ OnceReady(r) /\ Lit(r) /\ CanGoOn(r)
  <2>1. OneCpu(r) /\ OnceReady(r) /\ CanGoOn(r)
    BY <1>1, <1>2 DEF Core, Tables, OneCpu, OnceReady, CanGoOn
  <2>2. ASSUME NEW d \in Cpus, r.exec[d] # NoThread PROVE r.on[d]
    <3>1. d = c => (r.on[d] <=> s.exec[c] # NoThread)
      BY <1>1
    <3>2. d # c => (r.on[d] <=> s.on[d])
      BY <1>1
    <3> QED BY <1>1, <2>2, <3>1, <3>2 DEF Core, Tables, Lit
  <2> QED BY <2>1, <2>2 DEF Lit
<1>4. Tables(r) /\ Running(r) = Running(s)
  BY <1>1, <1>2, <1>3 DEF Core, Tables, Running
<1>5. Core(r, B, R, live)
  BY <1>1, <1>2, <1>4 DEF Core
<1> QED BY <1>5 DEF r

\* Blocked threads are made ready.
LEMMA CoreGrows ==
  ASSUME NEW s, NEW B, NEW R, NEW live, Core(s, B, R, live), NEW r, NEW T \in SUBSET B,
         MadeReady(s, r, T)
  PROVE  Core(r, B \ T, R \ T, live)
<1>1. B \subseteq Threads
  BY DEF Core, Tables, SchTables
<1>2. Busy(s) => Busy(r)
  BY DEF MadeReady, Busy
<1>3. \A u \in B \ T : r.frames[u] = s.frames[u]
  BY <1>1 DEF MadeReady
<1>4. Running(r) \cup (B \ T) = live /\ Running(r) \cap (B \ T) = {}
  BY DEF MadeReady, Core
<1>5. B \ T \subseteq r.waiting
  BY DEF MadeReady, Core
<1>6. \A t \in B \ T : Suspended(r.frames[t])
  BY <1>3 DEF Core
<1>7. \A t \in R \ T : Last(r.frames[t]) = "result"
  BY <1>3 DEF Core
<1>8. r.ready # <<>> => Busy(r)
  BY <1>2 DEF MadeReady, Core
<1> QED BY <1>4, <1>5, <1>6, <1>7, <1>8 DEF MadeReady, Core

LEMMA CoreWoken ==
  ASSUME NEW s, NEW B, NEW R, NEW live, Core(s, B, R, live), NEW ws \in Seq(Waiter),
         \A j, k \in DOMAIN ws : ws[j].t = ws[k].t => j = k, ThreadsOf(ws) \subseteq B
  PROVE  Core(Woken(s, ws), B \ ThreadsOf(ws), R \ ThreadsOf(ws), live)
<1>1. \A k \in DOMAIN ws : ws[k].t \in B
  BY DEF ThreadsOf
<1>2. Wakeable(s, ws)
  BY <1>1 DEF Wakeable, Core
<1>3. MadeReady(s, Woken(s, ws), ThreadsOf(ws))
  BY <1>2, WokenGrows DEF Core
<1> QED BY <1>3, CoreGrows

LEMMA WokenKeeps ==
  ASSUME NEW s, NEW B, NEW R, NEW live, Core(s, B, R, live), NEW ws \in Seq(Waiter),
         \A j, k \in DOMAIN ws : ws[j].t = ws[k].t => j = k, ThreadsOf(ws) \subseteq B,
         NEW c \in Cpus, s.exec[c] # NoThread
  PROVE  Woken(s, ws).exec[c] = s.exec[c] /\ Woken(s, ws).stopped = s.stopped
<1>1. \A k \in DOMAIN ws : ws[k].t \in B
  BY DEF ThreadsOf
<1>2. Wakeable(s, ws)
  BY <1>1 DEF Wakeable, Core
<1>3. MadeReady(s, Woken(s, ws), ThreadsOf(ws))
  BY <1>2, WokenGrows DEF Core
<1> QED BY <1>3 DEF MadeReady

LEMMA CoreWakes ==
  ASSUME NEW s, NEW B, NEW R, NEW live, Core(s, B, R, live), NEW t \in B, NEW c \in Cpus
  PROVE  Core(InsertReady(s, t, c), B \ {t}, R \ {t}, live)
<1>1. t \in Threads /\ t \notin Running(s) /\ Suspended(s.frames[t]) /\ Tables(s)
  BY DEF Core, Tables, SchTables
<1>2. MadeReady(s, InsertReady(s, t, c), {t})
  BY <1>1, InsertKeeps
<1> QED BY <1>2, CoreGrows

\* The thread on CPU c waits.
LEMMA CoreBlocks ==
  ASSUME NEW s, NEW B, NEW R, NEW live, Core(s, B, R, live), NEW c \in Cpus,
         NEW t \in Threads, s.exec[c] = t
  PROVE  Core(Halted(SwitchWait(Saved(s, t, "switch"), c), c), B \cup {t}, R, live)
<1> DEFINE v == Saved(s, t, "switch")
           a == [v EXCEPT !.waiting = @ \cup {v.exec[c]}]
           f == Freed(a, c)
           r == SwitchWait(v, c)
<1>0. s \in SchTables /\ t # NoThread /\ t \in OnCpus(s) /\ t \in Running(s) /\ Tables(s)
  BY DEF Core, Tables, OnCpus, Running, Threads, NoThread
<1>1. Going(s.frames[t]) /\ Suspended(Append(s.frames[t], "switch"))
  BY <1>0, GoingFacts DEF Tables, CanGoOn
<1>2. /\ v.exec = s.exec /\ v.on = s.on /\ v.ready = s.ready /\ v.waiting = s.waiting
      /\ v.stopped = s.stopped /\ v \in SchTables
      /\ v.frames = [s.frames EXCEPT ![t] = Append(s.frames[t], "switch")]
  <2>1. Append(s.frames[t], "switch") \in Seq(AnyFrame)
    BY <1>0 DEF SchTables, AnyFrame
  <2> QED BY <1>0, <2>1 DEF Saved, SchTables
<1> HIDE DEF v
<1>3. /\ a.exec = s.exec /\ a.on = s.on /\ a.ready = s.ready /\ a.waiting = s.waiting \cup {t}
      /\ a.stopped = s.stopped /\ a \in SchTables /\ a.frames = v.frames
  BY ZenonT(60), <1>2 DEF SchTables
<1>4. r = TakeReady(a, c)
  BY <1>2 DEF SwitchWait, SchTables
<1> HIDE DEF a, r
<1>5. /\ f.exec = [s.exec EXCEPT ![c] = NoThread] /\ f.on = s.on /\ f.ready = s.ready
      /\ f.waiting = s.waiting \cup {t} /\ f.stopped = s.stopped /\ f.frames = v.frames
      /\ f \in SchTables
  BY <1>3 DEF Freed, SchTables, NoThread
<1> HIDE DEF f
<1>6. /\ \A u \in Threads \ {t} : f.frames[u] = s.frames[u]
      /\ f.frames[t] = Append(s.frames[t], "switch")
  BY <1>0, <1>2, <1>5 DEF SchTables
<1>7. Tables(f) /\ Running(f) = Running(s) \ {t}
  <2>1. \A u \in Threads \ {t} : f.frames[u] = s.frames[u]
    BY <1>6
  <2> QED BY <1>0, <1>5, <2>1, FreedTables
<1>8. Taken(f, r)
  BY <1>3, <1>4, <1>7, TakeReadyTakes DEF f
<1>9. B \subseteq Threads \ {t} /\ B \cap Running(f) = {}
  BY <1>0, <1>7 DEF Core, SchTables
<1>10. /\ \A u \in B : r.frames[u] = s.frames[u]
       /\ r.frames[t] = Append(s.frames[t], "switch")
  BY <1>6, <1>7, <1>8, <1>9 DEF Taken
<1>11. Core(r, B \cup {t}, R, live)
  <2>1. Tables(r) /\ r.stopped = s.stopped /\ (r.ready # <<>> => Busy(r))
        /\ r.waiting = s.waiting \cup {t} /\ Running(r) = Running(s) \ {t}
    BY <1>5, <1>7, <1>8 DEF Taken
  <2>2. \A u \in B \cup {t} : Suspended(r.frames[u])
    BY <1>1, <1>10 DEF Core
  <2>3. R \subseteq B /\ \A u \in R : Last(r.frames[u]) = "result"
    BY <1>10 DEF Core
  <2> QED BY <1>0, <1>9, <2>1, <2>2, <2>3 DEF Core
<1> QED BY <1>11, CoreHalted DEF r, v

\* The thread on CPU c goes behind the ready ones.
LEMMA CoreYields ==
  ASSUME NEW s, NEW B, NEW R, NEW live, Core(s, B, R, live), NEW c \in Cpus,
         NEW t \in Threads, s.exec[c] = t
  PROVE  Core(SwitchYield(Saved(s, t, "switch"), c), B, R, live)
<1> DEFINE v == Saved(s, t, "switch")
           a == [v EXCEPT !.ready = Append(@, v.exec[c])]
           b == Freed(v, c)
           f == Freed(a, c)
           r == SwitchYield(v, c)
<1>0. s \in SchTables /\ t # NoThread /\ t \in OnCpus(s) /\ t \in Running(s) /\ Tables(s)
  BY DEF Core, Tables, OnCpus, Running, Threads, NoThread
<1>1. Going(s.frames[t]) /\ Suspended(Append(s.frames[t], "switch"))
  BY <1>0, GoingFacts DEF Tables, CanGoOn
<1>2. /\ v.exec = s.exec /\ v.on = s.on /\ v.ready = s.ready /\ v.waiting = s.waiting
      /\ v.stopped = s.stopped /\ v \in SchTables
      /\ v.frames = [s.frames EXCEPT ![t] = Append(s.frames[t], "switch")]
  <2>1. Append(s.frames[t], "switch") \in Seq(AnyFrame)
    BY <1>0 DEF SchTables, AnyFrame
  <2> QED BY <1>0, <2>1 DEF Saved, SchTables
<1> HIDE DEF v
<1>3. /\ a.exec = s.exec /\ a.on = s.on /\ a.ready = Append(s.ready, t) /\ a.waiting = s.waiting
      /\ a.stopped = s.stopped /\ a \in SchTables /\ a.frames = v.frames
  <2>1. Append(s.ready, t) \in Seq(Threads)
    BY <1>0 DEF SchTables
  <2> QED BY <1>2, <2>1 DEF SchTables
<1>4. r = TakeReady(a, c)
  BY <1>2 DEF SwitchYield, SchTables
<1> HIDE DEF a, r
<1>5. /\ f.exec = [s.exec EXCEPT ![c] = NoThread] /\ f.on = s.on /\ f.ready = Append(s.ready, t)
      /\ f.waiting = s.waiting /\ f.stopped = s.stopped /\ f.frames = v.frames
      /\ f \in SchTables
  BY <1>3 DEF Freed, SchTables, NoThread
<1>6. /\ b.exec = [s.exec EXCEPT ![c] = NoThread] /\ b.on = s.on /\ b.ready = s.ready
      /\ b.frames = v.frames /\ b \in SchTables
  BY <1>2 DEF Freed, SchTables, NoThread
<1> HIDE DEF b, f
<1>7. /\ \A u \in Threads \ {t} : f.frames[u] = s.frames[u] /\ b.frames[u] = s.frames[u]
      /\ f.frames[t] = Append(s.frames[t], "switch")
  BY SMTT(30), <1>0, <1>2, <1>5, <1>6 DEF SchTables
<1>8. Tables(b) /\ Running(b) = Running(s) \ {t}
  <2>1. \A u \in Threads \ {t} : b.frames[u] = s.frames[u]
    BY <1>7
  <2> QED BY <1>0, <1>6, <2>1, FreedTables
<1>9. InReady(f) = InReady(b) \cup {t} /\ OnCpus(f) = OnCpus(b)
  <2>1. s.ready \in Seq(Threads)
    BY <1>0 DEF SchTables
  <2> QED BY SMTT(30), <2>1, <1>5, <1>6 DEF InReady, OnCpus
<1>10. t \notin InReady(b) /\ t \notin OnCpus(b)
  BY <1>8 DEF Running
<1>11. OnceReady(f)
  <2>1. s.ready \in Seq(Threads)
    BY <1>0 DEF SchTables
  <2> QED BY <2>1, <1>5, <1>6, <1>8, <1>10 DEF Tables, OnceReady, InReady
<1>12. OneCpu(f) /\ Lit(f)
  BY <1>5, <1>6, <1>8 DEF Tables, OneCpu, Lit
<1>13. CanGoOn(f)
  BY <1>1, <1>5, <1>6, <1>7, <1>8, <1>9 DEF Tables, CanGoOn
<1>14. Tables(f) /\ Running(f) = Running(s)
  BY <1>0, <1>5, <1>8, <1>9, <1>10, <1>11, <1>12, <1>13 DEF Tables, Running
<1>15. Taken(f, r)
  BY <1>3, <1>4, <1>14, TakeReadyTakes DEF f
<1>16. B \subseteq Threads \ {t} /\ B \cap Running(f) = {}
  BY <1>0, <1>14 DEF Core, SchTables
<1>17. \A u \in B : r.frames[u] = s.frames[u]
  BY <1>7, <1>15, <1>16 DEF Taken
<1>18. Core(r, B, R, live)
  <2>1. Tables(r) /\ r.stopped = s.stopped /\ (r.ready # <<>> => Busy(r))
        /\ r.waiting = s.waiting /\ Running(r) = Running(s)
    BY <1>5, <1>14, <1>15 DEF Taken
  <2> QED BY <2>1, <1>17 DEF Core
<1> QED BY <1>18 DEF r, v

\* The thread on CPU c ends; those of gone have been taken from everywhere.
LEMMA CoreExits ==
  ASSUME NEW s, NEW B, NEW R, NEW live, Core(s, B, R, live), NEW c \in Cpus,
         NEW t \in Threads, s.exec[c] = t, NEW gone, gone \cap live \subseteq {t}, t \in gone,
         ~s.stopped
  PROVE  Core(Halted(SwitchExit(Deleted(s, gone), c), c), B, R, live \ {t})
<1> DEFINE v == Deleted(s, gone)
           f == Freed(v, c)
           n == TakeReady(v, c)
           r == SwitchExit(v, c)
<1>0. s \in SchTables /\ t # NoThread /\ t \in OnCpus(s) /\ t \in Running(s) /\ Tables(s)
  BY DEF Core, Tables, OnCpus, Running, Threads, NoThread
<1>1. /\ v.exec = s.exec /\ v.on = s.on /\ v.ready = s.ready /\ v.waiting = s.waiting
      /\ v.stopped = s.stopped /\ v \in SchTables
      /\ \A u \in Threads : v.frames[u] = IF u \in gone THEN <<>> ELSE s.frames[u]
  <2>1. <<>> \in Seq(AnyFrame)
    OBVIOUS
  <2> QED BY <1>0, <2>1 DEF Deleted, SchTables
<1> HIDE DEF v
<1>2. /\ f.exec = [s.exec EXCEPT ![c] = NoThread] /\ f.on = s.on /\ f.ready = s.ready
      /\ f.waiting = s.waiting /\ f.stopped = s.stopped /\ f.frames = v.frames
      /\ f \in SchTables
  BY <1>1 DEF Freed, SchTables, NoThread
<1>3. OnCpus(s) \subseteq Threads /\ InReady(s) \subseteq Threads /\ B \subseteq Threads \ {t}
  BY <1>0 DEF OnCpus, InReady, Core, SchTables
<1>4. Tables(f) /\ Running(f) = Running(s) \ {t}
  <2> DEFINE q == [s EXCEPT !.exec[c] = NoThread]
  <2>1. /\ q.exec = [s.exec EXCEPT ![c] = NoThread] /\ q.on = s.on /\ q.ready = s.ready
        /\ q.frames = s.frames /\ q \in SchTables
    BY <1>0 DEF SchTables, NoThread
  <2> HIDE DEF q, f
  <2>2. Tables(q) /\ Running(q) = Running(s) \ {t}
    BY <1>0, <2>1, FreedTables
  <2>3. OnCpus(f) = OnCpus(q) /\ InReady(f) = InReady(q)
    BY <1>2, <2>1 DEF OnCpus, InReady
  <2>4. OneCpu(f) /\ OnceReady(f) /\ Lit(f)
    BY <1>2, <2>1, <2>2 DEF Tables, OneCpu, OnceReady, Lit
  <2>5. \A u \in Running(q) : f.frames[u] = s.frames[u] /\ q.frames[u] = s.frames[u]
    <3>1. \A u \in Running(q) : u \notin gone /\ u \in Threads
      BY <1>3, <2>2 DEF Core, Running
    <3> QED BY <3>1, <1>1, <1>2, <2>1
  <2>6. CanGoOn(f)
    BY <2>2, <2>3, <2>5 DEF Tables, CanGoOn, Running
  <2> QED BY <1>2, <2>2, <2>3, <2>4, <2>6 DEF Tables, Running
<1>5. Taken(f, n)
  BY <1>1, <1>4, TakeReadyTakes
<1>6. n \in SchTables
  BY <1>5 DEF Taken, Tables
<1> HIDE DEF f, n
<1> DEFINE none == v.waiting = {} /\ v.ready = <<>> /\ \A d \in Cpus : n.exec[d] = NoThread
<1>7. r = [n EXCEPT !.stopped = n.stopped \/ none]
  BY DEF SwitchExit, n
<1> HIDE DEF none, r
<1>8. /\ r.exec = n.exec /\ r.on = n.on /\ r.ready = n.ready /\ r.waiting = n.waiting
      /\ r.frames = n.frames /\ r \in SchTables /\ (r.stopped <=> n.stopped \/ none)
  BY <1>6, <1>7 DEF SchTables
<1>9. OnCpus(r) = OnCpus(n) /\ InReady(r) = InReady(n) /\ (Busy(r) <=> Busy(n))
  BY <1>8 DEF OnCpus, InReady, Busy
<1>10. OneCpu(r) /\ OnceReady(r) /\ Lit(r) /\ CanGoOn(r)
  BY <1>5, <1>8, <1>9 DEF Taken, Tables, OneCpu, OnceReady, Lit, CanGoOn
<1>11. Tables(r) /\ Running(r) = Running(s) \ {t}
  BY <1>4, <1>5, <1>8, <1>9, <1>10 DEF Taken, Tables, Running
<1>12. \A u \in B : r.frames[u] = s.frames[u]
  <2>1. \A u \in B : u \notin Running(f) /\ u \in Threads /\ u \notin gone
    BY <1>3, <1>4 DEF Core
  <2> QED BY <2>1, <1>1, <1>2, <1>5, <1>8 DEF Taken
<1>13. r.ready # <<>> => Busy(r)
  BY <1>5, <1>8, <1>9 DEF Taken
<1>14. r.stopped => live \ {t} = {}
  <2> SUFFICES ASSUME r.stopped PROVE live \ {t} = {}
    OBVIOUS
  <2>1. none
    BY <1>1, <1>2, <1>5, <1>8 DEF Taken
  <2>2. n.ready = <<>> /\ B = {}
    BY <1>1, <1>2, <1>5, <2>1 DEF none, Taken, Core
  <2>3. OnCpus(n) = {} /\ InReady(n) = {}
    BY <2>1, <2>2 DEF none, OnCpus, InReady, Threads, NoThread
  <2> QED BY <1>11, <1>9, <2>2, <2>3 DEF Running, Core
<1>15. B \subseteq r.waiting
  BY <1>2, <1>5, <1>8 DEF Taken, Core
<1>16. Core(r, B, R, live \ {t})
  <2>1. \A u \in B : Suspended(r.frames[u])
    BY <1>12 DEF Core
  <2>2. R \subseteq B /\ \A u \in R : Last(r.frames[u]) = "result"
    BY <1>12 DEF Core
  <2>3. Running(r) \cup B = live \ {t} /\ Running(r) \cap B = {}
    BY <1>3, <1>11 DEF Core
  <2> QED BY <1>11, <1>13, <1>14, <1>15, <2>1, <2>2, <2>3 DEF Core
<1> QED BY <1>16, CoreHalted DEF r, v

\* The calls of blocked threads return.
LEMMA CoreReturns ==
  ASSUME NEW s, NEW B, NEW R, NEW live, Core(s, B, R, live), NEW ts \in SUBSET B
  PROVE  Core(Returning(s, ts), B, R \cup ts, live)
<1> DEFINE r == Returning(s, ts)
<1>0. s \in SchTables /\ B \subseteq Threads /\ ts \subseteq Threads
  BY DEF Core, Tables, SchTables
<1>1. \A u \in Threads : r.frames[u] = IF u \in ts THEN [s.frames[u] EXCEPT ![Len(s.frames[u])] = "result"]
                                                ELSE s.frames[u]
  BY <1>0 DEF Returning, SchTables
<1>2. \A u \in ts : Suspended(r.frames[u]) /\ Last(r.frames[u]) = "result"
  <2> SUFFICES ASSUME NEW u \in ts PROVE Suspended(r.frames[u]) /\ Last(r.frames[u]) = "result"
    OBVIOUS
  <2>1. Suspended(s.frames[u])
    BY DEF Core
  <2>2. r.frames[u] = [s.frames[u] EXCEPT ![Len(s.frames[u])] = "result"]
    BY <1>0, <1>1
  <2> QED BY <2>1, <2>2, SuspendedFacts
<1>3. \A u \in Threads : r.frames[u] \in Seq(AnyFrame)
  <2>1. \A f : Suspended(f) => f \in Seq(AnyFrame)
    <3> SUFFICES ASSUME NEW g \in Seq({"proxy", "fault"}), NEW how \in {"switch", "result"}
                 PROVE  Append(g, how) \in Seq(AnyFrame)
      BY DEF Suspended
    <3>1. g \in Seq(AnyFrame) /\ how \in AnyFrame
      BY DEF AnyFrame
    <3> QED BY <3>1
  <2> QED BY <1>0, <1>1, <1>2, <2>1 DEF SchTables
<1>4. /\ r.exec = s.exec /\ r.on = s.on /\ r.ready = s.ready /\ r.waiting = s.waiting
      /\ r.stopped = s.stopped
  BY <1>0 DEF Returning, SchTables
<1>5. r \in SchTables
  <2>1. r.frames = [t \in Threads |-> r.frames[t]]
    BY <1>0 DEF Returning, SchTables
  <2>2. [t \in Threads |-> r.frames[t]] \in [Threads -> Seq(AnyFrame)]
    BY <1>3
  <2>3. r = [s EXCEPT !.frames = r.frames]
    BY <1>0 DEF Returning, SchTables
  <2> HIDE DEF r
  <2>4. r.frames \in [Threads -> Seq(AnyFrame)]
    BY <2>1, <2>2
  <2> QED BY <1>0, <2>3, <2>4 DEF SchTables
<1> HIDE DEF r
<1>6. \A u \in Running(s) : u \in Threads /\ u \notin ts
  BY <1>0 DEF Core, Running, OnCpus, InReady, SchTables
<1>7. \A u \in OnCpus(s) : Going(r.frames[u])
  BY <1>1, <1>6 DEF Core, Tables, CanGoOn, Running
<1>8. \A u \in InReady(s) \cup B : Suspended(r.frames[u])
  BY <1>0, <1>1, <1>2, <1>6 DEF Core, Tables, CanGoOn, Running
<1>9. R \cup ts \subseteq B /\ \A u \in R \cup ts : Last(r.frames[u]) = "result"
  BY <1>0, <1>1, <1>2 DEF Core
<1>10. Core(r, B, R \cup ts, live)
  BY <1>4, <1>5, <1>7, <1>8, <1>9, CoreFrames
<1> QED BY <1>10 DEF r

\* A thread is born and made ready.
LEMMA CoreBorn ==
  ASSUME NEW s, NEW B, NEW R, NEW live, Core(s, B, R, live), ~s.stopped,
         NEW n \in Threads \ live, NEW f \in Seq(AnyFrame), Suspended(f), NEW c \in Cpus
  PROVE  Core(InsertReady([s EXCEPT !.frames[n] = f], n, c), B, R, live \cup {n})
<1> DEFINE v == [s EXCEPT !.frames[n] = f]
           r == InsertReady(v, n, c)
<1>0. s \in SchTables /\ B \subseteq Threads /\ n \notin Running(s) /\ n \notin B
  BY DEF Core, Tables, SchTables
<1>1. /\ v.exec = s.exec /\ v.on = s.on /\ v.ready = s.ready /\ v.waiting = s.waiting
      /\ v.stopped = s.stopped /\ v \in SchTables /\ v.frames = [s.frames EXCEPT ![n] = f]
  BY <1>0 DEF SchTables
<1> HIDE DEF v
<1>2. v.frames[n] = f /\ \A u \in Threads : u # n => v.frames[u] = s.frames[u]
  BY <1>0, <1>1 DEF SchTables
<1>3. \A u \in Running(s) : u \in Threads /\ u # n
  BY <1>0 DEF Running, OnCpus, InReady, SchTables
<1>4. \A u \in OnCpus(s) : Going(v.frames[u])
  BY <1>2, <1>3 DEF Core, Tables, CanGoOn, Running
<1>5. \A u \in InReady(s) \cup B : Suspended(v.frames[u])
  BY <1>0, <1>2, <1>3 DEF Core, Tables, CanGoOn, Running
<1>6. R \subseteq B /\ \A u \in R : Last(v.frames[u]) = "result"
  BY <1>0, <1>2 DEF Core
<1>7. Core(v, B, R, live)
  BY <1>1, <1>4, <1>5, <1>6, CoreFrames
<1>8. Tables(v) /\ n \notin Running(v) /\ Suspended(v.frames[n])
  BY <1>2, <1>7 DEF Core
<1>9. MadeReady(v, r, {n})
  BY <1>8, InsertKeeps
<1> HIDE DEF r
<1>10. Busy(v) => Busy(r)
  BY <1>9 DEF MadeReady, Busy
<1>11. Running(r) \cup B = live \cup {n} /\ Running(r) \cap B = {} /\ Tables(r)
  BY <1>0, <1>7, <1>9 DEF MadeReady, Core
<1>12. \A u \in B : r.frames[u] = v.frames[u]
  BY <1>0, <1>9 DEF MadeReady
<1>13. B \subseteq r.waiting /\ r.stopped = FALSE
  <2>1. B \subseteq r.waiting
    BY <1>0, <1>7, <1>9 DEF MadeReady, Core
  <2>2. s.stopped = FALSE
    BY <1>0 DEF SchTables
  <2> QED BY <2>1, <2>2, <1>1, <1>9 DEF MadeReady
<1>14. r.ready # <<>> => Busy(r)
  BY <1>7, <1>9, <1>10 DEF MadeReady, Core
<1>15. Core(r, B, R, live \cup {n})
  <2>1. \A u \in B : Suspended(r.frames[u])
    BY <1>7, <1>12 DEF Core
  <2>2. \A u \in R : Last(r.frames[u]) = "result"
    BY <1>6, <1>7, <1>12 DEF Core
  <2> QED BY <1>6, <1>11, <1>13, <1>14, <2>1, <2>2 DEF Core
<1> QED BY <1>15 DEF r, v

\* The threads gone are taken from wherever they are, all but one that runs.
LEMMA CoreCancels ==
  ASSUME NEW s, NEW B, NEW R, NEW live, Core(s, B, R, live), NEW gone \in SUBSET Threads,
         NEW c \in Cpus, s.exec[c] \notin gone \cup {NoThread}
  PROVE  /\ Core(Cancelled(s, gone), B \ gone, R \ gone, live \ gone)
         /\ Cancelled(s, gone).exec[c] = s.exec[c] /\ Cancelled(s, gone).stopped = s.stopped
<1> DEFINE r == Cancelled(s, gone)
           K == {k \in DOMAIN s.ready : s.ready[k] \notin gone}
           rest == At(s.ready, K)
<1>0. s \in SchTables /\ Tables(s) /\ NoThread \notin gone
  BY DEF Core, Tables, Threads, NoThread
<1>1. s.ready \in Seq(Threads)
  BY <1>0 DEF SchTables
<1>2. K \in SUBSET DOMAIN s.ready
  OBVIOUS
<1> HIDE DEF K
<1>3. rest \in Seq(Threads) /\ \E p : Picks(p, rest, s.ready, K)
  BY <1>1, <1>2, PickedOut
<1> HIDE DEF rest
<1>4. PICK p : Picks(p, rest, s.ready, K)
  BY <1>3
<1>5. \A i \in DOMAIN p : p[i] \in DOMAIN s.ready /\ s.ready[p[i]] \notin gone
  BY <1>2, <1>4 DEF Picks, K
<1>6. DOMAIN rest = DOMAIN p /\ \A i \in DOMAIN p : rest[i] = s.ready[p[i]]
  BY <1>4 DEF Picks, rest
<1>7. r = [s EXCEPT !.exec = [d \in Cpus |-> IF s.exec[d] \in gone THEN NoThread ELSE s.exec[d]],
                    !.on = [d \in Cpus |-> s.on[d] /\ s.exec[d] \notin gone],
                    !.ready = rest, !.waiting = s.waiting \ gone]
  <2>1. At(s.ready, {k \in DOMAIN s.ready : s.ready[k] \notin gone}) = rest
    BY DEF K, rest
  <2> QED BY <1>0, <2>1 DEF Cancelled, SchTables
<1> DEFINE ex == [d \in Cpus |-> IF s.exec[d] \in gone THEN NoThread ELSE s.exec[d]]
           lit == [d \in Cpus |-> s.on[d] /\ s.exec[d] \notin gone]
<1>8. ex \in [Cpus -> Threads \cup {NoThread}] /\ lit \in [Cpus -> BOOLEAN]
  BY <1>0 DEF SchTables
<1>10. /\ \A d \in Cpus : ex[d] = IF s.exec[d] \in gone THEN NoThread ELSE s.exec[d]
       /\ \A d \in Cpus : lit[d] <=> s.on[d] /\ s.exec[d] \notin gone
  OBVIOUS
<1> HIDE DEF ex, lit, r
<1>11. /\ r \in SchTables /\ r.exec = ex /\ r.on = lit /\ r.ready = rest
       /\ r.waiting = s.waiting \ gone /\ r.frames = s.frames /\ r.stopped = s.stopped
  BY <1>0, <1>3, <1>7, <1>8 DEF SchTables, ex, lit
<1>12. OnCpus(r) = OnCpus(s) \ gone
  <2>1. ASSUME NEW u \in Threads PROVE u \in OnCpus(r) <=> u \in OnCpus(s) /\ u \notin gone
    <3>1. u # NoThread
      BY DEF Threads, NoThread
    <3> QED BY <3>1, <1>10, <1>11 DEF OnCpus
  <2>2. OnCpus(r) \subseteq Threads /\ OnCpus(s) \subseteq Threads
    BY DEF OnCpus
  <2> QED BY <2>1, <2>2
<1>13. InReady(r) = InReady(s) \ gone
  <2>1. InReady(r) \subseteq InReady(s) \ gone
    BY <1>5, <1>6, <1>11 DEF InReady
  <2>2. ASSUME NEW k \in DOMAIN s.ready, s.ready[k] \notin gone PROVE s.ready[k] \in InReady(r)
    <3>1. k \in K
      BY <2>2 DEF K
    <3>2. PICK i \in DOMAIN p : p[i] = k
      BY <3>1, <1>4 DEF Picks
    <3> QED BY <3>2, <1>6, <1>11 DEF InReady
  <2> QED BY <2>1, <2>2 DEF InReady
<1>14. OnceReady(r)
  <2> SUFFICES ASSUME NEW i \in DOMAIN p, NEW j \in DOMAIN p, rest[i] = rest[j] PROVE i = j
    BY <1>6, <1>11 DEF OnceReady
  <2>1. p[i] = p[j]
    BY <1>5, <1>6 DEF Core, Tables, OnceReady
  <2> QED BY <1>4, <2>1 DEF Picks
<1>15. OneCpu(r)
  BY <1>10, <1>11 DEF Core, Tables, OneCpu
<1>16. Lit(r)
  <2> SUFFICES ASSUME NEW d \in Cpus, ex[d] # NoThread PROVE lit[d]
    BY <1>11 DEF Lit
  <2>1. s.exec[d] \notin gone /\ s.exec[d] # NoThread
    BY <1>10
  <2>2. s.on[d]
    BY <1>0, <2>1 DEF Tables, Lit
  <2> QED BY <1>10, <2>1, <2>2
<1>17. CanGoOn(r)
  BY <1>11, <1>12, <1>13 DEF Core, Tables, CanGoOn
<1>18. Tables(r) /\ Running(r) = Running(s) \ gone
  BY <1>11, <1>12, <1>13, <1>14, <1>15, <1>16, <1>17 DEF Core, Tables, Running
<1>19. r.exec[c] = s.exec[c] /\ Busy(r)
  BY <1>10, <1>11 DEF Busy
<1>20. Core(r, B \ gone, R \ gone, live \ gone)
  <2>1. B \ gone \subseteq r.waiting /\ R \ gone \subseteq B \ gone
    BY <1>11 DEF Core
  <2>2. \A u \in B \ gone : Suspended(r.frames[u])
    BY <1>11 DEF Core
  <2>3. \A u \in R \ gone : Last(r.frames[u]) = "result"
    BY <1>11 DEF Core
  <2>4. Running(r) \cup (B \ gone) = live \ gone /\ Running(r) \cap (B \ gone) = {}
    BY <1>18 DEF Core
  <2>5. r.stopped => live \ gone = {}
    BY <1>11 DEF Core
  <2> QED BY <1>18, <1>19, <2>1, <2>2, <2>3, <2>4, <2>5 DEF Core
<1> QED BY <1>11, <1>19, <1>20 DEF r
-----------------------------------------------------------------------------
(* The steps.                                                              *)

\* What holds when thread t calls into the system.
LEMMA Caller ==
  ASSUME SchedInv, NEW c \in Cpus, NEW t \in Threads, Calls(c, t)
  PROVE  /\ call = NoCall /\ ~sch.stopped /\ sch.exec[c] = t /\ t # NoThread
         /\ sch \in SchTables /\ t \in OnCpus(sch) /\ t \in alive /\ t \notin Blocked
         /\ Going(sch.frames[t]) /\ Starting = {} /\ InHost = OfHosts
<1>1. call = NoCall /\ ~sch.stopped /\ sch.exec[c] = t /\ t # NoThread
  BY DEF Calls
<1>2. t \in OnCpus(sch)
  BY <1>1 DEF OnCpus
<1>3. sch \in SchTables /\ t \in alive /\ t \notin Blocked /\ Going(sch.frames[t])
  BY <1>2 DEF SchedInv, Core, Tables, Running, CanGoOn
<1>4. Starting = {} /\ InHost = OfHosts
  BY <1>1 DEF NoCall, Starting, InHost
<1> QED BY <1>1, <1>2, <1>3, <1>4

\* A step that leaves alone where threads wait.
LEMMA PlacesStay ==
  ASSUME SchedInv, call = NoCall, call' = NoCall, UNCHANGED <<futexWait, dma, waitMap, hosts>>,
         TypesInv', Core(sch', Blocked, Returned, alive')
  PROVE  SchedInv'
<1>1. Starting = {} /\ Starting' = {}
  BY DEF Starting, NoCall
<1>2. InFutex' = InFutex /\ InDma' = InDma /\ InHost' = InHost /\ Returned' = Returned /\ OfHosts' = OfHosts
  BY <1>1 DEF InFutex, InDma, InHost, OfHosts, Returned
<1>3. Blocked' = Blocked
  BY <1>2 DEF Blocked
<1>4. OneWait'
  BY <1>2 DEF SchedInv, OneWait, FutexOnce, HostOnce
<1>5. MapsInv'
  BY DEF SchedInv, MapsInv
<1>6. CallInv'
  BY DEF CallInv, NoCall
<1> QED BY <1>2, <1>3, <1>4, <1>5, <1>6 DEF SchedInv

LEMMA NoCallOK == NoCall \in [cpu : Cpus, at : {"-", "started"}] /\ NotInDMA \in [ref : Nat, cpu : Cpus]
BY SchedulerAssumption DEF NoCall, NotInDMA, Cpus

\* The thread of a CPU goes on with other frames.
LEMMA FramesChange ==
  ASSUME SchedInv, NEW c \in Cpus, NEW t \in Threads, Calls(c, t), NEW f, Going(f),
         sch' = [sch EXCEPT !.frames[t] = f], UNCHANGED <<futexWait, call, Kept, People>>
  PROVE  SchedInv'
<1>0. call = NoCall /\ sch \in SchTables /\ t \notin Blocked /\ t \in OnCpus(sch)
  BY Caller
<1>1. f \in Seq(AnyFrame)
  BY DEF Going, AnyFrame
<1>2. /\ sch' \in SchTables /\ sch'.exec = sch.exec /\ sch'.on = sch.on /\ sch'.ready = sch.ready
      /\ sch'.waiting = sch.waiting /\ sch'.stopped = sch.stopped
      /\ sch'.frames = [sch.frames EXCEPT ![t] = f]
  BY <1>0, <1>1 DEF SchTables
<1>3. \A u \in Threads : sch'.frames[u] = IF u = t THEN f ELSE sch.frames[u]
  BY <1>0, <1>2 DEF SchTables
<1>4. OnCpus(sch) \subseteq Threads /\ InReady(sch) \subseteq Threads /\ Blocked \subseteq Threads
  BY <1>0 DEF OnCpus, InReady, SchTables, SchedInv, Core
<1>5. Core(sch, Blocked, Returned, alive)
  BY DEF SchedInv
<1>6. \A u \in OnCpus(sch) : Going(sch'.frames[u])
  BY <1>3, <1>4, <1>5 DEF Core, Tables, CanGoOn
<1>7. \A u \in InReady(sch) \cup Blocked : Suspended(sch'.frames[u])
  BY <1>0, <1>3, <1>4, <1>5 DEF Core, Tables, CanGoOn
<1>8. Returned \subseteq Blocked /\ \A u \in Returned : Last(sch'.frames[u]) = "result"
  BY <1>0, <1>3, <1>4, <1>5 DEF Core
<1>9. Core(sch', Blocked, Returned, alive)
  BY <1>2, <1>5, <1>6, <1>7, <1>8, CoreFrames
<1>10. TypesInv'
  BY DEF SchedInv, TypesInv, Kept, People
<1> QED BY <1>0, <1>9, <1>10, PlacesStay DEF Kept, People

LEMMA EnterProxyStep == ASSUME SchedInv, NEW c \in Cpus, EnterProxy(c) PROVE SchedInv'
<1>1. PICK t \in Threads : /\ Calls(c, t) /\ sch' = Saved(sch, t, "proxy")
                           /\ UNCHANGED <<futexWait, call, Kept, People>>
  BY DEF EnterProxy
<1>2. sch \in SchTables /\ Going(sch.frames[t])
  BY <1>1, Caller
<1>3. sch' = [sch EXCEPT !.frames[t] = Append(sch.frames[t], "proxy")]
  BY <1>1, <1>2 DEF Saved, SchTables
<1>4. Going(Append(sch.frames[t], "proxy"))
  BY <1>2, GoingFacts
<1> QED BY <1>1, <1>3, <1>4, FramesChange

LEMMA PageFaultStep == ASSUME SchedInv, NEW c \in Cpus, PageFault(c) PROVE SchedInv'
<1>1. PICK t \in Threads : /\ Calls(c, t) /\ sch' = Saved(sch, t, "fault")
                           /\ UNCHANGED <<futexWait, call, Kept, People>>
  BY DEF PageFault
<1>2. sch \in SchTables /\ Going(sch.frames[t])
  BY <1>1, Caller
<1>3. sch' = [sch EXCEPT !.frames[t] = Append(sch.frames[t], "fault")]
  BY <1>1, <1>2 DEF Saved, SchTables
<1>4. Going(Append(sch.frames[t], "fault"))
  BY <1>2, GoingFacts
<1> QED BY <1>1, <1>3, <1>4, FramesChange

LEMMA ebreakStep == ASSUME SchedInv, NEW c \in Cpus, ebreak(c) PROVE SchedInv'
<1>1. PICK t \in Threads : /\ Calls(c, t) /\ sch.frames[t] # <<>> /\ sch' = Resumed(sch, t)
                           /\ UNCHANGED <<futexWait, call, Kept, People>>
  BY DEF ebreak
<1>2. sch \in SchTables /\ Going(sch.frames[t])
  BY <1>1, Caller
<1>3. sch' = [sch EXCEPT !.frames[t] = Front(sch.frames[t])]
  BY <1>1, <1>2 DEF Resumed, SchTables
<1>4. Going(Front(sch.frames[t]))
  BY <1>1, <1>2, GoingFacts
<1> QED BY <1>1, <1>3, <1>4, FramesChange

LEMMA SetTidAddressStep == ASSUME SchedInv, NEW c \in Cpus, SetTidAddress(c) PROVE SchedInv'
<1>1. PICK t \in Threads, f \in Futexes :
        /\ Calls(c, t) /\ clearTid' = [clearTid EXCEPT ![t] = f]
        /\ UNCHANGED <<sch, futexWait, call, Kept, born, alive, group, doClear>>
  BY DEF SetTidAddress
<1>2. call = NoCall
  BY <1>1, Caller
<1>3. TypesInv'
  BY <1>1 DEF SchedInv, TypesInv, Kept
<1>4. Core(sch', Blocked, Returned, alive')
  BY <1>1 DEF SchedInv
<1> QED BY <1>1, <1>2, <1>3, <1>4, PlacesStay DEF Kept

LEMMA sched_yieldStep == ASSUME SchedInv, NEW c \in Cpus, sched_yield(c) PROVE SchedInv'
<1>1. PICK t \in Threads : /\ Calls(c, t) /\ sch' = SwitchYield(Saved(sch, t, "switch"), c)
                           /\ UNCHANGED <<futexWait, call, Kept, People>>
  BY DEF sched_yield
<1>2. call = NoCall /\ sch.exec[c] = t
  BY <1>1, Caller
<1>3. TypesInv'
  BY <1>1 DEF SchedInv, TypesInv, Kept, People
<1>4. Core(sch', Blocked, Returned, alive')
  BY <1>1, <1>2, CoreYields DEF SchedInv, People
<1> QED BY <1>1, <1>2, <1>3, <1>4, PlacesStay DEF Kept

LEMMA NewThreadStep == ASSUME SchedInv, NEW c \in Cpus, NewThread(c) PROVE SchedInv'
<1> DEFINE n == born + 1
<1>1. PICK t \in Threads, f \in Futexes \cup {NoFutex}, thread \in BOOLEAN :
        /\ Calls(c, t) /\ InProxy(t) /\ n \in Threads
        /\ born' = n /\ alive' = alive \cup {n}
        /\ group' = [group EXCEPT ![n] = IF thread THEN group[t] ELSE n]
        /\ clearTid' = [clearTid EXCEPT ![n] = f]
        /\ doClear' = [doClear EXCEPT ![n] = f # NoFutex]
        /\ sch' = InsertReady([sch EXCEPT !.frames[n] = Append(sch.frames[t], "switch")], n, c)
        /\ UNCHANGED <<futexWait, call, Kept>>
  BY DEF NewThread
<1>2. call = NoCall /\ sch \in SchTables /\ Going(sch.frames[t]) /\ ~sch.stopped
  BY <1>1, Caller
<1>3. born \in Nat /\ alive \subseteq 1 .. born
  BY DEF SchedInv, TypesInv, Threads
<1> HIDE DEF n
<1>4. n \notin alive /\ alive' \subseteq 1 .. born'
  BY <1>1, <1>3 DEF n
<1>5. TypesInv'
  <2>1. group' \in [Threads -> Threads] /\ clearTid' \in [Threads -> Futexes \cup {NoFutex}]
    BY <1>1 DEF SchedInv, TypesInv
  <2>2. doClear' \in [Threads -> BOOLEAN]
    <3>1. (f # NoFutex) \in BOOLEAN
      OBVIOUS
    <3> QED BY <1>1, <3>1 DEF SchedInv, TypesInv
  <2> QED BY <1>1, <1>4, <2>1, <2>2 DEF SchedInv, TypesInv, Kept
<1> DEFINE fr == Append(sch.frames[t], "switch")
<1>6. fr \in Seq(AnyFrame) /\ Suspended(fr)
  <2>1. Suspended(fr)
    BY <1>2, GoingFacts
  <2>2. sch.frames[t] \in Seq(AnyFrame) /\ "switch" \in AnyFrame
    BY <1>2 DEF SchTables, AnyFrame
  <2> QED BY <2>1, <2>2
<1> HIDE DEF fr
<1>7. n \in Threads \ alive /\ sch' = InsertReady([sch EXCEPT !.frames[n] = fr], n, c)
  BY <1>1, <1>4 DEF fr
<1>8. Core(sch, Blocked, Returned, alive)
  BY DEF SchedInv
<1>9. Core(sch', Blocked, Returned, alive')
  BY SMTT(30), <1>1, <1>2, <1>6, <1>7, <1>8, CoreBorn
<1> QED BY <1>1, <1>2, <1>5, <1>9, PlacesStay DEF Kept

\* A thread is put into the list of a futex.
LEMMA FutexAdds ==
  ASSUME futexWait \in [Futexes -> Seq(Waiter)], FutexOnce, NEW f \in Futexes, NEW w \in Waiter,
         w.t \notin InFutex, futexWait' = [futexWait EXCEPT ![f] = Append(@, w)]
  PROVE  futexWait' \in [Futexes -> Seq(Waiter)] /\ FutexOnce' /\ InFutex' = InFutex \cup {w.t}
<1> DEFINE ws == futexWait[f]
           n == Len(ws)
<1>1. ws \in Seq(Waiter) /\ n \in Nat /\ DOMAIN ws = 1 .. n
  OBVIOUS
<1>2. Append(ws, w) \in Seq(Waiter)
  BY <1>1
<1>3. DOMAIN Append(ws, w) = 1 .. n + 1 /\ \A k \in 1 .. n + 1 : Append(ws, w)[k] = IF k = n + 1 THEN w ELSE ws[k]
  BY <1>1
<1>4. /\ futexWait' \in [Futexes -> Seq(Waiter)] /\ futexWait'[f] = Append(ws, w)
      /\ \A g \in Futexes : g # f => futexWait'[g] = futexWait[g]
  BY <1>2
<1>5. w.t \in Threads
  BY DEF Waiter
<1>6. \A g \in Futexes : \A k \in DOMAIN futexWait[g] : futexWait[g][k].t # w.t
  BY <1>5 DEF InFutex
<1> HIDE DEF n
<1>7. \A g \in Futexes : \A k \in DOMAIN futexWait'[g] :
        \/ g = f /\ k = n + 1 /\ futexWait'[g][k] = w
        \/ k \in DOMAIN futexWait[g] /\ futexWait'[g][k] = futexWait[g][k]
  <2> SUFFICES ASSUME NEW g \in Futexes, NEW k \in DOMAIN futexWait'[g], ~(g = f /\ k = n + 1)
               PROVE  k \in DOMAIN futexWait[g] /\ futexWait'[g][k] = futexWait[g][k]
    BY <1>1, <1>3, <1>4
  <2>1. CASE g = f
    <3>1. k \in 1 .. n + 1 /\ k # n + 1 /\ n \in Nat
      BY <2>1, <1>1, <1>3, <1>4
    <3>2. k \in 1 .. n
      BY <3>1
    <3> QED BY <2>1, <3>1, <3>2, <1>1, <1>3, <1>4
  <2>2. CASE g # f
    BY <2>2, <1>4
  <2> QED BY <2>1, <2>2
<1>8. FutexOnce'
  <2> SUFFICES ASSUME NEW g \in Futexes, NEW h \in Futexes, NEW j \in DOMAIN futexWait'[g],
                      NEW k \in DOMAIN futexWait'[h], futexWait'[g][j].t = futexWait'[h][k].t
               PROVE  g = h /\ j = k
    BY DEF FutexOnce
  <2>1. CASE g = f /\ j = n + 1 /\ futexWait'[g][j] = w
    BY <2>1, <1>6, <1>7
  <2>2. CASE h = f /\ k = n + 1 /\ futexWait'[h][k] = w
    BY <2>2, <1>6, <1>7
  <2>3. CASE /\ j \in DOMAIN futexWait[g] /\ futexWait'[g][j] = futexWait[g][j]
             /\ k \in DOMAIN futexWait[h] /\ futexWait'[h][k] = futexWait[h][k]
    BY <2>3 DEF FutexOnce
  <2> QED BY <2>1, <2>2, <2>3, <1>7
<1>9. InFutex' = InFutex \cup {w.t}
  <2>1. InFutex' \subseteq InFutex \cup {w.t}
    BY <1>7 DEF InFutex
  <2>2. w.t \in InFutex'
    <3>1. n + 1 \in DOMAIN futexWait'[f] /\ futexWait'[f][n + 1] = w
      BY <1>1, <1>3, <1>4
    <3> QED BY <3>1, <1>5 DEF InFutex
  <2>3. ASSUME NEW u \in InFutex PROVE u \in InFutex'
    <3>0. PICK g \in Futexes : \E k \in DOMAIN futexWait[g] : futexWait[g][k].t = u
      BY DEF InFutex
    <3>1. PICK k \in DOMAIN futexWait[g] : futexWait[g][k].t = u
      BY <3>0
    <3>2. k \in DOMAIN futexWait'[g] /\ futexWait'[g][k] = futexWait[g][k]
      <4>1. CASE g = f
        <5>1. k \in 1 .. n /\ n \in Nat
          BY <1>1, <3>1, <4>1
        <5>2. k \in 1 .. n + 1 /\ k # n + 1
          BY <5>1
        <5> QED BY <4>1, <5>2, <1>3, <1>4
      <4>2. CASE g # f
        BY <4>2, <1>4
      <4> QED BY <4>1, <4>2
    <3> QED BY <3>1, <3>2 DEF InFutex
  <2> QED BY <2>1, <2>2, <2>3
<1> QED BY <1>4, <1>8, <1>9

\* The thread of CPU c waits: it is in one place more where threads wait.
LEMMA BlocksStep ==
  ASSUME SchedInv, NEW c \in Cpus, NEW t \in Threads, sch.exec[c] = t,
         Leave(SwitchWait(Saved(sch, t, "switch"), c), c), alive' = alive, hosts' = hosts,
         Blocked' = Blocked \cup {t}, TypesInv', OneWait', MapsInv'
  PROVE  SchedInv'
<1>1. sch' = Halted(SwitchWait(Saved(sch, t, "switch"), c), c) /\ call' = NoCall
  BY DEF Leave, Halted
<1>2. Core(sch, Blocked, Returned, alive)
  BY DEF SchedInv
<1>3. Core(sch', Blocked \cup {t}, Returned, alive)
  BY <1>1, <1>2, CoreBlocks
<1>4. Returned' = Returned
  BY DEF Returned
<1>5. CallInv'
  BY <1>1 DEF CallInv, NoCall
<1> QED BY <1>3, <1>4, <1>5 DEF SchedInv

LEMMA FutexWaitStep == ASSUME SchedInv, NEW c \in Cpus, FutexWait(c) PROVE SchedInv'
<1>1. PICK t \in Threads, f \in Futexes, m \in Masks \cup {0} :
        /\ Calls(c, t)
        /\ futexWait' = [futexWait EXCEPT ![f] = Append(@, [t |-> t, mask |-> m, cpu |-> c])]
        /\ Leave(SwitchWait(Saved(sch, t, "switch"), c), c)
        /\ UNCHANGED <<Kept, People>>
  BY DEF FutexWait
<1> DEFINE w == [t |-> t, mask |-> m, cpu |-> c]
<1>2. w \in Waiter /\ w.t = t
  BY SchedulerAssumption DEF Waiter
<1> HIDE DEF w
<1>3. sch.exec[c] = t /\ t \notin Blocked /\ Starting = {} /\ t \in Threads
  BY <1>1, Caller
<1>4. t \notin InFutex /\ t \notin InDma /\ t \notin InHost
  BY <1>3 DEF Blocked
<1>5. futexWait' = [futexWait EXCEPT ![f] = Append(@, w)] /\ call' = NoCall
  BY <1>1 DEF w, Leave
<1>6. futexWait' \in [Futexes -> Seq(Waiter)] /\ FutexOnce' /\ InFutex' = InFutex \cup {w.t}
  <2>1. futexWait \in [Futexes -> Seq(Waiter)] /\ FutexOnce
    BY DEF SchedInv, TypesInv, OneWait
  <2> QED BY <2>1, <1>2, <1>4, <1>5, FutexAdds
<1>7. Starting' = {}
  BY <1>5 DEF Starting, NoCall
<1>8. InDma' = InDma /\ InHost' = InHost
  BY <1>1, <1>3, <1>7 DEF InDma, InHost, OfHosts, Kept
<1>9. Blocked' = Blocked \cup {t}
  BY <1>2, <1>6, <1>8 DEF Blocked
<1>10. OneWait'
  <2>1. HostOnce'
    BY <1>1 DEF SchedInv, OneWait, HostOnce, Kept
  <2> QED BY <2>1, <1>2, <1>4, <1>6, <1>8 DEF SchedInv, OneWait
<1>11. TypesInv' /\ MapsInv'
  <2>1. TypesInv'
    BY <1>1, <1>5, <1>6, NoCallOK DEF SchedInv, TypesInv, Kept, People
  <2> QED BY <2>1, <1>1 DEF SchedInv, MapsInv, Kept
<1> QED BY <1>1, <1>3, <1>9, <1>10, <1>11, BlocksStep DEF Kept, People
-----------------------------------------------------------------------------
(* Lists of waiters that get shorter.                                      *)

LEMMA ThreadsPicked ==
  ASSUME NEW ws \in Seq(Waiter), NEW ks \in SUBSET DOMAIN ws,
         \A j, k \in DOMAIN ws : ws[j].t = ws[k].t => j = k
  PROVE  /\ At(ws, ks) \in Seq(Waiter) /\ ThreadsOf(At(ws, ks)) = {ws[k].t : k \in ks}
         /\ \A j, k \in DOMAIN At(ws, ks) : At(ws, ks)[j].t = At(ws, ks)[k].t => j = k
<1>1. At(ws, ks) \in Seq(Waiter) /\ \E p : Picks(p, At(ws, ks), ws, ks)
  BY PickedOut
<1> DEFINE r == At(ws, ks)
<1>2. PICK p : Picks(p, r, ws, ks)
  BY <1>1
<1>3. /\ DOMAIN r = DOMAIN p /\ \A i \in DOMAIN p : p[i] \in ks /\ r[i] = ws[p[i]]
      /\ \A i, j \in DOMAIN p : p[i] = p[j] => i = j
      /\ \A k \in ks : \E i \in DOMAIN p : p[i] = k
  BY <1>2 DEF Picks
<1> HIDE DEF r
<1>4. ThreadsOf(r) = {ws[k].t : k \in ks}
  <2>1. \A k \in ks : \E i \in DOMAIN r : r[i] = ws[k]
    BY <1>3
  <2> QED BY <1>3, <2>1 DEF ThreadsOf
<1>5. \A j, k \in DOMAIN r : r[j].t = r[k].t => j = k
  BY <1>3
<1> QED BY <1>1, <1>4, <1>5 DEF r

LEMMA PickedNone ==
  ASSUME NEW ws PROVE At(ws, {}) = <<>>
<1>1. Cardinality({}) = 0
  BY FS_EmptySet
<1> QED BY <1>1 DEF At

\* r is ws, or what is left of it at the places ks.
Thinned(r, ws, ks) == r = At(ws, ks) \/ (r = ws /\ ks = DOMAIN ws)

LEMMA ThinnedPicks ==
  ASSUME NEW S, NEW ws \in Seq(S), NEW ks \in SUBSET DOMAIN ws, NEW r, Thinned(r, ws, ks)
  PROVE  r \in Seq(S) /\ \E p : Picks(p, r, ws, ks)
<1>1. CASE r = At(ws, ks)
  BY <1>1, PickedOut
<1>2. CASE r = ws /\ ks = DOMAIN ws
  <2> DEFINE p == [k \in ks |-> k]
  <2>1. Picks(p, r, ws, ks)
    BY <1>2 DEF Picks
  <2> QED BY <2>1, <1>2
<1> QED BY <1>1, <1>2 DEF Thinned

\* Of the list of each futex f the entries at the places keep[f] stay.
LEMMA FutexThins ==
  ASSUME futexWait \in [Futexes -> Seq(Waiter)], FutexOnce, NEW keep,
         \A f \in Futexes : keep[f] \subseteq DOMAIN futexWait[f],
         \A f \in Futexes : Thinned(futexWait'[f], futexWait[f], keep[f]),
         futexWait' = [f \in Futexes |-> futexWait'[f]]
  PROVE  /\ futexWait' \in [Futexes -> Seq(Waiter)] /\ FutexOnce'
         /\ InFutex' = {t \in Threads : \E f \in Futexes : \E k \in keep[f] : futexWait[f][k].t = t}
<1>1. ASSUME NEW f \in Futexes
      PROVE  futexWait'[f] \in Seq(Waiter) /\ \E p : Picks(p, futexWait'[f], futexWait[f], keep[f])
  BY <1>1, ThinnedPicks
<1>2. futexWait' \in [Futexes -> Seq(Waiter)]
  BY <1>1
<1> DEFINE p == [f \in Futexes |-> CHOOSE q : Picks(q, futexWait'[f], futexWait[f], keep[f])]
<1>3. \A f \in Futexes : Picks(p[f], futexWait'[f], futexWait[f], keep[f])
  BY <1>1
<1> HIDE DEF p
<1>4. \A f \in Futexes : DOMAIN futexWait'[f] = DOMAIN p[f]
  BY <1>3 DEF Picks
<1>5. \A f \in Futexes : \A i \in DOMAIN futexWait'[f] :
        p[f][i] \in keep[f] /\ p[f][i] \in DOMAIN futexWait[f] /\ futexWait'[f][i] = futexWait[f][p[f][i]]
  BY <1>3 DEF Picks
<1>6. FutexOnce'
  <2> SUFFICES ASSUME NEW g \in Futexes, NEW h \in Futexes, NEW j \in DOMAIN futexWait'[g],
                      NEW k \in DOMAIN futexWait'[h], futexWait'[g][j].t = futexWait'[h][k].t
               PROVE  g = h /\ j = k
    BY DEF FutexOnce
  <2>1. g = h /\ p[g][j] = p[h][k]
    BY <1>5 DEF FutexOnce
  <2> QED BY <2>1, <1>3, <1>4 DEF Picks
<1>7. \A f \in Futexes : \A k \in keep[f] : \E i \in DOMAIN futexWait'[f] : futexWait'[f][i] = futexWait[f][k]
  <2> SUFFICES ASSUME NEW f \in Futexes, NEW k \in keep[f]
               PROVE  \E i \in DOMAIN futexWait'[f] : futexWait'[f][i] = futexWait[f][k]
    OBVIOUS
  <2>1. PICK i \in DOMAIN p[f] : p[f][i] = k
    BY <1>3 DEF Picks
  <2> QED BY <2>1, <1>4, <1>5
<1>8. InFutex' = {t \in Threads : \E f \in Futexes : \E k \in keep[f] : futexWait[f][k].t = t}
  <2> SUFFICES ASSUME NEW t \in Threads
               PROVE  (\E f \in Futexes : \E k \in DOMAIN futexWait'[f] : futexWait'[f][k].t = t)
                      <=> (\E f \in Futexes : \E k \in keep[f] : futexWait[f][k].t = t)
    BY DEF InFutex
  <2>1. ASSUME NEW f \in Futexes, NEW i \in DOMAIN futexWait'[f], futexWait'[f][i].t = t
        PROVE  \E k \in keep[f] : futexWait[f][k].t = t
    BY <1>5, <2>1
  <2>2. ASSUME NEW f \in Futexes, NEW k \in keep[f], futexWait[f][k].t = t
        PROVE  \E i \in DOMAIN futexWait'[f] : futexWait'[f][i].t = t
    <3>1. PICK i \in DOMAIN futexWait'[f] : futexWait'[f][i] = futexWait[f][k]
      BY <1>7
    <3>2. futexWait'[f][i].t = t
      BY <2>2, <3>1
    <3> QED BY <3>2
  <2> QED BY <2>1, <2>2
<1> QED BY <1>2, <1>6, <1>8
-----------------------------------------------------------------------------
LEMMA FutexWakeStep == ASSUME SchedInv, NEW c \in Cpus, FutexWake(c) PROVE SchedInv'
<1>1. PICK t \in Threads, f \in Futexes, m \in Masks \cup {0}, n \in 1 .. 2 :
        LET ws == futexWait[f]
            popped == Fitting(ws, m, n)
        IN  /\ Calls(c, t) /\ sch' = Woken(sch, At(ws, popped))
            /\ futexWait' = [futexWait EXCEPT ![f] = At(ws, DOMAIN ws \ popped)]
            /\ UNCHANGED <<call, Kept, People>>
  BY DEF FutexWake
<1> DEFINE ws == futexWait[f]
           popped == Fitting(ws, m, n)
           T == {ws[k].t : k \in popped}
           keep == [g \in Futexes |-> IF g = f THEN DOMAIN ws \ popped ELSE DOMAIN futexWait[g]]
<1>2. /\ futexWait \in [Futexes -> Seq(Waiter)] /\ FutexOnce /\ ws \in Seq(Waiter)
      /\ popped \subseteq DOMAIN ws
  BY DEF SchedInv, TypesInv, OneWait, Fitting
<1>3. call = NoCall /\ Starting = {} /\ InHost = OfHosts
  BY <1>1, Caller
<1>4. sch' = Woken(sch, At(ws, popped)) /\ call' = NoCall
      /\ futexWait' = [futexWait EXCEPT ![f] = At(ws, DOMAIN ws \ popped)]
  BY <1>1, <1>3
<1> HIDE DEF popped
<1>5. /\ At(ws, popped) \in Seq(Waiter) /\ ThreadsOf(At(ws, popped)) = T
      /\ \A j, k \in DOMAIN At(ws, popped) : At(ws, popped)[j].t = At(ws, popped)[k].t => j = k
  <2>1. \A j, k \in DOMAIN ws : ws[j].t = ws[k].t => j = k
    BY <1>2 DEF FutexOnce
  <2> HIDE DEF ws
  <2> QED BY <1>2, <2>1, ThreadsPicked
<1>6. \A g \in Futexes : \A k \in DOMAIN futexWait[g] : futexWait[g][k].t \in InFutex
  <2> SUFFICES ASSUME NEW g \in Futexes, NEW k \in DOMAIN futexWait[g]
               PROVE  futexWait[g][k].t \in InFutex
    OBVIOUS
  <2>1. futexWait[g][k] \in Waiter
    BY <1>2
  <2> QED BY <2>1 DEF InFutex, Waiter
<1>7. T \subseteq InFutex
  BY <1>2, <1>6
<1>8. Core(sch', Blocked \ T, Returned \ T, alive)
  <2>1. T \subseteq Blocked /\ Core(sch, Blocked, Returned, alive)
    BY <1>7 DEF Blocked, SchedInv
  <2> HIDE DEF T, ws
  <2> QED BY <1>4, <1>5, <2>1, CoreWoken
<1>9. /\ \A g \in Futexes : keep[g] \subseteq DOMAIN futexWait[g]
      /\ \A g \in Futexes : Thinned(futexWait'[g], futexWait[g], keep[g])
      /\ futexWait' = [g \in Futexes |-> futexWait'[g]]
  BY <1>2, <1>4 DEF Thinned
<1>10. /\ futexWait' \in [Futexes -> Seq(Waiter)] /\ FutexOnce'
       /\ InFutex' = {u \in Threads : \E g \in Futexes : \E k \in keep[g] : futexWait[g][k].t = u}
  <2> HIDE DEF keep
  <2> QED BY <1>2, <1>9, FutexThins
<1>11. InFutex' = InFutex \ T
  <2>1. ASSUME NEW g \in Futexes, NEW k \in keep[g]
        PROVE  futexWait[g][k].t \in InFutex /\ futexWait[g][k].t \notin T
    <3>1. k \in DOMAIN futexWait[g] /\ ~(g = f /\ k \in popped)
      OBVIOUS
    <3> QED BY <3>1, <1>2, <1>6 DEF FutexOnce
  <2>2. ASSUME NEW u \in InFutex, u \notin T
        PROVE  u \in Threads /\ \E g \in Futexes : \E k \in keep[g] : futexWait[g][k].t = u
    <3>1. u \in Threads
      BY DEF InFutex
    <3>2. PICK g \in Futexes : \E k \in DOMAIN futexWait[g] : futexWait[g][k].t = u
      BY DEF InFutex
    <3>3. PICK k \in DOMAIN futexWait[g] : futexWait[g][k].t = u
      BY <3>2
    <3>4. k \in keep[g]
      BY <2>2, <3>3
    <3> QED BY <3>1, <3>3, <3>4
  <2> HIDE DEF T, keep
  <2> QED BY <1>10, <2>1, <2>2
<1> HIDE DEF T, keep
<1>12. /\ InDma' = InDma /\ InHost' = InHost /\ Returned' = Returned /\ Returned \subseteq InHost
       /\ alive' = alive /\ waitMap' = waitMap /\ hosts' = hosts
  BY <1>1, <1>3, <1>4 DEF InDma, InHost, OfHosts, Returned, Starting, NoCall, Kept, People
<1>13. Returned \ T = Returned /\ Blocked' = Blocked \ T
  BY <1>7, <1>11, <1>12 DEF Blocked, SchedInv, OneWait
<1>14. OneWait'
  BY <1>10, <1>11, <1>12 DEF SchedInv, OneWait, HostOnce
<1>15. TypesInv' /\ MapsInv' /\ CallInv'
  <2>1. TypesInv'
    BY <1>1, <1>10 DEF SchedInv, TypesInv, Kept, People
  <2>2. MapsInv'
    BY <1>12 DEF SchedInv, MapsInv
  <2>3. CallInv'
    BY <1>4 DEF CallInv, NoCall
  <2> QED BY <2>1, <2>2, <2>3
<1> QED BY <1>8, <1>12, <1>13, <1>14, <1>15 DEF SchedInv

\* The thread of CPU c ends, with those of gone, and the waiters ws of futex f go on.
EndsWith(c, t, gone, f, s, ws, keep) ==
  /\ gone \in SUBSET (Threads \ {t}) /\ gone \cap OfHosts = {} /\ f \in Futexes \cup {NoFutex}
  /\ Core(s, Blocked \ gone, Returned \ gone, alive \ gone) /\ s.exec[c] = t /\ ~s.stopped
  /\ ws \in Seq(Waiter) /\ \A j, k \in DOMAIN ws : ws[j].t = ws[k].t => j = k
  /\ ThreadsOf(ws) = ThreadsOf(WaitersOf(f)) \ gone
  /\ Leave(SwitchExit(Deleted(Released(s, ws), gone \cup {t}), c), c) /\ Gone(gone \cup {t})
  /\ \A g \in Futexes :
       /\ keep[g] = IF g = f THEN {} ELSE {k \in DOMAIN futexWait[g] : futexWait[g][k].t \notin gone}
       /\ Thinned(futexWait'[g], futexWait[g], keep[g])
  /\ futexWait' = [g \in Futexes |-> futexWait'[g]]
  /\ InDma' = InDma \ gone /\ dma' \in [Threads -> [ref : Nat, cpu : Cpus]]
  /\ waitMap' \in [AllKinds -> SUBSET Threads] /\ \A k \in AllKinds : waitMap'[k] \subseteq waitMap[k]
  /\ UNCHANGED <<requests, hosts>>
LEMMA Exits ==
  ASSUME SchedInv, NEW c \in Cpus, NEW t \in Threads, Calls(c, t),
         NEW gone, NEW f, NEW s, NEW ws, NEW keep, EndsWith(c, t, gone, f, s, ws, keep)
  PROVE  SchedInv'
<1> USE DEF EndsWith
<1> DEFINE T == ThreadsOf(ws)
           r == Returning(s, T)
           w == Woken(r, ws)
           L == alive \ gone
<1>1. call = NoCall /\ Starting = {} /\ InHost = OfHosts /\ t # NoThread
  BY Caller
<1>2. sch' = Halted(SwitchExit(Deleted(w, gone \cup {t}), c), c) /\ call' = NoCall
  BY DEF Leave, Halted, Released
<1>3. futexWait \in [Futexes -> Seq(Waiter)] /\ FutexOnce
  BY DEF SchedInv, TypesInv, OneWait
<1>4. \A g \in Futexes : \A k \in DOMAIN futexWait[g] : futexWait[g][k].t \in InFutex
  <2> SUFFICES ASSUME NEW g \in Futexes, NEW k \in DOMAIN futexWait[g]
               PROVE  futexWait[g][k].t \in InFutex
    OBVIOUS
  <2>1. futexWait[g][k] \in Waiter
    BY <1>3
  <2> QED BY <2>1 DEF InFutex, Waiter
<1>5. /\ f # NoFutex => f \in Futexes /\ ThreadsOf(WaitersOf(f)) = {futexWait[f][k].t : k \in DOMAIN futexWait[f]}
      /\ f = NoFutex => ThreadsOf(WaitersOf(f)) = {}
      /\ NoFutex \notin Futexes
  BY SchedulerAssumption DEF WaitersOf, ThreadsOf, NoFutex
<1>6. T \subseteq InFutex /\ T \cap gone = {}
  <2>1. CASE f = NoFutex
    BY <2>1, <1>5
  <2>2. CASE f # NoFutex
    <3>1. ASSUME NEW u \in T PROVE u \in InFutex
      <4>1. f \in Futexes /\ u \in {futexWait[f][k].t : k \in DOMAIN futexWait[f]}
        BY <2>2, <1>5
      <4>2. PICK k \in DOMAIN futexWait[f] : u = futexWait[f][k].t
        BY <4>1
      <4> QED BY <4>1, <4>2, <1>4
    <3>2. T \subseteq InFutex
      BY <3>1
    <3> QED BY <3>2
  <2> QED BY <2>1, <2>2
<1>7. T \subseteq Blocked \ gone
  BY <1>6 DEF Blocked
<1> HIDE DEF T
<1>8. Core(r, Blocked \ gone, (Returned \ gone) \cup T, L)
  BY <1>7, CoreReturns
<1>9. r.exec = s.exec /\ r.stopped = s.stopped
  BY DEF Returning, Core, Tables, SchTables
<1> HIDE DEF r
<1>10. Core(w, (Blocked \ gone) \ T, ((Returned \ gone) \cup T) \ T, L)
  BY <1>7, <1>8, CoreWoken DEF T
<1>11. w.exec[c] = t /\ ~w.stopped
  <2>1. r.exec[c] # NoThread
    BY <1>1, <1>9
  <2> QED BY <1>7, <1>8, <1>9, <2>1, WokenKeeps DEF T
<1> HIDE DEF w
<1> DEFINE B2 == (Blocked \ gone) \ T
           R2 == ((Returned \ gone) \cup T) \ T
           all == gone \cup {t}
<1>12. Core(sch', B2, R2, L \ {t})
  <2>1. all \cap L \subseteq {t} /\ t \in all
    OBVIOUS
  <2> HIDE DEF all, L, B2, R2
  <2>2. Core(w, B2, R2, L)
    BY <1>10 DEF B2, R2
  <2>3. sch' = Halted(SwitchExit(Deleted(w, all), c), c)
    BY <1>2 DEF all
  <2> QED BY <1>11, <2>1, <2>2, <2>3, CoreExits
<1>13. /\ futexWait' \in [Futexes -> Seq(Waiter)] /\ FutexOnce'
       /\ InFutex' = {u \in Threads : \E g \in Futexes : \E k \in keep[g] : futexWait[g][k].t = u}
  <2>1. \A g \in Futexes : keep[g] \subseteq DOMAIN futexWait[g]
    OBVIOUS
  <2>2. \A g \in Futexes : Thinned(futexWait'[g], futexWait[g], keep[g])
    OBVIOUS
  <2>3. futexWait' = [g \in Futexes |-> futexWait'[g]]
    OBVIOUS
  <2> HIDE DEF EndsWith
  <2> QED BY <1>3, <2>1, <2>2, <2>3, FutexThins
<1>14. InFutex' = (InFutex \ gone) \ T
  <2>1. ASSUME NEW g \in Futexes, NEW k \in keep[g]
        PROVE  futexWait[g][k].t \in (InFutex \ gone) \ T
    <3>1. k \in DOMAIN futexWait[g] /\ g # f /\ futexWait[g][k].t \notin gone
      BY ZenonT(60)
    <3>2. futexWait[g][k].t \notin T
      BY ZenonT(60), <3>1, <1>3, <1>5 DEF FutexOnce, T
    <3> QED BY <3>1, <3>2, <1>4
  <2>2. ASSUME NEW u \in (InFutex \ gone) \ T
        PROVE  u \in Threads /\ \E g \in Futexes : \E k \in keep[g] : futexWait[g][k].t = u
    <3>1. u \in Threads
      BY DEF InFutex
    <3>2. PICK g \in Futexes : \E k \in DOMAIN futexWait[g] : futexWait[g][k].t = u
      BY DEF InFutex
    <3>3. PICK k \in DOMAIN futexWait[g] : futexWait[g][k].t = u
      BY <3>2
    <3>4. g # f
      BY <3>3, <1>5 DEF T
    <3>5. k \in keep[g]
      BY <3>3, <3>4
    <3> QED BY <3>1, <3>3, <3>5
  <2> DEFINE kept == {u \in Threads : \E g \in Futexes : \E k \in keep[g] : futexWait[g][k].t = u}
  <2>3. kept \subseteq (InFutex \ gone) \ T
    BY <2>1
  <2>4. (InFutex \ gone) \ T \subseteq kept
    BY <2>2
  <2> QED BY <1>13, <2>3, <2>4
<1>15. InHost' = InHost /\ OfHosts' = OfHosts /\ Returned' = Returned /\ Returned \subseteq InHost
  BY <1>1, <1>2 DEF InHost, OfHosts, Returned, Starting, NoCall
<1>16. Blocked' = B2
  BY <1>1, <1>6, <1>14, <1>15 DEF Blocked, SchedInv, OneWait
<1>17. Returned = R2
  BY <1>1, <1>6, <1>15 DEF SchedInv, OneWait
<1>18. alive' = L \ {t}
  BY DEF Gone
<1>19. OneWait'
  BY <1>13, <1>14, <1>15 DEF SchedInv, OneWait, HostOnce
<1>20. TypesInv'
  <2>1. alive' \subseteq 1 .. born' /\ group' \in [Threads -> Threads] /\ clearTid' \in [Threads -> Futexes \cup {NoFutex}]
    BY DEF Gone, SchedInv, TypesInv
  <2>2. doClear' \in [Threads -> BOOLEAN]
    BY DEF Gone
  <2> QED BY <1>2, <1>13, <2>1, <2>2, NoCallOK DEF SchedInv, TypesInv, Gone
<1>21. MapsInv'
  BY DEF SchedInv, MapsInv
<1>22. CallInv'
  BY <1>2 DEF CallInv, NoCall
<1> HIDE DEF B2, R2, L
<1> QED BY <1>12, <1>15, <1>16, <1>17, <1>18, <1>19, <1>20, <1>21, <1>22 DEF SchedInv

\* The waiters of a futex word, and the list of clear_child_tid that has none.
LEMMA WaitersFacts ==
  ASSUME SchedInv, NEW f, f \in Futexes \cup {NoFutex}
  PROVE  /\ WaitersOf(f) \in Seq(Waiter)
         /\ \A j, k \in DOMAIN WaitersOf(f) : WaitersOf(f)[j].t = WaitersOf(f)[k].t => j = k
<1>1. CASE f = NoFutex
  <2>1. WaitersOf(f) = <<>>
    BY <1>1 DEF WaitersOf
  <2> QED BY <2>1
<1>2. CASE f # NoFutex
  <2>1. WaitersOf(f) = futexWait[f] /\ f \in Futexes
    BY <1>2 DEF WaitersOf
  <2> QED BY <2>1 DEF SchedInv, TypesInv, OneWait, FutexOnce
<1> QED BY <1>1, <1>2

LEMMA host_exitStep == ASSUME SchedInv, NEW c \in Cpus, host_exit(c) PROVE SchedInv'
<1>1. PICK t \in Threads :
        /\ Calls(c, t)
        /\ Leave(SwitchExit(Deleted(Released(sch, WaitersOf(clearTid[t])), {t}), c), c)
        /\ futexWait' = [g \in Futexes |-> IF g = clearTid[t] THEN <<>> ELSE futexWait[g]]
        /\ Gone({t}) /\ UNCHANGED Kept
  BY DEF host_exit
<1> DEFINE f == clearTid[t]
           ws == WaitersOf(f)
           keep == [g \in Futexes |-> IF g = f THEN {} ELSE {k \in DOMAIN futexWait[g] : futexWait[g][k].t \notin {}}]
<1>2. f \in Futexes \cup {NoFutex}
  BY DEF SchedInv, TypesInv
<1>3. ws \in Seq(Waiter) /\ \A j, k \in DOMAIN ws : ws[j].t = ws[k].t => j = k
  BY <1>2, WaitersFacts
<1>4. /\ \A g \in Futexes : Thinned(futexWait'[g], futexWait[g], keep[g])
      /\ futexWait' = [g \in Futexes |-> futexWait'[g]]
  <2>1. ASSUME NEW g \in Futexes PROVE Thinned(futexWait'[g], futexWait[g], keep[g])
    <3>1. CASE g = f
      <4>1. futexWait'[g] = <<>> /\ keep[g] = {}
        BY <1>1, <3>1
      <4> HIDE DEF keep
      <4> QED BY <4>1, PickedNone DEF Thinned
    <3>2. CASE g # f
      <4>1. futexWait'[g] = futexWait[g] /\ keep[g] = DOMAIN futexWait[g]
        BY <1>1, <3>2
      <4> QED BY <4>1 DEF Thinned
    <3> QED BY <3>1, <3>2
  <2> QED BY <2>1, <1>1
<1>5. sch.exec[c] = t /\ ~sch.stopped /\ Core(sch, Blocked, Returned, alive)
  BY <1>1, Caller DEF SchedInv
<1>6. ThreadsOf(ws) = ThreadsOf(ws) \ {}
  OBVIOUS
<1>7. Core(sch, Blocked \ {}, Returned \ {}, alive \ {})
  <2>1. Blocked \ {} = Blocked /\ Returned \ {} = Returned /\ alive \ {} = alive
    OBVIOUS
  <2> QED BY <1>5, <2>1
<1>8. /\ InDma' = InDma \ {} /\ dma' \in [Threads -> [ref : Nat, cpu : Cpus]]
      /\ waitMap' \in [AllKinds -> SUBSET Threads] /\ \A k \in AllKinds : waitMap'[k] \subseteq waitMap[k]
      /\ UNCHANGED <<requests, hosts>>
  BY <1>1 DEF SchedInv, TypesInv, InDma, Kept
<1>9. {} \in SUBSET (Threads \ {t}) /\ {} \cap OfHosts = {} /\ {} \cup {t} = {t}
  OBVIOUS
<1>10. Gone({} \cup {t}) /\ Leave(SwitchExit(Deleted(Released(sch, ws), {} \cup {t}), c), c)
  BY <1>1, <1>9
<1>11. \A g \in Futexes : keep[g] = IF g = f THEN {} ELSE {k \in DOMAIN futexWait[g] : futexWait[g][k].t \notin {}}
  OBVIOUS
<1>12. ThreadsOf(ws) = ThreadsOf(WaitersOf(f)) \ {}
  BY <1>6
<1> HIDE DEF keep, ws, f
<1>13. EndsWith(c, t, {}, f, sch, ws, keep)
  BY <1>2, <1>3, <1>4, <1>5, <1>7, <1>8, <1>9, <1>10, <1>11, <1>12 DEF EndsWith
<1> QED BY <1>1, <1>13, Exits

LEMMA exitgroupStep == ASSUME SchedInv, ~HostRaces, NEW c \in Cpus, exitgroup(c) PROVE SchedInv'
<1> DEFINE Mates(t) == {u \in alive \ {t} : group[u] = group[t]}
           Word(t) == IF doClear[t] THEN clearTid[t] ELSE NoFutex
           Left(ws, gone) == At(ws, {k \in DOMAIN ws : ws[k].t \notin gone})
<1>1. PICK t \in Threads :
        /\ Calls(c, t) /\ \A h \in hosts : h.t \notin Mates(t)
        /\ Leave(SwitchExit(Deleted(Released(Cancelled(sch, Mates(t)), Left(WaitersOf(Word(t)), Mates(t))),
                                    Mates(t) \cup {t}), c), c)
        /\ futexWait' = [g \in Futexes |-> IF g = Word(t) THEN <<>> ELSE Left(futexWait[g], Mates(t))]
        /\ dma' = [u \in Threads |-> IF u \in Mates(t) THEN NotInDMA ELSE dma[u]]
        /\ waitMap' = [k \in AllKinds |-> waitMap[k] \ Mates(t)]
        /\ Gone(Mates(t) \cup {t}) /\ UNCHANGED <<requests, hosts>>
  BY DEF exitgroup
<1> DEFINE gone == Mates(t)
           f == Word(t)
           s == Cancelled(sch, gone)
           ws == Left(WaitersOf(f), gone)
           keep == [g \in Futexes |-> IF g = f THEN {} ELSE {k \in DOMAIN futexWait[g] : futexWait[g][k].t \notin gone}]
<1>2. /\ gone \in SUBSET (Threads \ {t}) /\ gone \cap OfHosts = {} /\ f \in Futexes \cup {NoFutex}
  <2>1. born \in Threads /\ alive \subseteq 1 .. born
    BY DEF SchedInv, TypesInv
  <2>2. alive \subseteq Threads
    BY <2>1, SchedulerAssumption DEF Threads
  <2>3. f \in Futexes \cup {NoFutex}
    BY DEF SchedInv, TypesInv
  <2>4. gone \subseteq Threads \ {t}
    BY <2>2
  <2> QED BY <1>1, <2>3, <2>4 DEF OfHosts
<1>3. sch.exec[c] = t /\ ~sch.stopped /\ t # NoThread /\ Core(sch, Blocked, Returned, alive)
  BY <1>1, Caller DEF SchedInv
<1>4. /\ Leave(SwitchExit(Deleted(Released(s, ws), gone \cup {t}), c), c)
      /\ Gone(gone \cup {t}) /\ UNCHANGED <<requests, hosts>>
  BY <1>1
<1>5. futexWait' = [g \in Futexes |-> IF g = f THEN <<>> ELSE Left(futexWait[g], gone)]
  BY <1>1
<1>6. /\ dma' = [u \in Threads |-> IF u \in gone THEN NotInDMA ELSE dma[u]]
      /\ waitMap' = [k \in AllKinds |-> waitMap[k] \ gone]
  BY <1>1
<1> HIDE DEF Mates, Word, gone, f
<1>7. Core(s, Blocked \ gone, Returned \ gone, alive \ gone) /\ s.exec[c] = t /\ ~s.stopped
  <2>1. sch.exec[c] \notin gone \cup {NoThread} /\ gone \in SUBSET Threads
    BY <1>2, <1>3
  <2> QED BY <1>3, <2>1, CoreCancels
<1> HIDE DEF s
<1>8. /\ ws \in Seq(Waiter) /\ (\A j, k \in DOMAIN ws : ws[j].t = ws[k].t => j = k)
      /\ ThreadsOf(ws) = ThreadsOf(WaitersOf(f)) \ gone
  <2> DEFINE us == WaitersOf(f)
             K == {k \in DOMAIN us : us[k].t \notin gone}
  <2>1. us \in Seq(Waiter) /\ \A j, k \in DOMAIN us : us[j].t = us[k].t => j = k
    BY <1>2, WaitersFacts
  <2>2. K \in SUBSET DOMAIN us /\ ws = At(us, K)
    OBVIOUS
  <2>3. {us[k].t : k \in K} = ThreadsOf(us) \ gone
    BY DEF ThreadsOf
  <2> HIDE DEF us, K, ws
  <2>4. /\ ws \in Seq(Waiter) /\ ThreadsOf(ws) = {us[k].t : k \in K}
        /\ \A j, k \in DOMAIN ws : ws[j].t = ws[k].t => j = k
    BY <2>1, <2>2, ThreadsPicked
  <2> QED BY <2>3, <2>4 DEF us
<1>9. \A g \in Futexes : keep[g] = IF g = f THEN {} ELSE {k \in DOMAIN futexWait[g] : futexWait[g][k].t \notin gone}
  OBVIOUS
<1> HIDE DEF keep, ws
<1>10. /\ \A g \in Futexes : Thinned(futexWait'[g], futexWait[g], keep[g])
       /\ futexWait' = [g \in Futexes |-> futexWait'[g]]
  <2>1. ASSUME NEW g \in Futexes PROVE Thinned(futexWait'[g], futexWait[g], keep[g])
    <3>1. CASE g = f
      <4>1. futexWait'[g] = <<>> /\ keep[g] = {}
        BY <1>5, <1>9, <3>1
      <4> QED BY <4>1, PickedNone DEF Thinned
    <3>2. CASE g # f
      <4>1. futexWait'[g] = At(futexWait[g], keep[g])
        BY <1>5, <1>9, <3>2
      <4> QED BY <4>1 DEF Thinned
    <3> QED BY <3>1, <3>2
  <2> QED BY <2>1, <1>5
<1>11. InDma' = InDma \ gone
  <2>1. \A u \in Threads : dma'[u].ref > 0 <=> dma[u].ref > 0 /\ u \notin gone
    BY <1>6 DEF NotInDMA
  <2> QED BY <2>1 DEF InDma
<1>12. /\ dma' \in [Threads -> [ref : Nat, cpu : Cpus]]
       /\ waitMap' \in [AllKinds -> SUBSET Threads] /\ \A k \in AllKinds : waitMap'[k] \subseteq waitMap[k]
  BY <1>6, NoCallOK DEF SchedInv, TypesInv
<1> HIDE DEF Left
<1>13. EndsWith(c, t, gone, f, s, ws, keep)
  BY <1>2, <1>4, <1>7, <1>8, <1>9, <1>10, <1>11, <1>12 DEF EndsWith
<1> QED BY <1>1, <1>13, Exits
-----------------------------------------------------------------------------
\* The thread of an execve or an mmap waits for its pages.
LEMMA LoadPagesStep ==
  ASSUME SchedInv, NEW c \in Cpus, NEW t \in Threads, Calls(c, t), LoadPages(c, t),
         clearTid' \in [Threads -> Futexes \cup {NoFutex}], doClear' \in [Threads -> BOOLEAN]
  PROVE  SchedInv'
<1>1. PICK n \in 1 .. MaxReqs[t] :
        /\ requests' = [requests EXCEPT ![t] = @ + n]
        /\ dma' = [dma EXCEPT ![t] = [ref |-> n, cpu |-> c]]
        /\ Leave(SwitchWait(Saved(sch, t, "switch"), c), c)
        /\ UNCHANGED <<futexWait, waitMap, hosts, born, alive, group>>
  BY DEF LoadPages
<1>2. sch.exec[c] = t /\ t \notin Blocked /\ Starting = {}
  BY Caller
<1>3. t \notin InFutex /\ t \notin InDma /\ t \notin InHost
  BY <1>2 DEF Blocked
<1>4. n \in Nat \ {0}
  BY SchedulerAssumption DEF Threads
<1>5. dma' \in [Threads -> [ref : Nat, cpu : Cpus]] /\ InDma' = InDma \cup {t}
  <2>1. dma \in [Threads -> [ref : Nat, cpu : Cpus]]
    BY DEF SchedInv, TypesInv
  <2>2. dma' \in [Threads -> [ref : Nat, cpu : Cpus]]
    BY <1>1, <1>4, <2>1
  <2>3. \A u \in Threads : dma'[u].ref = IF u = t THEN n ELSE dma[u].ref
    BY <1>1, <2>1
  <2> QED BY <1>4, <2>2, <2>3 DEF InDma
<1>6. call' = NoCall
  BY <1>1 DEF Leave
<1>7. InFutex' = InFutex /\ InHost' = InHost
  BY <1>1, <1>2, <1>6 DEF InFutex, InHost, OfHosts, Starting, NoCall
<1>8. Blocked' = Blocked \cup {t}
  BY <1>5, <1>7 DEF Blocked
<1>9. OneWait'
  <2>1. FutexOnce' /\ HostOnce'
    BY <1>1 DEF SchedInv, OneWait, FutexOnce, HostOnce
  <2> QED BY <2>1, <1>3, <1>5, <1>7 DEF SchedInv, OneWait
<1>10. TypesInv'
  <2>1. requests' \in [Threads -> Nat]
    BY <1>1, <1>4 DEF SchedInv, TypesInv
  <2> QED BY <2>1, <1>1, <1>5, <1>6, NoCallOK DEF SchedInv, TypesInv
<1>11. MapsInv'
  BY <1>1 DEF SchedInv, MapsInv
<1> QED BY <1>1, <1>2, <1>8, <1>9, <1>10, <1>11, BlocksStep

LEMMA host_execveStep == ASSUME SchedInv, NEW c \in Cpus, host_execve(c) PROVE SchedInv'
<1>1. PICK t \in Threads : /\ Calls(c, t) /\ LoadPages(c, t)
                           /\ clearTid' = [clearTid EXCEPT ![t] = NoFutex]
                           /\ doClear' = [doClear EXCEPT ![t] = FALSE]
  BY DEF host_execve
<1>2. clearTid' \in [Threads -> Futexes \cup {NoFutex}] /\ doClear' \in [Threads -> BOOLEAN]
  BY <1>1 DEF SchedInv, TypesInv
<1> QED BY <1>1, <1>2, LoadPagesStep

LEMMA mmapStep == ASSUME SchedInv, NEW c \in Cpus, mmap(c) PROVE SchedInv'
<1>1. PICK t \in Threads : Calls(c, t) /\ LoadPages(c, t) /\ UNCHANGED <<clearTid, doClear>>
  BY DEF mmap
<1>2. clearTid' \in [Threads -> Futexes \cup {NoFutex}] /\ doClear' \in [Threads -> BOOLEAN]
  BY <1>1 DEF SchedInv, TypesInv
<1> QED BY <1>1, <1>2, LoadPagesStep

\* A thread that waits nowhere but there is woken by its host thread or by the DMA.
LEMMA WakesStep ==
  ASSUME SchedInv, NEW t \in Blocked, NEW c \in Cpus, sch' = InsertReady(sch, t, c),
         call = NoCall, call' = NoCall, alive' = alive, Blocked' = Blocked \ {t},
         Returned' = Returned \ {t}, TypesInv', OneWait', MapsInv'
  PROVE  SchedInv'
<1>1. Core(sch, Blocked, Returned, alive)
  BY DEF SchedInv
<1>2. Core(sch', Blocked \ {t}, Returned \ {t}, alive)
  BY <1>1, CoreWakes
<1>3. CallInv'
  BY DEF CallInv, NoCall
<1> QED BY <1>2, <1>3 DEF SchedInv

LEMMA DmaStep == ASSUME SchedInv, NEW t \in Threads, dma_complete_callback(t) PROVE SchedInv'
<1>1. /\ call = NoCall /\ requests[t] > 0
      /\ requests' = [requests EXCEPT ![t] = @ - 1]
      /\ UNCHANGED <<futexWait, call, waitMap, hosts, People>>
  BY DEF dma_complete_callback
<1>2. dma \in [Threads -> [ref : Nat, cpu : Cpus]]
  BY DEF SchedInv, TypesInv
<1>3. requests' \in [Threads -> Nat]
  <2>1. requests[t] \in Nat /\ requests \in [Threads -> Nat]
    BY DEF SchedInv, TypesInv
  <2>2. requests[t] - 1 \in Nat
    BY <1>1, <2>1
  <2> QED BY <1>1, <2>1, <2>2
<1>4. Starting = {} /\ Starting' = {}
  BY <1>1 DEF Starting, NoCall
<1>5. InFutex' = InFutex /\ InHost' = InHost /\ Returned' = Returned /\ Returned \subseteq InHost
  BY <1>1, <1>4 DEF InFutex, InHost, OfHosts, Returned
<1>6. FutexOnce' /\ HostOnce' /\ MapsInv'
  BY <1>1 DEF SchedInv, OneWait, FutexOnce, HostOnce, MapsInv
<1>7. ASSUME dma' \in [Threads -> [ref : Nat, cpu : Cpus]] PROVE TypesInv'
  BY <1>1, <1>3, <1>7 DEF SchedInv, TypesInv, People
<1>8. CASE dma[t].ref > 0 /\ LastRequest(dma[t].ref)
  <2>1. sch' = InsertReady(sch, t, dma[t].cpu) /\ dma' = [dma EXCEPT ![t] = NotInDMA]
    BY <1>8 DEF dma_complete_callback
  <2>2. t \in InDma /\ dma[t].cpu \in Cpus
    BY <1>2, <1>8 DEF InDma
  <2>3. dma' \in [Threads -> [ref : Nat, cpu : Cpus]] /\ InDma' = InDma \ {t}
    <3>1. dma' \in [Threads -> [ref : Nat, cpu : Cpus]]
      BY <1>2, <2>1, NoCallOK
    <3>2. \A u \in Threads : dma'[u].ref = IF u = t THEN 0 ELSE dma[u].ref
      BY <1>2, <2>1 DEF NotInDMA
    <3> QED BY <3>1, <3>2 DEF InDma
  <2>4. t \notin InFutex /\ t \notin InHost /\ t \in Blocked /\ Returned' = Returned \ {t}
    BY <1>5, <2>2 DEF SchedInv, OneWait, Blocked
  <2>5. Blocked' = Blocked \ {t}
    BY <1>5, <2>3, <2>4 DEF Blocked
  <2>6. OneWait'
    BY <1>5, <1>6, <2>3 DEF SchedInv, OneWait
  <2> QED BY <1>1, <1>6, <1>7, <2>1, <2>2, <2>3, <2>4, <2>5, <2>6, WakesStep DEF People
<1>9. CASE ~(dma[t].ref > 0 /\ LastRequest(dma[t].ref))
  <2>1. dma' = [dma EXCEPT ![t].ref = IF @ > 0 THEN @ - 1 ELSE 0] /\ sch' = sch
    BY <1>9 DEF dma_complete_callback
  <2> DEFINE d == IF dma[t].ref > 0 THEN dma[t].ref - 1 ELSE 0
  <2>2. d \in Nat /\ (d > 0 <=> dma[t].ref > 0)
    BY <1>2, <1>9 DEF LastRequest
  <2> HIDE DEF d
  <2>3. dma' = [dma EXCEPT ![t] = [ref |-> d, cpu |-> dma[t].cpu]]
    <3>1. dma' = [dma EXCEPT ![t] = [dma[t] EXCEPT !.ref = d]]
      BY <1>2, <2>1 DEF d
    <3>2. [dma[t] EXCEPT !.ref = d] = [ref |-> d, cpu |-> dma[t].cpu]
      BY <1>2
    <3> QED BY <3>1, <3>2
  <2>4. dma' \in [Threads -> [ref : Nat, cpu : Cpus]] /\ InDma' = InDma
    <3>1. dma' \in [Threads -> [ref : Nat, cpu : Cpus]]
      BY <1>2, <2>2, <2>3
    <3>2. \A u \in Threads : dma'[u].ref = IF u = t THEN d ELSE dma[u].ref
      BY <1>2, <2>3
    <3> QED BY <2>2, <3>1, <3>2 DEF InDma
  <2>5. Blocked' = Blocked
    BY <1>5, <2>4 DEF Blocked
  <2>6. OneWait'
    BY <1>5, <1>6, <2>4 DEF SchedInv, OneWait
  <2>7. CallInv'
    BY <1>1 DEF CallInv, NoCall
  <2> QED BY <1>1, <1>5, <1>6, <1>7, <2>1, <2>4, <2>5, <2>6, <2>7 DEF SchedInv, People
<1> QED BY <1>8, <1>9
-----------------------------------------------------------------------------
(* Host threads.                                                           *)

LEMMA BlockOnHostStep == ASSUME SchedInv, NEW c \in Cpus, NEW k \in AllKinds, BlockOnHost(c, k) PROVE SchedInv'
<1>1. PICK t \in Threads :
        /\ Calls(c, t) /\ InProxy(t)
        /\ waitMap' = [waitMap EXCEPT ![k] = @ \cup {t}]
        /\ hosts' = hosts \cup {[t |-> t, cpu |-> c, kind |-> k, done |-> FALSE]}
        /\ call' = [cpu |-> c, at |-> "started"]
        /\ UNCHANGED <<sch, futexWait, dma, requests, People>>
  BY DEF BlockOnHost
<1> DEFINE h == [t |-> t, cpu |-> c, kind |-> k, done |-> FALSE]
<1>2. sch.exec[c] = t /\ t # NoThread /\ t \notin Blocked /\ Starting = {} /\ InHost = OfHosts
  BY <1>1, Caller
<1>3. t \notin OfHosts /\ t \notin InFutex /\ t \notin InDma
  BY <1>2 DEF Blocked
<1>4. h \in Host /\ h.t = t /\ h.kind = k /\ h.done = FALSE /\ hosts' = hosts \cup {h}
  BY <1>1 DEF Host
<1> HIDE DEF h
<1>5. OfHosts' = OfHosts \cup {t} /\ Returned' = Returned
  BY <1>4 DEF OfHosts, Returned
<1>6. Starting' = {t}
  BY <1>1, <1>2 DEF Starting
<1>7. InHost' = InHost /\ InFutex' = InFutex /\ InDma' = InDma
  BY <1>1, <1>2, <1>3, <1>5, <1>6 DEF InHost, InFutex, InDma
<1>8. Blocked' = Blocked
  BY <1>7 DEF Blocked
<1>9. OneWait'
  <2>1. FutexOnce'
    BY <1>1 DEF SchedInv, OneWait, FutexOnce
  <2>2. \A g \in hosts : g.t # t
    BY <1>3 DEF OfHosts
  <2>3. HostOnce'
    BY <1>4, <2>2 DEF SchedInv, OneWait, HostOnce
  <2> QED BY <2>1, <2>3, <1>7 DEF SchedInv, OneWait
<1>10. CallInv'
  <2>1. Returned \subseteq OfHosts
    BY DEF Returned, OfHosts
  <2> QED BY <2>1, <1>1, <1>2, <1>3, <1>5 DEF CallInv, InProxy
<1>11. MapsInv'
  <2> SUFFICES ASSUME NEW m \in AllKinds \ {"sleep"}, NEW u \in waitMap'[m]
               PROVE  \E g \in hosts' : g.t = u /\ g.kind = m
    BY DEF MapsInv
  <2>1. CASE m = k /\ u = t
    BY <2>1, <1>4
  <2>2. CASE ~(m = k /\ u = t)
    <3>1. u \in waitMap[m]
      BY <1>1, <2>2 DEF SchedInv, TypesInv
    <3>2. PICK g \in hosts : g.t = u /\ g.kind = m
      BY <3>1 DEF SchedInv, MapsInv
    <3> QED BY <3>2, <1>4
  <2> QED BY <2>1, <2>2
<1>12. TypesInv'
  BY <1>1, <1>4 DEF SchedInv, TypesInv, People
<1>13. Core(sch', Blocked', Returned', alive')
  BY <1>1, <1>5, <1>8 DEF SchedInv, People
<1> QED BY <1>9, <1>10, <1>11, <1>12, <1>13 DEF SchedInv

LEMMA BlockSwitchStep == ASSUME SchedInv, BlockSwitch PROVE SchedInv'
<1> DEFINE c == call.cpu
           t == sch.exec[c]
<1>1. /\ call.at = "started" /\ t # NoThread
      /\ Leave(SwitchWait(Saved(sch, t, "switch"), c), c)
      /\ UNCHANGED <<futexWait, Kept, People>>
  BY DEF BlockSwitch
<1>2. c \in Cpus /\ t \in Threads /\ t \in OnCpus(sch)
  <2>1. c \in Cpus /\ sch \in SchTables
    BY DEF SchedInv, TypesInv, Core, Tables
  <2>2. t \in Threads
    BY <1>1, <2>1 DEF SchTables
  <2> QED BY <2>1, <2>2 DEF OnCpus
<1>3. t \notin Blocked /\ t \in OfHosts
  BY <1>1, <1>2 DEF SchedInv, Core, Running, CallInv
<1>4. Starting = {t} /\ call' = NoCall
  BY <1>1 DEF Starting, Leave
<1> HIDE DEF c, t
<1>5. OfHosts' = OfHosts /\ Starting' = {}
  BY <1>1, <1>4 DEF OfHosts, Starting, NoCall, Kept
<1>6. InHost' = InHost \cup {t} /\ InFutex' = InFutex /\ InDma' = InDma
  BY <1>1, <1>3, <1>4, <1>5 DEF InHost, InFutex, InDma, Kept
<1>7. Blocked' = Blocked \cup {t}
  BY <1>6 DEF Blocked
<1>8. OneWait'
  <2>1. FutexOnce' /\ HostOnce'
    BY <1>1 DEF SchedInv, OneWait, FutexOnce, HostOnce, Kept
  <2> QED BY <2>1, <1>3, <1>6 DEF SchedInv, OneWait, Blocked
<1>9. TypesInv' /\ MapsInv'
  <2>1. TypesInv'
    BY <1>1, <1>4, NoCallOK DEF SchedInv, TypesInv, Kept, People
  <2> QED BY <2>1, <1>1 DEF SchedInv, MapsInv, Kept
<1>10. sch.exec[c] = t
  BY DEF t
<1> QED BY <1>1, <1>2, <1>7, <1>8, <1>9, <1>10, BlocksStep DEF Kept, People

LEMMA HostReturnStep ==
  ASSUME SchedInv, ~HostRaces, NEW t \in Threads, NEW k, HostReturn(t, k)
  PROVE  SchedInv'
<1>1. PICK h \in hosts :
        /\ h.t = t /\ h.kind = k /\ ~h.done /\ call = NoCall
        /\ hosts' = (hosts \ {h}) \cup {[h EXCEPT !.done = TRUE]}
        /\ sch' = Returning(sch, {t})
        /\ UNCHANGED <<futexWait, dma, requests, waitMap, call, People>>
  BY DEF HostReturn
<1> DEFINE d == [h EXCEPT !.done = TRUE]
<1>2. h \in Host
  BY DEF SchedInv, TypesInv
<1>3. d \in Host /\ d.t = t /\ d.kind = k /\ d.done = TRUE /\ hosts' = (hosts \ {h}) \cup {d}
  BY <1>1, <1>2 DEF Host
<1> HIDE DEF d
<1>4. HostOnce
  BY DEF SchedInv, OneWait
<1>5. OfHosts' = OfHosts /\ t \in OfHosts
  BY <1>1, <1>3 DEF OfHosts
<1>6. Returned' = Returned \cup {t}
  <2>1. \A g \in hosts : g.done => g # h
    BY <1>1
  <2> QED BY <1>1, <1>3, <2>1 DEF Returned
<1>7. Starting = {} /\ Starting' = {}
  BY <1>1 DEF Starting, NoCall
<1>8. InHost' = InHost /\ InFutex' = InFutex /\ InDma' = InDma /\ t \in InHost
  BY <1>1, <1>5, <1>7 DEF InHost, InFutex, InDma
<1>9. Blocked' = Blocked /\ t \in Blocked
  BY <1>8 DEF Blocked
<1>10. OneWait'
  <2>1. FutexOnce'
    BY <1>1 DEF SchedInv, OneWait, FutexOnce
  <2>2. HostOnce'
    BY <1>1, <1>3, <1>4 DEF HostOnce
  <2> QED BY <2>1, <2>2, <1>8 DEF SchedInv, OneWait
<1>11. CallInv'
  BY <1>1 DEF CallInv, NoCall
<1>12. MapsInv'
  <2>1. \A g \in hosts : \E e \in hosts' : e.t = g.t /\ e.kind = g.kind
    BY <1>1, <1>3
  <2> SUFFICES ASSUME NEW m \in AllKinds \ {"sleep"}, NEW u \in waitMap'[m]
               PROVE  \E g \in hosts' : g.t = u /\ g.kind = m
    BY DEF MapsInv
  <2>2. PICK g \in hosts : g.t = u /\ g.kind = m
    BY <1>1 DEF SchedInv, MapsInv
  <2> QED BY <2>1, <2>2
<1>13. TypesInv'
  BY <1>1, <1>3 DEF SchedInv, TypesInv, People
<1>14. Core(sch', Blocked, Returned \cup {t}, alive)
  BY <1>1, <1>9, CoreReturns DEF SchedInv
<1>15. Core(sch', Blocked', Returned', alive')
  BY <1>1, <1>6, <1>9, <1>14 DEF People
<1> QED BY <1>10, <1>11, <1>12, <1>13, <1>15 DEF SchedInv

\* sleep_wait_thread_function erases from the map of polls, where the thread is not.
LEMMA HostWakeStep ==
  ASSUME SchedInv, ~HostRaces, NEW t \in Threads, NEW k, NEW erased, erased = k \/ k = "sleep",
         HostWake(t, k, erased)
  PROVE  SchedInv'
<1>1. PICK h \in hosts :
        /\ h.t = t /\ h.kind = k /\ h.done /\ call = NoCall
        /\ hosts' = hosts \ {h}
        /\ waitMap' = [waitMap EXCEPT ![erased] = @ \ {t}]
        /\ sch' = InsertReady(sch, t, h.cpu)
        /\ UNCHANGED <<futexWait, dma, requests, call, People>>
  BY DEF HostWake
<1>2. h \in Host /\ h.cpu \in Cpus
  BY DEF SchedInv, TypesInv, Host
<1>3. \A g \in hosts : g.t = t => g = h
  BY <1>1 DEF SchedInv, OneWait, HostOnce
<1>4. OfHosts' = OfHosts \ {t} /\ Returned' = Returned \ {t} /\ t \in OfHosts
  BY <1>1, <1>3 DEF OfHosts, Returned
<1>5. Starting = {} /\ Starting' = {}
  BY <1>1 DEF Starting, NoCall
<1>6. InHost' = InHost \ {t} /\ InFutex' = InFutex /\ InDma' = InDma /\ t \in InHost
  BY <1>1, <1>4, <1>5 DEF InHost, InFutex, InDma
<1>7. Blocked' = Blocked \ {t} /\ t \in Blocked
  BY <1>6 DEF Blocked, SchedInv, OneWait
<1>8. OneWait'
  <2>1. FutexOnce' /\ HostOnce'
    BY <1>1 DEF SchedInv, OneWait, FutexOnce, HostOnce
  <2> QED BY <2>1, <1>6 DEF SchedInv, OneWait
<1>9. waitMap' \in [AllKinds -> SUBSET Threads] /\ \A m \in AllKinds : waitMap'[m] \subseteq waitMap[m]
  BY <1>1 DEF SchedInv, TypesInv
<1>10. MapsInv'
  <2> SUFFICES ASSUME NEW m \in AllKinds \ {"sleep"}, NEW u \in waitMap'[m]
               PROVE  \E g \in hosts' : g.t = u /\ g.kind = m
    BY DEF MapsInv
  <2>1. u \in waitMap[m]
    BY <1>9
  <2>2. PICK g \in hosts : g.t = u /\ g.kind = m
    BY <2>1 DEF SchedInv, MapsInv
  <2>3. g # h
    <3> SUFFICES ASSUME g = h PROVE FALSE
      OBVIOUS
    <3>1. u = t /\ m = k /\ erased = m
      BY <1>1, <2>2
    <3>2. waitMap'[m] = waitMap[m] \ {t}
      BY <1>1, <3>1 DEF SchedInv, TypesInv
    <3> QED BY <3>1, <3>2
  <2> QED BY <1>1, <2>2, <2>3
<1>11. TypesInv'
  BY <1>1, <1>9 DEF SchedInv, TypesInv, People
<1> QED BY <1>1, <1>2, <1>4, <1>7, <1>8, <1>10, <1>11, WakesStep DEF People
-----------------------------------------------------------------------------
LEMMA SchedInitial == Init => SchedInv
<1> SUFFICES ASSUME Init PROVE SchedInv
  OBVIOUS
<1>0. 0 \in Cpus /\ 1 \in Threads /\ \A t \in Threads : t # NoThread
  BY SchedulerAssumption DEF Cpus, Threads, NoThread
<1>1. /\ sch.exec = [c \in Cpus |-> IF c = 0 THEN 1 ELSE NoThread] /\ sch.on = [c \in Cpus |-> c = 0]
      /\ sch.ready = <<>> /\ sch.waiting = {} /\ sch.frames = [t \in Threads |-> <<>>]
      /\ sch.stopped = FALSE
      /\ sch = [exec |-> sch.exec, on |-> sch.on, ready |-> sch.ready, waiting |-> sch.waiting,
                frames |-> sch.frames, stopped |-> sch.stopped]
  BY DEF Init
<1>2. sch \in SchTables
  <2>1. sch.exec \in [Cpus -> Threads \cup {NoThread}] /\ sch.frames \in [Threads -> Seq(AnyFrame)]
    BY <1>0, <1>1
  <2>2. sch.on \in [Cpus -> BOOLEAN]
    <3>1. \A c \in Cpus : (c = 0) \in BOOLEAN
      OBVIOUS
    <3> QED BY <1>1, <3>1
  <2>3. <<>> \in Seq(Threads)
    OBVIOUS
  <2>4. sch.ready \in Seq(Threads) /\ sch.waiting \in SUBSET Threads /\ sch.stopped \in BOOLEAN
    <3>1. sch.waiting \in SUBSET Threads /\ sch.stopped \in BOOLEAN
      BY <1>1
    <3>2. sch.ready \in Seq(Threads)
      BY <1>1, <2>3
    <3> QED BY <3>1, <3>2
  <2> QED BY <1>1, <2>1, <2>2, <2>4 DEF SchTables
<1>3. OnCpus(sch) = {1} /\ InReady(sch) = {}
  <2>1. OnCpus(sch) = {1}
    BY <1>0, <1>1 DEF OnCpus
  <2>2. InReady(sch) = {}
    BY <1>1 DEF InReady
  <2> QED BY <2>1, <2>2
<1>4. OneCpu(sch) /\ OnceReady(sch) /\ CanGoOn(sch)
  <2>1. OneCpu(sch) /\ OnceReady(sch)
    BY <1>1 DEF OneCpu, OnceReady
  <2>2. Going(<<>>)
    BY DEF Going
  <2>3. CanGoOn(sch)
    BY <1>0, <1>1, <1>3, <2>2 DEF CanGoOn
  <2> QED BY <2>1, <2>3
<1>5. Lit(sch)
  <2> SUFFICES ASSUME NEW c \in Cpus, sch.exec[c] # NoThread PROVE sch.on[c]
    BY DEF Lit
  <2>1. c = 0
    BY <1>1
  <2> QED BY <1>1, <2>1
<1>6. Tables(sch) /\ Running(sch) = {1}
  BY <1>2, <1>3, <1>4, <1>5 DEF Tables, Running
<1>7. /\ futexWait = [f \in Futexes |-> <<>>] /\ dma = [t \in Threads |-> NotInDMA] /\ hosts = {}
      /\ requests = [t \in Threads |-> 0] /\ waitMap = [k \in AllKinds |-> {}] /\ call = NoCall
      /\ born = 1 /\ alive = {1} /\ group = [t \in Threads |-> t]
      /\ clearTid = [t \in Threads |-> NoFutex] /\ doClear = [t \in Threads |-> FALSE]
  BY DEF Init
<1>8. InFutex = {} /\ InDma = {} /\ OfHosts = {} /\ Returned = {}
  <2>1. InFutex = {}
    BY <1>7 DEF InFutex
  <2>2. InDma = {}
    BY <1>7 DEF InDma, NotInDMA
  <2> QED BY <2>1, <2>2, <1>7 DEF OfHosts, Returned
<1>9. Blocked = {}
  BY <1>8 DEF Blocked, InHost
<1>10. OneWait
  BY <1>7, <1>8 DEF OneWait, FutexOnce, HostOnce, InHost
<1>11. TypesInv
  <2>1. futexWait \in [Futexes -> Seq(Waiter)] /\ dma \in [Threads -> [ref : Nat, cpu : Cpus]]
    BY <1>7, NoCallOK
  <2>2. alive \subseteq 1 .. born /\ born \in Threads
    BY <1>0, <1>7
  <2>3. call \in [cpu : Cpus, at : {"-", "started"}]
    BY <1>7, NoCallOK
  <2> QED BY <1>7, <2>1, <2>2, <2>3 DEF TypesInv
<1>12. CallInv /\ MapsInv
  BY <1>7 DEF CallInv, MapsInv, NoCall
<1>13. Core(sch, {}, {}, {1})
  BY <1>1, <1>6 DEF Core
<1> QED BY <1>7, <1>8, <1>9, <1>10, <1>11, <1>12, <1>13 DEF SchedInv

LEMMA SchedStep == ASSUME ~HostRaces, SchedInv, [Next]_schVars PROVE SchedInv'
<1>1. ASSUME NEW c \in Cpus, Ecall(c) PROVE SchedInv'
  <2>1. \A k \in {"blkread", "select", "poll", "sleep", "socksend", "sockrecv"} : k \in AllKinds
    BY DEF AllKinds
  <2>2. CASE \/ host_read(c) \/ host_pselect6(c) \/ host_ppoll(c)
             \/ host_clock_nanosleep(c) \/ host_sendto(c) \/ host_recvmsg(c)
    BY <2>1, <2>2, BlockOnHostStep DEF host_read, host_pselect6, host_ppoll, host_clock_nanosleep,
       host_sendto, host_recvmsg
  <2>3. CASE \/ EnterProxy(c) \/ PageFault(c) \/ ebreak(c) \/ SetTidAddress(c) \/ sched_yield(c)
    BY <2>3, EnterProxyStep, PageFaultStep, ebreakStep, SetTidAddressStep, sched_yieldStep
  <2>4. CASE host_clone(c) \/ host_clone3(c) \/ host_exit(c) \/ exitgroup(c)
    BY <1>1, <2>4, NewThreadStep, host_exitStep, exitgroupStep DEF host_clone, host_clone3
  <2>5. CASE FutexWait(c) \/ FutexWake(c) \/ host_execve(c) \/ mmap(c)
    BY <2>5, FutexWaitStep, FutexWakeStep, host_execveStep, mmapStep
  <2> QED BY <1>1, <2>2, <2>3, <2>4, <2>5 DEF Ecall
<1>2. ASSUME NEW t \in Threads, HostThread(t) PROVE SchedInv'
  <2>1. CASE \E k : HostReturn(t, k)
    BY <2>1, HostReturnStep
  <2>2. CASE \E k : HostWake(t, k, k)
    BY <2>2, HostWakeStep
  <2>3. CASE HostWake(t, "sleep", "poll")
    BY <2>3, HostWakeStep
  <2> QED BY <1>2, <2>1, <2>2, <2>3 DEF HostThread, poll_wait_thread_function,
         select_wait_thread_function, sleep_wait_thread_function, blkread_wait_thread_function,
         socksend_wait_thread_function, sockrecv_wait_thread_function
<1>3. CASE UNCHANGED schVars
  <2>1. InFutex' = InFutex /\ InDma' = InDma /\ OfHosts' = OfHosts /\ Starting' = Starting /\ Returned' = Returned
    BY <1>3 DEF schVars, InFutex, InDma, OfHosts, Starting, Returned
  <2>2. InHost' = InHost /\ Blocked' = Blocked
    BY <2>1 DEF InHost, Blocked
  <2>3. OneWait' /\ CallInv' /\ MapsInv' /\ TypesInv'
    BY <1>3, <2>1, <2>2 DEF schVars, SchedInv, OneWait, FutexOnce, HostOnce, CallInv, MapsInv, TypesInv
  <2> QED BY <1>3, <2>1, <2>2, <2>3 DEF schVars, SchedInv
<1> QED BY <1>1, <1>2, <1>3, BlockSwitchStep, DmaStep DEF Next

LEMMA AlwaysSchedInv == ~HostRaces => (Spec => []SchedInv)
<1> SUFFICES ASSUME ~HostRaces PROVE Spec => []SchedInv
  OBVIOUS
<1>1. Init => SchedInv
  BY SchedInitial
<1>2. SchedInv /\ [Next]_schVars => SchedInv'
  BY SchedStep
<1> QED BY <1>1, <1>2, PTL DEF Spec
-----------------------------------------------------------------------------
(* What follows from the invariant.                                        *)

LEMMA None == ASSUME NEW S, S = {} PROVE Cardinality(S) = 0
BY FS_EmptySet
LEMMA Alone == ASSUME NEW S, NEW x \in S, \A y \in S : y = x PROVE Cardinality(S) = 1
<1>1. S = {x}
  OBVIOUS
<1> QED BY <1>1, FS_Singleton

\* As the waiters of a futex are different threads, there are no more than threads.
LEMMA ShortLists ==
  ASSUME SchedInv, NEW f \in Futexes, NEW k \in DOMAIN futexWait[f]
  PROVE  k \in 1 .. NumThreads
<1> DEFINE ws == futexWait[f]
           n == Len(ws)
           who == [j \in 1 .. n |-> ws[j].t]
<1>1. ws \in Seq(Waiter) /\ n \in Nat /\ DOMAIN ws = 1 .. n /\ NumThreads \in Nat
  BY SchedulerAssumption DEF SchedInv, TypesInv
<1>2. \A i, j \in 1 .. n : ws[i].t = ws[j].t => i = j
  BY <1>1 DEF SchedInv, OneWait, FutexOnce
<1>3. \A j \in 1 .. n : ws[j].t \in 1 .. NumThreads
  <2> SUFFICES ASSUME NEW j \in 1 .. n PROVE ws[j].t \in 1 .. NumThreads
    OBVIOUS
  <2>1. ws[j] \in Waiter
    BY <1>1
  <2> QED BY <2>1 DEF Waiter, Threads
<1> HIDE DEF ws, n
<1>4. who \in [1 .. n -> 1 .. NumThreads]
  BY <1>3
<1>5. \A i, j \in 1 .. n : who[i] = who[j] => i = j
  BY <1>2
<1> HIDE DEF who
<1>6. /\ IsFiniteSet(1 .. n) /\ Cardinality(1 .. n) = n
      /\ IsFiniteSet(1 .. NumThreads) /\ Cardinality(1 .. NumThreads) = NumThreads
  BY <1>1, FS_Interval
<1>7. ~(NumThreads < n)
  <2> SUFFICES ASSUME NumThreads < n PROVE FALSE
    OBVIOUS
  <2>1. Cardinality(1 .. NumThreads) < Cardinality(1 .. n)
    BY <1>6
  <2>2. \E x, y \in 1 .. n : x # y /\ who[x] = who[y]
    BY <1>4, <1>6, <2>1, FS_PigeonHole
  <2> QED BY <1>5, <2>2
<1> QED BY <1>1, <1>7 DEF ws

LEMMA OneOf ==
  ASSUME SchedInv, NEW t \in Threads
  PROVE  Places(t) = (IF t \in OnCpus(sch) THEN 1 ELSE 0) + (IF t \in InReady(sch) THEN 1 ELSE 0)
                     + (IF t \in InFutex THEN 1 ELSE 0) + (IF t \in InDma THEN 1 ELSE 0)
                     + (IF t \in InHost THEN 1 ELSE 0)
<1> DEFINE cpus == {c \in Cpus : sch.exec[c] = t}
           spots == {k \in DOMAIN sch.ready : sch.ready[k] = t}
           waits == {q \in Futexes \X (1 .. NumThreads) :
                       q[2] \in DOMAIN futexWait[q[1]] /\ futexWait[q[1]][q[2]].t = t}
           calls == {h \in hosts : h.t = t /\ ~(call.at = "started" /\ sch.exec[call.cpu] = t)}
<1>1. Tables(sch) /\ t # NoThread
  BY DEF SchedInv, Core, Threads, NoThread
<1>2. Cardinality(cpus) = IF t \in OnCpus(sch) THEN 1 ELSE 0
  <2>1. CASE t \in OnCpus(sch)
    <3>1. PICK c \in cpus : TRUE
      BY <2>1 DEF OnCpus
    <3>2. \A d \in cpus : d = c
      BY <1>1, <3>1 DEF Tables, OneCpu
    <3> HIDE DEF cpus
    <3> QED BY <2>1, <3>2, Alone
  <2>2. CASE t \notin OnCpus(sch)
    <3>1. cpus = {}
      BY <2>2 DEF OnCpus
    <3> HIDE DEF cpus
    <3> QED BY <2>2, <3>1, None
  <2> QED BY <2>1, <2>2
<1>3. Cardinality(spots) = IF t \in InReady(sch) THEN 1 ELSE 0
  <2>1. CASE t \in InReady(sch)
    <3>1. PICK k \in spots : TRUE
      BY <2>1 DEF InReady
    <3>2. \A j \in spots : j = k
      BY <1>1 DEF Tables, OnceReady
    <3> HIDE DEF spots
    <3> QED BY <2>1, <3>2, Alone
  <2>2. CASE t \notin InReady(sch)
    <3>1. spots = {}
      BY <2>2 DEF InReady
    <3> HIDE DEF spots
    <3> QED BY <2>2, <3>1, None
  <2> QED BY <2>1, <2>2
<1>4. Cardinality(waits) = IF t \in InFutex THEN 1 ELSE 0
  <2>1. CASE t \in InFutex
    <3>1. PICK f \in Futexes : \E k \in DOMAIN futexWait[f] : futexWait[f][k].t = t
      BY <2>1 DEF InFutex
    <3>2. PICK k \in DOMAIN futexWait[f] : futexWait[f][k].t = t
      BY <3>1
    <3>3. k \in 1 .. NumThreads
      BY ShortLists
    <3>4. <<f, k>> \in waits
      BY <3>2, <3>3
    <3>5. ASSUME NEW q \in waits PROVE q = <<f, k>>
      <4>1. q[1] \in Futexes /\ q[2] \in DOMAIN futexWait[q[1]] /\ futexWait[q[1]][q[2]].t = t /\ q = <<q[1], q[2]>>
        OBVIOUS
      <4>2. q[1] = f /\ q[2] = k
        BY <3>2, <4>1 DEF SchedInv, OneWait, FutexOnce
      <4> QED BY <4>1, <4>2
    <3> HIDE DEF waits
    <3> QED BY <2>1, <3>4, <3>5, Alone
  <2>2. CASE t \notin InFutex
    <3>1. waits = {}
      BY <2>2 DEF InFutex
    <3> HIDE DEF waits
    <3> QED BY <2>2, <3>1, None
  <2> QED BY <2>1, <2>2
<1>5. Cardinality(calls) = IF t \in InHost THEN 1 ELSE 0
  <2>1. CASE t \in InHost
    <3>1. PICK h \in hosts : h.t = t
      BY <2>1 DEF InHost, OfHosts
    <3>2. h \in calls
      BY <2>1, <3>1 DEF InHost, Starting
    <3>3. \A g \in calls : g = h
      BY <3>1 DEF SchedInv, OneWait, HostOnce
    <3> HIDE DEF calls
    <3> QED BY <2>1, <3>2, <3>3, Alone
  <2>2. CASE t \notin InHost
    <3>1. calls = {}
      BY <2>2 DEF InHost, OfHosts, Starting
    <3> HIDE DEF calls
    <3> QED BY <2>2, <3>1, None
  <2> QED BY <2>1, <2>2
<1>6. dma[t].ref > 0 <=> t \in InDma
  BY DEF InDma
<1> QED BY <1>2, <1>3, <1>4, <1>5, <1>6 DEF Places

LEMMA InOnePlace == ASSUME SchedInv PROVE OnePlace
<1> SUFFICES ASSUME NEW t \in Threads PROVE Places(t) = IF t \in alive THEN 1 ELSE 0
  BY DEF OnePlace
<1>1. t \in alive <=> t \in OnCpus(sch) \/ t \in InReady(sch) \/ t \in InFutex \/ t \in InDma \/ t \in InHost
  BY DEF SchedInv, Core, Running, Blocked
<1>2. /\ ~(t \in OnCpus(sch) /\ t \in InReady(sch))
      /\ ~((t \in OnCpus(sch) \/ t \in InReady(sch)) /\ (t \in InFutex \/ t \in InDma \/ t \in InHost))
      /\ ~(t \in InFutex /\ t \in InDma) /\ ~(t \in InFutex /\ t \in InHost) /\ ~(t \in InDma /\ t \in InHost)
  BY DEF SchedInv, Core, Tables, Running, Blocked, OneWait
<1> QED BY <1>1, <1>2, OneOf

LEMMA InBalance == ASSUME SchedInv PROVE FramesBalanced
<1>1. Tables(sch)
  BY DEF SchedInv, Core
<1>2. ASSUME NEW c \in Cpus, sch.exec[c] # NoThread
      PROVE  Range(sch.frames[sch.exec[c]]) \subseteq {"proxy", "fault"}
  <2> DEFINE f == sch.frames[sch.exec[c]]
  <2>1. sch.exec[c] \in OnCpus(sch)
    BY <1>1, <1>2 DEF Tables, SchTables, OnCpus
  <2>2. Going(f)
    BY <1>1, <2>1 DEF Tables, CanGoOn
  <2> HIDE DEF f
  <2>3. f \in Seq({"proxy", "fault"})
    BY <2>2 DEF Going
  <2>4. Range(f) \subseteq {"proxy", "fault"}
    BY <2>3 DEF Range
  <2> QED BY <2>4 DEF f
<1>3. ASSUME NEW t \in alive, t \notin Range(sch.exec)
      PROVE  sch.frames[t] # <<>> /\ Last(sch.frames[t]) \in {"switch", "result"}
  <2>1. DOMAIN sch.exec = Cpus
    BY <1>1 DEF Tables, SchTables
  <2>2. t \notin OnCpus(sch)
    BY <1>3, <2>1 DEF OnCpus, Range
  <2>3. Suspended(sch.frames[t])
    BY <1>1, <2>2 DEF SchedInv, Core, Running, Tables, CanGoOn
  <2> QED BY <2>3, SuspendedFacts
<1>4. \A h \in hosts : h.done => Last(sch.frames[h.t]) = "result"
  BY DEF SchedInv, Core, Returned
<1> QED BY <1>2, <1>3, <1>4 DEF FramesBalanced

\* As long as no host thread acts while an ecall is not over, a thread is at any moment on one
\* CPU, once among the ready ones, or where exactly one of a futex, the DMA and a host thread
\* will wake it, with the frame it is to return to (multicore.cpp, the scheduler and the calls
\* that block).
THEOREM ThreadsAreKept == ~HostRaces => (Spec => []ThreadsKept)
<1> SUFFICES ASSUME ~HostRaces PROVE Spec => []ThreadsKept
  OBVIOUS
<1>1. SchedInv => ThreadsKept
  BY InOnePlace, InBalance DEF ThreadsKept
<1>2. Spec => []SchedInv
  BY AlwaysSchedInv
<1> QED BY <1>1, <1>2, PTL

\* A CPU with a thread is never left halted, and a thread is ready only while some CPU has
\* one, whose next call takes it (insert_ready_thread_nolock, switch_next_thread_nolock).
THEOREM NoThreadStranded == ~HostRaces => (Spec => []NoneStranded)
<1> SUFFICES ASSUME ~HostRaces PROVE Spec => []NoneStranded
  OBVIOUS
<1>1. SchedInv => NoneStranded
  BY DEF SchedInv, Core, Tables, Lit, Busy, NoneStranded
<1>2. Spec => []SchedInv
  BY AlwaysSchedInv
<1> QED BY <1>1, <1>2, PTL

\* stop_sim_and_exit is not called while a thread is left (switch_next_thread_nolock).
THEOREM StopsAtTheEnd == ~HostRaces => (Spec => []StopsWhenDone)
<1> SUFFICES ASSUME ~HostRaces PROVE Spec => []StopsWhenDone
  OBVIOUS
<1>1. SchedInv => StopsWhenDone
  BY DEF SchedInv, Core, StopsWhenDone
<1>2. Spec => []SchedInv
  BY AlwaysSchedInv
<1> QED BY <1>1, <1>2, PTL

\* But for that of sleeping threads, the maps of host calls have entries of threads that wait
\* for such a call only.
THEOREM WaitMapsAreExact == ~HostRaces => (Spec => []WaitMapsExact)
<1> SUFFICES ASSUME ~HostRaces PROVE Spec => []WaitMapsExact
  OBVIOUS
<1>1. SchedInv => WaitMapsExact
  BY DEF SchedInv, MapsInv, WaitMapsExact
<1>2. Spec => []SchedInv
  BY AlwaysSchedInv
<1> QED BY <1>1, <1>2, PTL

\* A thread waits for no more requests than one call of it makes.
Asked == \A t \in Threads : dma[t].ref <= MaxReqs[t]

LEMMA AskedStep == ASSUME SchedInv, Asked, [Next]_schVars PROVE Asked'
<1>1. dma \in [Threads -> [ref : Nat, cpu : Cpus]] /\ \A t \in Threads : MaxReqs[t] \in Nat
  BY SchedulerAssumption DEF SchedInv, TypesInv, Threads
<1>2. CASE dma' = dma
  BY <1>2 DEF Asked
<1>3. ASSUME NEW c \in Cpus, exitgroup(c) PROVE Asked'
  <2>1. PICK gone : dma' = [u \in Threads |-> IF u \in gone THEN NotInDMA ELSE dma[u]]
    BY <1>3 DEF exitgroup
  <2>2. NotInDMA.ref = 0
    BY DEF NotInDMA
  <2> QED BY <1>1, <2>1, <2>2 DEF Asked
<1>4. ASSUME NEW c \in Cpus, NEW t \in Threads, LoadPages(c, t) PROVE Asked'
  <2>1. PICK n \in 1 .. MaxReqs[t] : dma' = [dma EXCEPT ![t] = [ref |-> n, cpu |-> c]]
    BY <1>4 DEF LoadPages
  <2>2. \A u \in Threads : dma'[u].ref = IF u = t THEN n ELSE dma[u].ref
    BY <1>1, <2>1
  <2> QED BY <1>1, <2>2 DEF Asked
<1>5. ASSUME NEW t \in Threads, dma_complete_callback(t) PROVE Asked'
  <2>1. CASE dma' = [dma EXCEPT ![t] = NotInDMA]
    <3>1. NotInDMA.ref = 0
      BY DEF NotInDMA
    <3>2. \A u \in Threads : dma'[u].ref = IF u = t THEN 0 ELSE dma[u].ref
      BY <1>1, <2>1, <3>1
    <3> QED BY <1>1, <3>2 DEF Asked
  <2>2. CASE dma' = [dma EXCEPT ![t].ref = IF @ > 0 THEN @ - 1 ELSE 0]
    <3>1. \A u \in Threads : dma'[u].ref = IF u # t THEN dma[u].ref
                                           ELSE IF dma[t].ref > 0 THEN dma[t].ref - 1 ELSE 0
      BY <1>1, <2>2
    <3>2. \A u \in Threads : dma[u].ref \in Nat
      BY <1>1
    <3> QED BY <1>1, <3>1, <3>2 DEF Asked
  <2> QED BY <1>5, <2>1, <2>2 DEF dma_complete_callback
<1>6. ASSUME NEW c \in Cpus, Ecall(c) PROVE Asked'
  <2>1. \/ dma' = dma \/ exitgroup(c) \/ \E t \in Threads : LoadPages(c, t)
    <3>1. CASE \/ host_read(c) \/ host_pselect6(c) \/ host_ppoll(c)
               \/ host_clock_nanosleep(c) \/ host_sendto(c) \/ host_recvmsg(c)
      BY <3>1 DEF host_read, host_pselect6, host_ppoll, host_clock_nanosleep, host_sendto,
         host_recvmsg, BlockOnHost
    <3>2. CASE EnterProxy(c) \/ PageFault(c) \/ ebreak(c) \/ SetTidAddress(c) \/ sched_yield(c)
      BY <3>2 DEF EnterProxy, PageFault, ebreak, SetTidAddress, sched_yield, Kept
    <3>3. CASE \/ host_clone(c) \/ host_clone3(c) \/ host_exit(c) \/ FutexWait(c) \/ FutexWake(c)
      BY <3>3 DEF host_clone, host_clone3, NewThread, host_exit, FutexWait, FutexWake, Kept
    <3>4. CASE host_execve(c) \/ mmap(c)
      BY <3>4 DEF host_execve, mmap
    <3> QED BY <1>6, <3>1, <3>2, <3>3, <3>4 DEF Ecall
  <2> QED BY <2>1, <1>2, <1>3, <1>4
<1>7. ASSUME NEW t \in Threads, HostThread(t) PROVE dma' = dma
  BY <1>7 DEF HostThread, poll_wait_thread_function, select_wait_thread_function,
     sleep_wait_thread_function, blkread_wait_thread_function, socksend_wait_thread_function,
     sockrecv_wait_thread_function, HostReturn, HostWake
<1>8. BlockSwitch \/ UNCHANGED schVars => dma' = dma
  BY DEF BlockSwitch, Kept, schVars
<1> QED BY <1>2, <1>5, <1>6, <1>7, <1>8 DEF Next

\* The tables have the types of their fields (multicore.h).
THEOREM SchedulerTyped == ~HostRaces => (Spec => []SchedulerTypeOK)
<1> SUFFICES ASSUME ~HostRaces PROVE Spec => []SchedulerTypeOK
  OBVIOUS
<1>1. Init => Asked
  <2> SUFFICES ASSUME Init, NEW t \in Threads PROVE dma[t].ref <= MaxReqs[t]
    BY DEF Asked
  <2>1. dma[t].ref = 0
    BY DEF Init, NotInDMA
  <2> QED BY <2>1, SchedulerAssumption DEF Threads
<1>2. SchedInv /\ Asked /\ [Next]_schVars => Asked'
  BY AskedStep
<1>3. SchedInv /\ Asked => SchedulerTypeOK
  <2> SUFFICES ASSUME SchedInv, Asked PROVE SchedulerTypeOK
    OBVIOUS
  <2>1. sch \in SchTables
    BY DEF SchedInv, Core, Tables
  <2>2. /\ sch.exec \in [Cpus -> Threads \cup {NoThread}] /\ sch.on \in [Cpus -> BOOLEAN]
        /\ sch.waiting \subseteq Threads
    BY <2>1 DEF SchTables
  <2>3. Range(sch.ready) \subseteq Threads
    <3>1. sch.ready \in Seq(Threads)
      BY <2>1 DEF SchTables
    <3> QED BY <3>1 DEF Range
  <2>4. ASSUME NEW t \in Threads PROVE Range(sch.frames[t]) \subseteq {"proxy", "fault", "switch", "result"}
    <3> DEFINE f == sch.frames[t]
    <3>1. f \in Seq(AnyFrame)
      BY <2>1 DEF SchTables
    <3> HIDE DEF f
    <3>2. Range(f) \subseteq AnyFrame
      BY <3>1 DEF Range
    <3> QED BY <3>2 DEF f, AnyFrame
  <2>5. ASSUME NEW f \in Futexes, NEW w \in Range(futexWait[f]) PROVE w.t \in Threads /\ w.cpu \in Cpus
    <3>1. futexWait[f] \in Seq(Waiter)
      BY DEF SchedInv, TypesInv
    <3>2. w \in Waiter
      BY <3>1 DEF Range
    <3> QED BY <3>2 DEF Waiter
  <2>6. ASSUME NEW t \in Threads PROVE dma[t].ref \in 0 .. MaxReqs[t] /\ requests[t] \in Nat
    <3>1. dma[t].ref \in Nat /\ requests[t] \in Nat
      BY DEF SchedInv, TypesInv
    <3>2. dma[t].ref <= MaxReqs[t] /\ MaxReqs[t] \in Nat
      BY SchedulerAssumption DEF Asked, Threads
    <3> QED BY <3>1, <3>2
  <2>7. alive \subseteq 1 .. born /\ born \in Threads
    BY DEF SchedInv, TypesInv
  <2> QED BY <2>2, <2>3, <2>4, <2>5, <2>6, <2>7 DEF SchedulerTypeOK
<1>4. Spec => []SchedInv
  BY AlwaysSchedInv
<1> QED BY <1>1, <1>2, <1>3, <1>4, PTL DEF Spec
=============================================================================
