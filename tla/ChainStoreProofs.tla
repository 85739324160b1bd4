-------------------------- MODULE ChainStoreProofs --------------------------
(***************************************************************************)
(* Theorems about ChainStore, for every set of nodes, files and times.     *)
(***************************************************************************)
EXTENDS ChainStore, SequenceTheorems, TLAPS

\* The ledger only ever grows at its end.
LEMMA LedgerGrows ==
  ASSUME TypeOK, [Next]_vars
  PROVE  /\ minted' \in Seq(BlockData)
         /\ Len(minted) <= Len(minted')
         /\ \A h \in 1 .. Len(minted) : minted'[h] = minted[h]
<1>1. CASE Signed
  <2>1. PICK b \in BlockData : minted' = Append(minted, b)
    BY <1>1 DEF Signed
  <2>2. minted \in Seq(BlockData)
    BY DEF TypeOK
  <2> QED
    BY <2>1, <2>2, AppendProperties
<1>2. CASE UNCHANGED minted
  BY <1>2 DEF TypeOK
<1>3. Signed \/ UNCHANGED minted
  BY DEF Next, vars, Mint, StartFresh, StartSaved, Begin, Extend, Reset, Stop
<1> QED
  BY <1>1, <1>2, <1>3

\* The variables keep their types.
THEOREM TypeCorrect == Spec => []TypeOK
<1>1. Init => TypeOK
  BY DEF Init, TypeOK
<1>2. TypeOK /\ [Next]_vars => TypeOK'
  <2> SUFFICES ASSUME TypeOK, [Next]_vars
               PROVE  TypeOK'
    OBVIOUS
  <2>1. /\ minted' \in Seq(BlockData)
        /\ Len(minted) \in Nat
        /\ Len(minted') \in Nat
        /\ Len(minted) <= Len(minted')
    BY LedgerGrows DEF TypeOK
  <2>2. chain \in [Nodes -> Seq(1 .. Len(minted'))]
    BY <2>1 DEF TypeOK
  <2>3. CASE Mint
    BY <2>1, <2>2, <2>3 DEF Mint, TypeOK
  <2>4. ASSUME NEW n \in Nodes, StartFresh(n)
        PROVE  TypeOK'
    <3>1. <<Len(minted) + 1>> \in Seq(1 .. Len(minted'))
      BY <2>1, <2>4 DEF StartFresh, Signed
    <3> QED
      BY <2>1, <2>2, <2>4, <3>1 DEF StartFresh, TypeOK
  <2>5. ASSUME NEW n \in Nodes, StartSaved(n)
        PROVE  TypeOK'
    BY <2>1, <2>2, <2>5 DEF StartSaved, TypeOK
  <2>6. ASSUME NEW n \in Nodes, NEW h \in 1 .. Len(minted), Begin(n, h)
        PROVE  TypeOK'
    <3>1. <<h>> \in Seq(1 .. Len(minted'))
      BY <2>1
    <3> QED
      BY <2>1, <2>2, <2>6, <3>1 DEF Begin, TypeOK
  <2>7. ASSUME NEW n \in Nodes, NEW h \in 1 .. Len(minted), Extend(n, h)
        PROVE  TypeOK'
    <3>1. Append(chain[n], h) \in Seq(1 .. Len(minted'))
      BY <2>1, <2>2
    <3> QED
      BY <2>1, <2>2, <2>7, <3>1 DEF Extend, TypeOK
  <2>8. ASSUME NEW n \in Nodes, Reset(n)
        PROVE  TypeOK'
    BY <2>1, <2>2, <2>8 DEF Reset, TypeOK
  <2>9. ASSUME NEW n \in Nodes, Stop(n)
        PROVE  TypeOK'
    BY <2>1, <2>2, <2>9 DEF Stop, TypeOK
  <2>10. CASE UNCHANGED vars
    BY <2>10 DEF TypeOK, vars
  <2> QED
    BY <2>3, <2>4, <2>5, <2>6, <2>7, <2>8, <2>9, <2>10 DEF Next
<1> QED
  BY <1>1, <1>2, PTL DEF Spec

-----------------------------------------------------------------------------

\* A chain stays well formed while the ledger grows.
LEMMA WellFormedStays ==
  ASSUME TypeOK, [Next]_vars,
         NEW c \in Seq(1 .. Len(minted)), WellFormed(minted, c)
  PROVE  WellFormed(minted', c)
<1>1. \A h \in 1 .. Len(minted) : minted'[h] = minted[h]
  BY LedgerGrows
<1>2. \A i \in 1 .. Len(c) : c[i] \in 1 .. Len(minted)
  OBVIOUS
<1>3. \A i \in 2 .. Len(c) : i \in 1 .. Len(c) /\ i - 1 \in 1 .. Len(c)
  OBVIOUS
<1> QED
  BY <1>1, <1>2, <1>3 DEF WellFormed, Follows

\* A block that follows the top of a well formed chain makes it a longer one.
LEMMA ExtendsWellFormed ==
  ASSUME NEW ledger \in Seq(BlockData), NEW c \in Seq(1 .. Len(ledger)),
         NEW h \in 1 .. Len(ledger),
         WellFormed(ledger, c), Acceptable(ledger, c, h)
  PROVE  WellFormed(ledger, Append(c, h))
<1> DEFINE d == Append(c, h)
<1>1. /\ Len(d) = Len(c) + 1
      /\ \A i \in 1 .. Len(c) : d[i] = c[i]
      /\ d[Len(c) + 1] = h
  BY AppendProperties
<1>2. Len(c) \in Nat \ {0}
  BY DEF Acceptable
<1>3. Follows(ledger, h, c[Len(c)])
  BY DEF Acceptable, TopBlock
<1>4. ledger[h].number = Len(c)
  <2>1. ledger[c[Len(c)]].number = Len(c) - 1
    BY <1>2 DEF WellFormed
  <2> QED
    BY <1>2, <1>3, <2>1 DEF Follows
<1>5. ASSUME NEW i \in 1 .. Len(d)
      PROVE  ledger[d[i]].number = i - 1
  BY <1>1, <1>2, <1>4, <1>5 DEF WellFormed
<1>6. ASSUME NEW i \in 2 .. Len(d)
      PROVE  Follows(ledger, d[i], d[i - 1])
  <2>1. CASE i \in 2 .. Len(c)
    BY <1>1, <1>2, <2>1 DEF WellFormed
  <2>2. CASE i = Len(c) + 1
    BY <1>1, <1>2, <1>3, <2>2
  <2> QED
    BY <1>1, <1>2, <2>1, <2>2
<1> QED
  BY <1>5, <1>6 DEF WellFormed

\* The three checks of Blockchain.add keep every chain well formed.
THEOREM ChainsAreWellFormed == Spec => []ChainWellFormed
<1>1. Init => ChainWellFormed
  <2> SUFFICES ASSUME Init, NEW n \in Nodes
               PROVE  WellFormed(minted, chain[n])
    BY DEF ChainWellFormed
  <2>1. chain[n] = <<>>
    BY DEF Init
  <2> QED
    BY <2>1 DEF WellFormed
<1>2. TypeOK /\ ChainWellFormed /\ [Next]_vars => ChainWellFormed'
  <2> SUFFICES ASSUME TypeOK, ChainWellFormed, [Next]_vars, NEW n \in Nodes
               PROVE  WellFormed(minted', chain'[n])
    BY DEF ChainWellFormed
  <2>1. /\ chain[n] \in Seq(1 .. Len(minted))
        /\ WellFormed(minted, chain[n])
        /\ minted \in Seq(BlockData)
    BY DEF TypeOK, ChainWellFormed
  <2>2. CASE chain'[n] = chain[n]
    BY <2>1, <2>2, WellFormedStays
  <2>3. CASE chain'[n] = <<>>
    BY <2>3 DEF WellFormed
  <2>4. ASSUME NEW h, minted'[h].number = 0, chain'[n] = <<h>>
        PROVE  WellFormed(minted', chain'[n])
    BY <2>4 DEF WellFormed
  <2>5. ASSUME NEW h \in 1 .. Len(minted), minted' = minted,
               Acceptable(minted, chain[n], h), chain'[n] = Append(chain[n], h)
        PROVE  WellFormed(minted', chain'[n])
    BY <2>1, <2>5, ExtendsWellFormed
  <2>6. ASSUME NEW m \in Nodes, StartFresh(m)
        PROVE  WellFormed(minted', chain'[n])
    <3>1. CASE m = n
      <4>1. chain'[n] = <<Len(minted) + 1>>
        BY <2>6, <3>1 DEF StartFresh, TypeOK
      <4>2. minted'[Len(minted) + 1].number = 0
        BY <2>6 DEF StartFresh, Signed
      <4> QED
        BY <2>4, <4>1, <4>2
    <3>2. CASE m # n
      BY <2>2, <2>6, <3>2 DEF StartFresh, TypeOK
    <3> QED
      BY <3>1, <3>2
  <2>7. ASSUME NEW m \in Nodes, NEW h \in 1 .. Len(minted), Begin(m, h)
        PROVE  WellFormed(minted', chain'[n])
    <3>1. chain'[n] = <<h>> \/ chain'[n] = chain[n]
      BY <2>7 DEF Begin, TypeOK
    <3> QED
      BY <2>2, <2>4, <2>7, <3>1 DEF Begin
  <2>8. ASSUME NEW m \in Nodes, NEW h \in 1 .. Len(minted), Extend(m, h)
        PROVE  WellFormed(minted', chain'[n])
    <3>1. CASE m = n
      BY <2>5, <2>8, <3>1 DEF Extend, TypeOK
    <3>2. CASE m # n
      BY <2>2, <2>8, <3>2 DEF Extend, TypeOK
    <3> QED
      BY <3>1, <3>2
  <2>9. ASSUME NEW m \in Nodes, StartSaved(m) \/ Reset(m) \/ Stop(m)
        PROVE  WellFormed(minted', chain'[n])
    BY <2>2, <2>3, <2>9 DEF StartSaved, Reset, Stop, TypeOK
  <2>10. CASE Mint \/ UNCHANGED vars
    BY <2>2, <2>10 DEF Mint, vars
  <2> QED
    BY <2>6, <2>7, <2>8, <2>9, <2>10 DEF Next
<1> QED
  BY <1>1, <1>2, TypeCorrect, PTL DEF Spec

-----------------------------------------------------------------------------

\* The block at a position of a well formed chain names the one before it.
LEMMA NamesPredecessor ==
  ASSUME TypeOK, ChainWellFormed, NEW n \in Nodes, NEW i \in 2 .. Len(chain[n])
  PROVE  /\ chain[n][i - 1] = minted[chain[n][i]].prev
         /\ i - 1 \in 1 .. Len(chain[n])
  BY DEF ChainWellFormed, WellFormed, Follows, TypeOK

\* A chain and another one that is extended by a block agree up to that block,
\* if the other one has it at the same position.
LEMMA ExtensionAgrees ==
  ASSUME TypeOK, ChainWellFormed, PrefixAgreement,
         NEW n \in Nodes, NEW m \in Nodes, NEW h \in 1 .. Len(minted),
         Acceptable(minted, chain[n], h),
         Len(chain[n]) + 1 <= Len(chain[m]),
         chain[m][Len(chain[n]) + 1] = h
  PROVE  \A k \in 1 .. Len(chain[n]) : chain[m][k] = chain[n][k]
<1> DEFINE L == Len(chain[n])
<1>1. L \in Nat \ {0} /\ Len(chain[m]) \in Nat
  BY DEF Acceptable, TypeOK
<1>2. L + 1 \in 2 .. Len(chain[m])
  BY <1>1
<1>3. chain[m][L] = minted[h].prev
  BY <1>1, <1>2, NamesPredecessor
<1>4. chain[n][L] = minted[h].prev
  BY DEF Acceptable, Follows, TopBlock
<1>5. L \in 1 .. Len(chain[m]) /\ L <= Len(chain[n])
  BY <1>1
<1> QED
  BY <1>3, <1>4, <1>5 DEF PrefixAgreement

\* Nodes that share a block share the history below it.
THEOREM HistoriesAgree == Spec => []PrefixAgreement
<1>1. Init => PrefixAgreement
  BY DEF Init, PrefixAgreement
<1>2. TypeOK /\ ChainWellFormed /\ PrefixAgreement /\ [Next]_vars
        => PrefixAgreement'
  <2> SUFFICES ASSUME TypeOK, ChainWellFormed, PrefixAgreement, [Next]_vars
               PROVE  PrefixAgreement'
    OBVIOUS
  <2>1. CASE UNCHANGED chain
    BY <2>1 DEF PrefixAgreement
  <2>2. ASSUME NEW n \in Nodes, \A m \in Nodes \ {n} : chain'[m] = chain[m],
               Len(chain'[n]) \in {0, 1}
        PROVE  PrefixAgreement'
    <3> SUFFICES ASSUME NEW l \in Nodes, NEW m \in Nodes,
                        NEW i \in 1 .. Len(chain'[l]), i <= Len(chain'[m]),
                        chain'[l][i] = chain'[m][i], NEW k \in 1 .. i
                 PROVE  chain'[l][k] = chain'[m][k]
      BY DEF PrefixAgreement
    <3>1. CASE l # n /\ m # n
      <4>1. chain'[l] = chain[l] /\ chain'[m] = chain[m]
        BY <2>2, <3>1
      <4> QED
        BY <4>1 DEF PrefixAgreement
    <3>2. CASE l = n \/ m = n
      <4>1. i = 1
        BY <2>2, <3>2 DEF TypeOK
      <4> QED
        BY <4>1
    <3> QED
      BY <3>1, <3>2
  <2>3. ASSUME NEW n \in Nodes, NEW h \in 1 .. Len(minted), Extend(n, h)
        PROVE  PrefixAgreement'
    <3> DEFINE L == Len(chain[n])
    <3>1. /\ chain'[n] = Append(chain[n], h)
          /\ \A m \in Nodes \ {n} : chain'[m] = chain[m]
          /\ Acceptable(minted, chain[n], h)
      BY <2>3 DEF Extend, TypeOK
    <3>2. /\ Len(chain'[n]) = L + 1
          /\ \A k \in 1 .. L : chain'[n][k] = chain[n][k]
          /\ chain'[n][L + 1] = h
          /\ L \in Nat
      BY <3>1, AppendProperties DEF TypeOK
    <3>3. ASSUME NEW m \in Nodes \ {n}, NEW i \in 1 .. Len(chain'[m]),
                 i <= Len(chain'[n]), chain'[m][i] = chain'[n][i],
                 NEW k \in 1 .. i
          PROVE  chain'[m][k] = chain'[n][k]
      <4>1. chain'[m] = chain[m] /\ Len(chain[m]) \in Nat
        BY <3>1 DEF TypeOK
      <4>2. CASE i <= L
        <5>1. chain[m][i] = chain[n][i]
          BY <3>2, <3>3, <4>1, <4>2
        <5>2. chain[m][k] = chain[n][k]
          BY <3>3, <4>1, <4>2, <5>1 DEF PrefixAgreement
        <5> QED
          BY <3>2, <4>1, <4>2, <5>2
      <4>3. CASE i = L + 1
        <5>1. \A j \in 1 .. L : chain[m][j] = chain[n][j]
          BY <3>1, <3>2, <3>3, <4>1, <4>3, ExtensionAgrees
        <5> QED
          BY <3>2, <3>3, <4>1, <4>3, <5>1
      <4> QED
        BY <3>2, <3>3, <4>1, <4>2, <4>3
    <3>4. ASSUME NEW l \in Nodes \ {n}, NEW m \in Nodes \ {n},
                 NEW i \in 1 .. Len(chain'[l]), i <= Len(chain'[m]),
                 chain'[l][i] = chain'[m][i], NEW k \in 1 .. i
          PROVE  chain'[l][k] = chain'[m][k]
      BY <3>1, <3>4 DEF PrefixAgreement
    <3> SUFFICES ASSUME NEW l \in Nodes, NEW m \in Nodes,
                        NEW i \in 1 .. Len(chain'[l]), i <= Len(chain'[m]),
                        chain'[l][i] = chain'[m][i], NEW k \in 1 .. i
                 PROVE  chain'[l][k] = chain'[m][k]
      BY DEF PrefixAgreement
    <3>5. CASE l # n /\ m # n
      BY <3>4, <3>5
    <3>6. CASE l # n /\ m = n
      BY <3>3, <3>6
    <3>7. CASE l = n /\ m # n
      <4>1. Len(chain'[m]) \in Nat /\ i \in 1 .. Len(chain'[m])
        BY <3>1, <3>7 DEF TypeOK
      <4>2. i <= Len(chain'[n])
        BY <3>2, <3>7
      <4> QED
        BY <3>3, <3>7, <4>1, <4>2
    <3>8. CASE l = m
      BY <3>8
    <3> QED
      BY <3>5, <3>6, <3>7, <3>8
  <2>4. CASE Mint \/ UNCHANGED vars
    BY <2>1, <2>4 DEF Mint, vars
  <2>5. ASSUME NEW n \in Nodes, StartFresh(n)
        PROVE  PrefixAgreement'
    <3>1. /\ \A m \in Nodes \ {n} : chain'[m] = chain[m]
          /\ chain'[n] = <<Len(minted) + 1>>
      BY <2>5 DEF StartFresh, TypeOK
    <3> QED
      BY <2>2, <3>1
  <2>6. ASSUME NEW n \in Nodes, StartSaved(n) \/ Reset(n) \/ Stop(n)
        PROVE  PrefixAgreement'
    BY <2>1, <2>2, <2>6 DEF StartSaved, Reset, Stop, TypeOK
  <2>7. ASSUME NEW n \in Nodes, NEW h \in 1 .. Len(minted), Begin(n, h)
        PROVE  PrefixAgreement'
    <3>1. /\ \A m \in Nodes \ {n} : chain'[m] = chain[m]
          /\ chain'[n] = <<h>>
      BY <2>7 DEF Begin, TypeOK
    <3> QED
      BY <2>2, <3>1
  <2> QED
    BY <2>3, <2>4, <2>5, <2>6, <2>7 DEF Next
<1> QED
  BY <1>1, <1>2, TypeCorrect, ChainsAreWellFormed, PTL DEF Spec
=============================================================================
