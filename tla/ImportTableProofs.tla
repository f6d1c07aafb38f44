-------------------------- MODULE ImportTableProofs --------------------------
(***************************************************************************)
(* Theorems about ImportTable, for any image and any address, whether the  *)
(* engine can read the target's memory or not.                             *)
(***************************************************************************)
EXTENDS ImportTable, TLAPS

(* Multiplication by the size of a thunk keeps the order.                  *)
LEMMA ScaleOrder ==
  ASSUME NEW a \in Int, NEW b \in Int
  PROVE  /\ a < b => a * ThunkSize < b * ThunkSize
         /\ a <= b => a * ThunkSize <= b * ThunkSize
         /\ a * ThunkSize \in Int
         /\ (a + 1) * ThunkSize = a * ThunkSize + ThunkSize
<1>1. ThunkSize \in Nat /\ ThunkSize > 0
  BY ImportAssumption
<1>2. ASSUME NEW n \in Int, n > 0
      PROVE  n * ThunkSize > 0
  BY <1>1, <1>2
<1>3. b * ThunkSize = a * ThunkSize + (b - a) * ThunkSize
  BY <1>1
<1>4. a < b => (b - a) * ThunkSize > 0
  BY <1>2
<1>5. a * ThunkSize \in Int /\ b * ThunkSize \in Int /\ (b - a) * ThunkSize \in Int
  BY <1>1
<1>6. (a + 1) * ThunkSize = a * ThunkSize + ThunkSize
  BY <1>1
<1>7. QED
  BY <1>3, <1>4, <1>5, <1>6

(* The entries of a table lie in order between its first and its           *)
(* terminator.                                                             *)
LEMMA SlotOrder ==
  ASSUME NEW d \in Descriptors, NEW k \in Nat, NEW n \in Nat
  PROVE  /\ Slot(d, k) \in Nat
         /\ d.FirstThunk <= Slot(d, k)
         /\ Slot(d, 0) = d.FirstThunk
         /\ Slot(d, k + 1) = Slot(d, k) + ThunkSize
         /\ k <= n => Slot(d, k) <= Slot(d, n)
         /\ Slot(d, k) < Slot(d, n) => k < n
         /\ Slot(d, k) <= Slot(d, n) => k <= n
<1> DEFINE at(m) == m * ThunkSize
<1>1. d.FirstThunk \in Nat
  BY DEF Descriptors
<1>2. /\ at(k) \in Int /\ at(n) \in Int /\ at(0) = 0
      /\ at(0) <= at(k)
      /\ at(k + 1) = at(k) + ThunkSize
      /\ k <= n => at(k) <= at(n)
      /\ n < k => at(n) < at(k)
      /\ n <= k => at(n) <= at(k)
  <2>1. 0 \in Int /\ k \in Int /\ n \in Int /\ 0 <= k
    OBVIOUS
  <2>2. ThunkSize \in Nat
    BY ImportAssumption
  <2>3. at(0) = 0
    BY <2>2
  <2>4. QED
    BY <2>1, <2>3, ScaleOrder
<1>3. /\ Slot(d, k) = d.FirstThunk + at(k)
      /\ Slot(d, n) = d.FirstThunk + at(n)
      /\ Slot(d, 0) = d.FirstThunk + at(0)
      /\ Slot(d, k + 1) = d.FirstThunk + at(k + 1)
  BY DEF Slot
<1>4. ThunkSize \in Nat
  BY ImportAssumption
<1> HIDE DEF at
<1>5. QED
  BY <1>1, <1>2, <1>3, <1>4

(* An address within one table is no entry of another.                     *)
LEMMA InOneTable ==
  ASSUME NEW image \in Images, NEW a \in DOMAIN image, NEW b \in DOMAIN image,
         NEW x \in Nat, image[a].FirstThunk <= x, x <= Terminator(image[a]),
         NEW k \in 0 .. Len(image[b].functions) - 1, x = Slot(image[b], k)
  PROVE  a = b
<1>1. image \in Seq(Descriptors) /\ Apart(image)
  BY ImportAssumption
<1>2. image[a] \in Descriptors /\ image[b] \in Descriptors
  BY <1>1
<1>3. Len(image[a].functions) \in Nat /\ Len(image[b].functions) \in Nat
  BY <1>2 DEF Descriptors
<1>4. /\ image[b].FirstThunk <= x /\ x <= Terminator(image[b])
      /\ Terminator(image[a]) \in Nat /\ Terminator(image[b]) \in Nat
      /\ image[a].FirstThunk \in Nat /\ image[b].FirstThunk \in Nat
  BY <1>2, <1>3, SlotOrder DEF Terminator, Descriptors
<1>5. QED
  BY <1>1, <1>4 DEF Apart

-----------------------------------------------------------------------------
(* The inductive invariant.                                                *)

(* WalkInTable needs that aPtr lies behind the entries passed: an entry at *)
(* or after aPtr has the index of aPtr.                                    *)
WalkOK ==
  pc = "thunk" =>
    /\ i \in DOMAIN importDescriptors
    /\ Descriptor.FirstThunk <= aPtr
    /\ index > 0 => Slot(Descriptor, index - 1) < aPtr

IInv == TypeOK /\ WalkOK /\ WalkInTable /\ TargetIsBound

LEMMA DescriptorTyped ==
  ASSUME TypeOK, NEW d \in DOMAIN importDescriptors
  PROVE  /\ importDescriptors[d] \in Descriptors
         /\ importDescriptors[d].FirstThunk \in Nat
         /\ importDescriptors[d].Name \in Dlls
         /\ importDescriptors[d].functions \in Seq(Functions)
         /\ Len(importDescriptors[d].functions) \in Nat
<1>1. importDescriptors \in Seq(Descriptors)
  BY ImportAssumption DEF TypeOK
<1>2. importDescriptors[d] \in Descriptors
  BY <1>1
<1>3. QED
  BY <1>2 DEF Descriptors

(* i stands at a descriptor unless the directory is exhausted.             *)
LEMMA AtDescriptor ==
  ASSUME TypeOK
  PROVE  /\ Len(importDescriptors) \in Nat
         /\ DOMAIN importDescriptors = 1 .. Len(importDescriptors)
         /\ i \in DOMAIN importDescriptors <=> i <= Len(importDescriptors)
<1>1. importDescriptors \in Seq(Descriptors)
  BY ImportAssumption DEF TypeOK
<1>2. QED
  BY <1>1 DEF TypeOK

(* An entry that is not 0 is not the terminator.                           *)
LEMMA FilledBelowTerminator ==
  ASSUME IInv, pc = "thunk", Filled(thunk)
  PROVE  index < Len(Descriptor.functions)
<1> DEFINE last == Len(Descriptor.functions)
<1>1. /\ i \in DOMAIN importDescriptors
      /\ index \in Nat /\ thunk \in Nat
      /\ index <= last /\ thunk = Slot(Descriptor, index)
  BY DEF IInv, TypeOK, WalkOK, WalkInTable
<1>2. Descriptor \in Descriptors /\ last \in Nat
  BY <1>1, DescriptorTyped DEF IInv, Descriptor
<1>3. PICK d \in DOMAIN importDescriptors : thunk \in Slots(importDescriptors[d])
  BY DEF Filled
<1>4. PICK k \in 0 .. Len(importDescriptors[d].functions) - 1 :
        thunk = Slot(importDescriptors[d], k)
  BY <1>3 DEF Slots
<1>5. Descriptor.FirstThunk <= thunk /\ thunk <= Terminator(Descriptor)
  BY <1>1, <1>2, SlotOrder DEF Terminator
<1>6. d = i
  <2>1. importDescriptors \in Images
    BY DEF IInv, TypeOK
  <2>2. /\ importDescriptors[i].FirstThunk <= thunk
        /\ thunk <= Terminator(importDescriptors[i])
    BY <1>5 DEF Descriptor
  <2>3. QED
    BY <1>1, <1>4, <2>1, <2>2, InOneTable
<1>7. k \in Nat /\ k < last
  BY <1>2, <1>4, <1>6 DEF Descriptor
<1>8. index <= k
  <2>1. Slot(Descriptor, index) = Slot(Descriptor, k)
    BY <1>1, <1>4, <1>6 DEF Descriptor
  <2>2. Slot(Descriptor, index) <= Slot(Descriptor, k)
    BY <1>1, <2>1
  <2>3. QED
    BY <1>1, <1>2, <1>7, <2>2, SlotOrder
<1>9. QED
  BY <1>1, <1>2, <1>7, <1>8

-----------------------------------------------------------------------------
(* Each step preserves the invariant.                                      *)

LEMMA InitOK == Init => IInv
<1> SUFFICES ASSUME Init PROVE IInv
  OBVIOUS
<1>1. Len(importDescriptors) \in Nat
  BY ImportAssumption DEF Init
<1>2. QED
  BY <1>1 DEF Init, IInv, TypeOK, WalkOK, WalkInTable, TargetIsBound

LEMMA BeginOK ==
  ASSUME IInv, NEW ptr \in 0 .. MaxPtr, Begin(ptr)
  PROVE  IInv'
<1>1. Len(importDescriptors) \in Nat
  BY AtDescriptor DEF IInv
<1>2. TypeOK'
  BY <1>1 DEF IInv, TypeOK, Begin, GetDataDirectoryEntry
<1>3. QED
  BY <1>2 DEF IInv, WalkOK, WalkInTable, TargetIsBound, Begin,
              GetDataDirectoryEntry

(* With the target kept, what is said of it is kept.                       *)
LEMMA TargetKept ==
  ASSUME TargetIsBound, UNCHANGED <<importDescriptors, aPtr, target>>
  PROVE  TargetIsBound'
BY DEF TargetIsBound, Slot, Terminator

LEMMA NextDescriptorOK ==
  ASSUME IInv, i <= Len(importDescriptors), NextDescriptor
  PROVE  IInv'
<1>1. Len(importDescriptors) \in Nat
  BY AtDescriptor DEF IInv
<1>2. TypeOK'
  BY <1>1 DEF IInv, TypeOK, NextDescriptor
<1>3. TargetIsBound'
  BY TargetKept DEF IInv, NextDescriptor
<1>4. QED
  BY <1>2, <1>3 DEF IInv, WalkOK, WalkInTable, NextDescriptor

LEMMA EnterTableOK ==
  ASSUME IInv, EnterTable
  PROVE  IInv'
<1>1. i \in DOMAIN importDescriptors
  BY AtDescriptor DEF IInv, EnterTable
<1>2. /\ Descriptor \in Descriptors /\ Descriptor.FirstThunk \in Nat
      /\ Len(Descriptor.functions) \in Nat
  BY <1>1, DescriptorTyped DEF IInv, Descriptor
<1>3. TypeOK'
  BY <1>2 DEF IInv, TypeOK, EnterTable
<1>4. Descriptor' = Descriptor
  BY DEF EnterTable, Descriptor
<1>5. WalkOK' /\ WalkInTable'
  <2>1. Slot(Descriptor, 0) = Descriptor.FirstThunk
    BY <1>2, SlotOrder
  <2>2. Slot(Descriptor, index)' = Slot(Descriptor, 0)
    BY <1>4 DEF EnterTable, Slot
  <2>3. QED
    BY <1>1, <1>2, <1>4, <2>1, <2>2 DEF WalkOK, WalkInTable, EnterTable
<1>6. TargetIsBound'
  BY TargetKept DEF IInv, EnterTable
<1>7. QED
  BY <1>3, <1>5, <1>6 DEF IInv

LEMMA NextThunkOK ==
  ASSUME IInv, NextThunk
  PROVE  IInv'
<1>1. /\ i \in DOMAIN importDescriptors
      /\ index \in Nat /\ thunk \in Nat
      /\ thunk = Slot(Descriptor, index)
      /\ Descriptor.FirstThunk <= aPtr
  BY DEF IInv, TypeOK, WalkOK, WalkInTable, NextThunk
<1>2. Descriptor \in Descriptors /\ Len(Descriptor.functions) \in Nat
  BY <1>1, DescriptorTyped DEF IInv, Descriptor
<1>3. index < Len(Descriptor.functions)
  BY FilledBelowTerminator DEF NextThunk
<1>4. Slot(Descriptor, index + 1) = thunk + ThunkSize /\ ThunkSize \in Nat
  BY <1>1, <1>2, SlotOrder, ImportAssumption
<1>5. Descriptor' = Descriptor
  BY DEF NextThunk, Descriptor
<1>6. TypeOK'
  BY <1>1, <1>4 DEF IInv, TypeOK, NextThunk
<1>7. WalkOK' /\ WalkInTable'
  <2>1. index' = index + 1 /\ thunk' = thunk + ThunkSize /\ index' - 1 = index
    BY <1>1 DEF NextThunk
  <2>2. Slot(Descriptor, index)' = Slot(Descriptor, index + 1)
    BY <1>5, <2>1 DEF Slot
  <2>3. Slot(Descriptor, index - 1)' = Slot(Descriptor, index)
    BY <1>5, <2>1 DEF Slot
  <2>4. index' <= Len(Descriptor.functions)
    BY <1>1, <1>2, <1>3, <2>1
  <2>5. QED
    BY <1>1, <1>4, <1>5, <2>1, <2>2, <2>3, <2>4 DEF WalkOK, WalkInTable, NextThunk
<1>8. TargetIsBound'
  BY TargetKept DEF IInv, NextThunk
<1>9. QED
  BY <1>6, <1>7, <1>8 DEF IInv

(* At an entry at or after aPtr the walk has the index of aPtr, if aPtr is *)
(* an entry of any table at all.                                           *)
LEMMA IndexOfPtr ==
  ASSUME IInv, pc = "thunk", thunk >= aPtr,
         NEW d \in DOMAIN importDescriptors,
         NEW k \in 1 .. Len(importDescriptors[d].functions),
         aPtr = Slot(importDescriptors[d], k - 1)
  PROVE  d = i /\ k = index + 1
<1>1. /\ i \in DOMAIN importDescriptors
      /\ index \in Nat /\ thunk \in Nat /\ aPtr \in Nat
      /\ index <= Len(Descriptor.functions)
      /\ thunk = Slot(Descriptor, index)
      /\ Descriptor.FirstThunk <= aPtr
      /\ index > 0 => Slot(Descriptor, index - 1) < aPtr
  BY ImportAssumption DEF IInv, TypeOK, WalkOK, WalkInTable
<1>2. Descriptor \in Descriptors /\ Len(Descriptor.functions) \in Nat
  BY <1>1, DescriptorTyped DEF IInv, Descriptor
<1>3. Len(importDescriptors[d].functions) \in Nat
  BY DescriptorTyped DEF IInv
<1>4. k - 1 \in 0 .. Len(importDescriptors[d].functions) - 1 /\ k - 1 \in Nat
  BY <1>3
<1>5. d = i
  <2>1. Slot(Descriptor, index) <= Terminator(Descriptor) /\ Terminator(Descriptor) \in Nat
    BY <1>1, <1>2, SlotOrder DEF Terminator
  <2>2. aPtr <= Terminator(Descriptor)
    BY <1>1, <2>1
  <2>3. /\ importDescriptors[i].FirstThunk <= aPtr
        /\ aPtr <= Terminator(importDescriptors[i])
    BY <1>1, <2>2 DEF Descriptor
  <2>4. importDescriptors \in Images
    BY DEF IInv, TypeOK
  <2>5. QED
    BY <1>1, <1>4, <2>3, <2>4, InOneTable
<1>6. aPtr = Slot(Descriptor, k - 1)
  BY <1>5 DEF Descriptor
<1>7. k - 1 <= index
  BY <1>1, <1>2, <1>4, <1>6, SlotOrder
<1>8. index > 0 => index - 1 < k - 1
  <2>1. SUFFICES ASSUME index > 0 PROVE index - 1 < k - 1
    OBVIOUS
  <2>2. index - 1 \in Nat
    BY <1>1, <2>1
  <2>3. Slot(Descriptor, index - 1) < Slot(Descriptor, k - 1)
    BY <1>1, <1>6, <2>1
  <2>4. QED
    BY <1>2, <1>4, <2>2, <2>3, SlotOrder
<1>9. QED
  BY <1>1, <1>4, <1>5, <1>7, <1>8

LEMMA ReportOK ==
  ASSUME IInv, Report
  PROVE  IInv'
<1>1. /\ i \in DOMAIN importDescriptors
      /\ index \in Nat /\ thunk \in Nat /\ aPtr \in Nat
      /\ index <= Len(Descriptor.functions)
      /\ thunk = Slot(Descriptor, index)
      /\ Descriptor.FirstThunk <= aPtr
      /\ pc = "thunk" /\ thunk >= aPtr
  BY ImportAssumption DEF IInv, TypeOK, WalkOK, WalkInTable, Report
<1>2. /\ Descriptor \in Descriptors /\ Descriptor.Name \in Dlls
      /\ Descriptor.functions \in Seq(Functions)
      /\ Len(Descriptor.functions) \in Nat
  BY <1>1, DescriptorTyped DEF IInv, Descriptor
<1>3. PICK function \in LookupEntry(Descriptor, index) :
        target' = <<Descriptor.Name, function>>
  BY DEF Report
<1>4. function \in Functions
  <2>1. CASE index < Len(Descriptor.functions)
    <3>1. Descriptor.functions[index + 1] \in Functions
      BY <1>1, <1>2, <2>1
    <3>2. QED
      BY <2>1, <3>1, <1>3 DEF LookupEntry
  <2>2. CASE ~(index < Len(Descriptor.functions))
    BY <2>2, <1>3 DEF LookupEntry
  <2>3. QED
    BY <2>1, <2>2
<1>5. TypeOK'
  BY <1>2, <1>3, <1>4 DEF IInv, TypeOK, Report
<1>6. UNCHANGED <<importDescriptors, aPtr>> /\ pc' = "done"
  BY DEF Report
<1>7. ASSUME NEW d \in DOMAIN importDescriptors,
             NEW k \in 1 .. Len(importDescriptors[d].functions),
             aPtr = Slot(importDescriptors[d], k - 1)
      PROVE  target' = <<importDescriptors[d].Name,
                         importDescriptors[d].functions[k]>>
  <2>1. d = i /\ k = index + 1
    BY <1>1, <1>7, IndexOfPtr
  <2>2. index < Len(Descriptor.functions)
    BY <1>1, <1>2, <2>1 DEF Descriptor
  <2>3. function = Descriptor.functions[k]
    BY <1>3, <2>1, <2>2 DEF LookupEntry
  <2>4. QED
    BY <1>3, <2>1, <2>3 DEF Descriptor
<1>8. aPtr <= Terminator(Descriptor)
  <2>1. Slot(Descriptor, index) <= Terminator(Descriptor) /\ Terminator(Descriptor) \in Nat
    BY <1>1, <1>2, SlotOrder DEF Terminator
  <2>2. QED
    BY <1>1, <2>1
<1>9. TargetIsBound'
  BY <1>1, <1>6, <1>7, <1>8 DEF TargetIsBound, Slot, Terminator, Descriptor
<1>10. QED
  BY <1>5, <1>6, <1>9 DEF IInv, WalkOK, WalkInTable

(* The steps that only end the command.                                    *)
LEMMA DoneOK ==
  ASSUME IInv, pc' = "done",
         UNCHANGED <<importDescriptors, unreadable, aPtr, i, thunk, index, target>>
  PROVE  IInv'
<1>1. TargetIsBound'
  BY TargetKept DEF IInv
<1>2. TypeOK'
  BY DEF IInv, TypeOK
<1>3. QED
  BY <1>1, <1>2 DEF IInv, WalkOK, WalkInTable

LEMMA StepOK == IInv /\ [Next]_vars => IInv'
<1> SUFFICES ASSUME IInv, [Next]_vars PROVE IInv'
  OBVIOUS
<1>1. ASSUME NEW ptr \in 0 .. MaxPtr, Begin(ptr)
      PROVE  IInv'
  BY <1>1, BeginOK
<1>2. ASSUME SkipDescriptor \/ LeaveTable \/ EntryUnread
      PROVE  IInv'
  <2>1. i <= Len(importDescriptors)
    BY <1>2, AtDescriptor DEF IInv, WalkOK, SkipDescriptor, LeaveTable, EntryUnread
  <2>2. NextDescriptor
    BY <1>2 DEF SkipDescriptor, LeaveTable, EntryUnread
  <2>3. QED
    BY <2>1, <2>2, NextDescriptorOK
<1>3. CASE EnterTable
  BY <1>3, EnterTableOK
<1>4. CASE NextThunk
  BY <1>4, NextThunkOK
<1>5. CASE Report
  BY <1>5, ReportOK
<1>6. CASE ModuleUnread \/ NotFound
  BY <1>6, DoneOK DEF ModuleUnread, NotFound
<1>7. CASE UNCHANGED vars
  BY <1>7 DEF vars, IInv, TypeOK, WalkOK, WalkInTable, TargetIsBound,
              Descriptor, Slot, Terminator
<1>8. QED
  BY <1>1, <1>2, <1>3, <1>4, <1>5, <1>6, <1>7 DEF Next, Walk

LEMMA AlwaysIInv == Spec => []IInv
BY InitOK, StepOK, PTL DEF Spec

(* Every variable keeps its type: i stays at a descriptor or one past the  *)
(* last.                                                                   *)
THEOREM TypeCorrect == Spec => []TypeOK
<1>1. IInv => TypeOK
  BY DEF IInv
<1>2. QED
  BY AlwaysIInv, <1>1, PTL

(* iat never names the wrong import: whatever reads fail, what it prints   *)
(* for an entry of an address table is what the loader bound there.        *)
THEOREM TargetAlwaysBound == Spec => []TargetIsBound
<1>1. IInv => TargetIsBound
  BY DEF IInv
<1>2. QED
  BY AlwaysIInv, <1>1, PTL

(* The walk of an address table never passes its terminator.               *)
THEOREM WalkStaysInTable == Spec => []WalkInTable
<1>1. IInv => WalkInTable
  BY DEF IInv
<1>2. QED
  BY AlwaysIInv, <1>1, PTL

=============================================================================
