----------------------------- MODULE Protocols -----------------------------
(***************************************************************************)
(* What the parties of a protocol compute together, one call at a time:    *)
(* the dealer and the files of keys, the protocols for shares, the making  *)
(* and checking of preprocessing, oblivious transfer, and homomorphic      *)
(* encryption with the preprocessing made by it.  A behaviour is one call  *)
(* of one of these modules, its input in job and its result in out, or the *)
(* passes of Turbospeedz over a program.                                   *)
(***************************************************************************)
EXTENDS CipherRings, CipherOffline

(* Programs for the passes of Turbospeedz: the instructions of the turbo    *)
(* builds.                                                                  *)
MULS(gates) == [op |-> "MULS", gates |-> gates]
INPUTMIXED(wires) == [op |-> "INPUTMIXED", wires |-> wires]
ADDS(z, x, y) == [op |-> "ADDS", z |-> z, x |-> x, y |-> y]
SUBS(z, x, y) == [op |-> "SUBS", z |-> z, x |-> x, y |-> y]
LDSI(z, n) == [op |-> "LDSI", z |-> z, n |-> n]
LDMS(z, n) == [op |-> "LDMS", z |-> z, n |-> n]
OPEN(c, s) == [op |-> "OPEN", c |-> c, s |-> s]
UseData == [op |-> "USE"]
SUBSFI(z, x, n) == [op |-> "SUBSFI", z |-> z, x |-> x, n |-> n]

In(z, player) == [z |-> z, player |-> player]
Gate(z, x, y) == [z |-> z, x |-> x, y |-> y]
Two == INPUTMIXED(<<In(0, 0), In(1, 1)>>)

TurboPrograms ==
    {<<Two, MULS(<<Gate(2, 0, 1)>>), OPEN(0, 2)>>,
     <<Two, OPEN(1, 1)>>,
     <<Two, ADDS(2, 0, 1), SUBS(3, 0, 1), UseData, MULS(<<Gate(4, 2, 3)>>), OPEN(0, 4)>>,
     <<Two, MULS(<<Gate(2, 0, 1)>>), INPUTMIXED(<<In(3, 1)>>), MULS(<<Gate(4, 3, 2)>>), OPEN(0, 4)>>,
     <<Two, SUBS(2, 0, 1), ADDS(3, 0, 2), MULS(<<Gate(4, 0, 1), Gate(5, 3, 2)>>),
       SUBS(6, 4, 5), OPEN(0, 6)>>,
     <<Two, MULS(<<Gate(2, 0, 1)>>), LDSI(3, 2), ADDS(4, 2, 3), LDMS(5, 1), SUBS(6, 4, 5),
       OPEN(0, 6), OPEN(0, 2)>>,
     <<Two, SUBSFI(2, 0, 1), OPEN(0, 2)>>}

VARIABLES prog, pc, phase, reg, files, together, plain, opened, passes

Dealing == INSTANCE Dealer WITH Field <- 5, RingBits <- 2, Seeds <- {1, 3, 9}
Online == INSTANCE ShareProtocols
            WITH Field <- 5, Field4 <- 11, RingBits <- 4, Values <- {1, 4}, Seeds <- {1, 12}
Offline == INSTANCE Preparation
            WITH Field <- 29, RingBits <- 3, Security <- 2, Batch <- 5, Unit <- 2
Transfer == INSTANCE ObliviousTransfer
            WITH Prime <- 5, PrimeBits <- 3, K <- 1, S <- 2, BaseCount <- 3, Amplify <- 2,
                 Seeds <- 1..4

Passes == INSTANCE Turbo
            WITH Programs <- TurboPrograms, Prime <- 3, Randoms <- {1, 2}, Splits <- {1}, Secrets <- {1, 2},
                 Layouts <- {TRUE, FALSE}, ShortProgram <- 3

\* Setups of encryption, and the keys that parties share.
CipherSetups == Table([s \in {"one", "two", "gf4"} |-> SetupOf(s)])
CipherKeys == Table([s \in {"two", "gf4"} |-> SharedKeyOf(Setups[s])])

pass == <<prog, pc, phase, reg, files, together, plain, opened, passes>>
NoPass ==
    /\ prog = <<>> /\ pc = 0 /\ phase = "idle" /\ reg = <<>> /\ files = <<>>
    /\ together = FALSE /\ plain = <<>> /\ opened = <<>> /\ passes = <<>>

Of(name) == subject = name /\ UNCHANGED <<subject, pass>>
Passing == subject = "turbo" /\ UNCHANGED <<subject, job, out>>

Init ==
    \/ RingsInit /\ NoPass
    \/ OfflineInit /\ NoPass
    \/ subject = "dealer" /\ Dealing!Init /\ NoPass
    \/ subject = "online" /\ Online!Init /\ NoPass
    \/ subject = "offline" /\ Offline!Init /\ NoPass
    \/ subject = "transfer" /\ Transfer!Init /\ NoPass
    \/ subject = "turbo" /\ job = <<>> /\ out = NotYet /\ Passes!Init

Next ==
    \/ Of("rings") /\ InRingOfCiphers
    \/ Of("rings") /\ FindModuli
    \/ Of("rings") /\ FindGroup
    \/ Of("rings") /\ PackSlots
    \/ Of("cipher") /\ Operate
    \/ Of("cipher") /\ GenerateKeys
    \/ Of("cipher") /\ ProduceTriples
    \/ Of("cipher") /\ ProduceSquares
    \/ Of("cipher") /\ ProduceInverses
    \/ Of("cipher") /\ ProduceBits
    \/ Of("cipher") /\ ProduceInputs
    \/ Of("cipher") /\ EncryptCovertly
    \/ Of("cipher") /\ GenerateCovertly
    \/ Of("cipher") /\ MultiplyPairwise
    \/ Of("cipher") /\ InputPairwise
    \/ Of("cipher") /\ ProveKnowledge
    \/ Of("cipher") /\ CommitActively
    \/ Of("cipher") /\ Sacrifice
    \/ Of("dealer") /\ Dealing!Compute
    \/ Of("online") /\ Online!Three
    \/ Of("online") /\ Online!Four
    \/ Of("online") /\ Online!Polynomial
    \/ Of("online") /\ Online!WithTriples
    \/ Of("online") /\ Online!WithMacs
    \/ Of("offline") /\ Offline!Compute
    \/ Of("transfer") /\ Transfer!Base
    \/ Of("transfer") /\ Transfer!Extend
    \/ Of("transfer") /\ Transfer!Triples
    \/ Of("transfer") /\ Transfer!Inputs
    \/ Of("transfer") /\ Transfer!Bits
    \/ Of("transfer") /\ Transfer!RootOfBits
    \/ Of("transfer") /\ Transfer!RunVole
    \/ Of("transfer") /\ Transfer!TransposeInBytes
    \/ Of("transfer") /\ Transfer!TransposeInBits
    \/ Passing /\ Passes!StartPrep
    \/ Passing /\ Passes!PrepStep
    \/ Passing /\ Passes!EndPrep
    \/ Passing /\ Passes!StartOnline
    \/ Passing /\ Passes!OnlineStep
    \/ Passing /\ Passes!EndOnline

Spec == Init /\ [][Next]_<<subject, job, out, pass>>

-----------------------------------------------------------------------------
(* Properties: each part is said in the module it comes from.               *)

\* What the dealer writes are sharings of related values under the keys in
\* the key files, and its checker finds the first altered number
\* (Fake-Offline.cpp, Check-Offline.cpp, fake-stuff.hpp).
DealtFilesFit ==
    subject = "dealer" => Dealing!FilesCorrect /\ Dealing!AlteredFound /\ Dealing!KeysFit

\* Every protocol for shares gives the product, the input, the opened value
\* or the quotient to all parties, and where the protocol promises it no
\* altered message goes through unnoticed (Replicated.hpp, Rep4.hpp,
\* Shamir.hpp, Beaver.hpp, SpdzWise.hpp and their inputs and openings).
SharesComputed ==
    subject = "online" =>
        /\ Online!ProductsCorrect
        /\ Online!InAndOut
        /\ Online!AlteredDetected
        /\ Online!Truncated
        /\ Online!SplitAddsUp
        /\ Online!RandomsSound

\* Preprocessed tuples have their relation, wrong ones pass a check for few
\* challenges only, and none is given out twice (ReplicatedPrep.hpp,
\* the sacrifices, ShuffleSacrifice.hpp, Rep4Prep.hpp, BufferPrep).
TuplesUsable ==
    subject = "offline" =>
        /\ Offline!TuplesRelated
        /\ Offline!DabitsAndEdabitsAgree
        /\ Offline!SacrificeCatches
        /\ Offline!BucketsCatch
        /\ Offline!EdabitsOnce
        /\ Offline!UsageIsDemand

\* Oblivious transfers deliver what was chosen and no more, what is made of
\* them has the right product and MAC, and inconsistent use by one party is
\* found (BaseOT, OTExtensionWithMatrix, OTVole, the multipliers and
\* generators of MASCOT and SPDZ2k).
TransfersUsable ==
    subject = "transfer" =>
        /\ Transfer!FreshTransfers
        /\ Transfer!TransfersDeliver
        /\ Transfer!OTTriplesCorrect
        /\ Transfer!WrongProductFound
        /\ Transfer!InputsAuthenticated
        /\ Transfer!BitsAuthenticated
        /\ Transfer!VoleConsistent
        /\ Transfer!Transposed

\* The rings of homomorphic encryption multiply alike in both
\* representations, their moduli fit, and slots packed into one polynomial
\* are added and multiplied each for itself; ciphertexts decrypt to what was
\* computed on them, the tuples made of them have their relation and MACs,
\* and proofs, cut and choose and sacrifices find what is wrong (src/FHE,
\* src/FHEOffline).
SlotsComputed ==
    /\ RepsInverse
    /\ ProductsAgree
    /\ ModuliFit
    /\ SlotsNumbered
    /\ SlotsMultiply
    /\ CiphersDecrypt
    /\ KeySound
    /\ ProducedRight
    /\ CovertFound
    /\ PairwiseRight
    /\ ProofsSound
    /\ SacrificesCatch

\* The online pass of Turbospeedz opens what the program means, at both
\* parties, as long as no register is written or multiplied twice
\* (Processor_turbo_online.hpp, Beaver_turbo_online.hpp). One that is gets the
\* data of its other use (Processor_turbo_prep.hpp:577) and is left out by
\* Supported.
TurboCorrect == subject = "turbo" => Passes!TypeOK /\ Passes!Correct

\* What the online pass reads from the files of the preparation fits the
\* program: every wire's external value is its value plus its permutation
\* element, and the offsets lead from that to the triple
\* (Processor_turbo_prep.hpp, TurboPrepMul.hpp, Binary_File_IO.hpp). As above,
\* of programs that are Supported.
TurboFilesFit == subject = "turbo" => Passes!ExternalValue /\ Passes!Offsets
=============================================================================
