---------------------------- MODULE MCDiagnosis ----------------------------
(* Four of the eleven metrics, one of each evidence and two repairs, and   *)
(* three of the nine families, with the library's tables for them.         *)
EXTENDS Diagnosis

MCMetrics == {"ndds_fraction", "hubness_max", "anisotropy_mean_norm", "outlier_fraction"}
MCMetricOrder ==
  [hubness_max |-> 1, ndds_fraction |-> 2, anisotropy_mean_norm |-> 3, outlier_fraction |-> 4]
MCEvidence ==
  [hubness_max |-> 2, ndds_fraction |-> 2, anisotropy_mean_norm |-> 1, outlier_fraction |-> 0]
MCReliability ==
  [hubness_max |-> 6, ndds_fraction |-> 9, anisotropy_mean_norm |-> 10, outlier_fraction |-> 7]
MCCausalWeight == [e \in 0..2 |-> <<1, 3, 10>>[e + 1]]

MCCausalScore == [e \in 0..2 |-> <<0, 4, 10>>[e + 1]]

MCFamilies == {"G1_hubness", "G4_duplicates", "G5_anisotropy"}
MCFamilyOrder == [G1_hubness |-> 1, G4_duplicates |-> 4, G5_anisotropy |-> 5]
MCMembers ==
  [G1_hubness |-> {"hubness_max", "ndds_fraction", "anisotropy_mean_norm"},
   G4_duplicates |-> {"hubness_max", "ndds_fraction"},
   G5_anisotropy |-> {"hubness_max", "ndds_fraction", "anisotropy_mean_norm"}]
MCSevereLoss == {<<"G1_hubness", "hnsw">>, <<"G1_hubness", "ivfpq">>}

MCTarget ==
  [hubness_max |-> "G1_hubness", ndds_fraction |-> "G4_duplicates",
   anisotropy_mean_norm |-> NoFamily, outlier_fraction |-> NoFamily]
MCConfounders ==
  [hubness_max |-> {"G5_anisotropy"}, ndds_fraction |-> {"G5_anisotropy"},
   anisotropy_mean_norm |-> {}, outlier_fraction |-> {}]

MCHasAction == {"hubness_max", "ndds_fraction", "anisotropy_mean_norm"}
MCParameterSource ==
  [hubness_max |-> "default", ndds_fraction |-> "derived",
   anisotropy_mean_norm |-> "none", outlier_fraction |-> "none"]

Read(b, c) == [shared |-> TRUE, number |-> TRUE, b |-> b, c |-> c]
Absent == [shared |-> FALSE, number |-> TRUE, b |-> 0, c |-> 0]
NaN == [shared |-> TRUE, number |-> FALSE, b |-> 0, c |-> 0]

\* Unchanged, below the floor, at it, far above it; zero before, and after too.
MCReadings ==
  [hubness_max |-> {Absent, Read(50, 50), Read(50, 200)},
   ndds_fraction |-> {Read(0, 10), Read(0, 20), Read(20, 23), NaN},
   anisotropy_mean_norm |-> {Read(100, 86), Read(100, 85), Read(50, 200)},
   outlier_fraction |-> {Read(0, 0), Read(0, 100)}]
=============================================================================
