------------------------------ MODULE MCBench ------------------------------
(***************************************************************************)
(* Bench over every script of BenchScripts; scripts with the same table    *)
(* are run once.                                                           *)
(***************************************************************************)
EXTENDS Bench, BenchScripts

AllScripts ==
    {e001, e002, e004, e009, e010, e012, e014, e015, e016, e017, e018, e019, e020, e021, e022,
     e023, e024, e025, e026, e027, e028, e029, e030, e031, e032, e033, e034, e036, e037, e038,
     e039, e040, e041, e042, e043, e044, e045, e046, e047, e048, e049, e050, e051, e052, e053,
     e054, e055, e056, e057, e058, e059, e060, e061, e122, e123, e124, e125, e126, e127, e128,
     e129, e130, e131, e133, e136, e151, e152, e153, e156, e157, e159}
=============================================================================
