------------------------------ MODULE MCRknnKv ------------------------------
(* Two heads of three dimensions, so that every layout differs from every  *)
(* other; two layers in the chunk and buckets of 2, 3 and 5 rows, so that  *)
(* a context outgrows its bucket twice.                                    *)
EXTENDS RknnKv
MCBuckets == {2, 3, 5}
MCFormats == {"NHWC", "NCHW"}
=============================================================================
