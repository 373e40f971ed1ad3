------------------------------ MODULE MCPluginHost ------------------------------
EXTENDS PluginHost, TLC
=============================================================================
