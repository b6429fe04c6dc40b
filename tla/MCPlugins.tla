----------------------------- MODULE MCPlugins ------------------------------
EXTENDS Plugins

CONSTANTS p, q

=============================================================================
