--------------------------- MODULE MCPluginsLoader ---------------------------
\* Small instances of the plugin loader.
EXTENDS PluginsLoader

CONSTANTS p1, p2,            \* paths
          tools, prompts,    \* types of plugins
          r1                 \* a request thread
=============================================================================
