------------------------------- MODULE Layouter -------------------------------
(***************************************************************************)
(* Where the wear leveler keeps its tables on the NVM, and where the data  *)
(* blocks are: LayouterInit of src/src/wearlevel-refactor/Layouter.c, the  *)
(* address arithmetic of Layouter.h and of the tables that are laid out.   *)
(* Sizes and addresses are bytes; the NVM is a power of two of at least a  *)
(* block, so it is a whole number of blocks.                               *)
(***************************************************************************)
EXTENDS Integers

CONSTANTS
  NvmBlocks,         \* 2M blocks of the whole NVM: 1 << (nvmSizeBits - BITS_2M)
  reserveDataSize    \* bytes the file system asks to reserve

SIZE_2M == 2097152
SIZE_4K == 4096
SIZE_UINT32 == 4
SIZE_ADDR == 8                         \* sizeof(nvm_addr_t)
SIZE_ENTRY == 8                        \* struct NVMPageUnmapTableEntry
SIZE_GROUP == 74 * SIZE_ENTRY          \* struct NVMPageUnmapTableEntryGroup
LOGIC_BLOCK_RESERVE_NUM == 10
PagesPerBlock == SIZE_2M \div SIZE_4K
NVMSizeQuery == NvmBlocks * SIZE_2M

\* AlignUp and AlignUpBits.
AlignUp(size, align) == ((size + (align - 1)) \div align) * align

sizeOfBlockWearTable == AlignUp(NvmBlocks * SIZE_UINT32, SIZE_2M)
sizeOfBlockUnmapTable == AlignUp(NvmBlocks * SIZE_UINT32, SIZE_2M)
sizeOfPageWearTable == AlignUp(NvmBlocks * PagesPerBlock * SIZE_UINT32, SIZE_2M)
sizeofPageUnmapTable ==
  AlignUp((AlignUp(NvmBlocks * PagesPerBlock, 512) \div 512) * SIZE_GROUP, SIZE_2M)
sizeOfReservedSpace == SIZE_2M

superBlock == 0
metaDataOfThreshold == 4096
metaDataOfBlockSwapLog == metaDataOfThreshold + SIZE_ADDR
\* Moved on twice: the eight bytes in between are not used.
metaDataOfPageSwapLog == metaDataOfBlockSwapLog + SIZE_ADDR + SIZE_ADDR
metaDataOfPageSwapArea == metaDataOfPageSwapLog + SIZE_ADDR
blockWearTable == sizeOfReservedSpace
blockUnmapTable == blockWearTable + sizeOfBlockWearTable
pageWearTable == blockUnmapTable + sizeOfBlockUnmapTable
pageUnmapTable == pageWearTable + sizeOfPageWearTable
reserveData == pageUnmapTable + sizeofPageUnmapTable
dataStart == AlignUp(reserveData + reserveDataSize, SIZE_2M)

BlockNumQuery == (NVMSizeQuery - dataStart) \div SIZE_2M
PageNumQuery == (NVMSizeQuery - dataStart) \div SIZE_4K
WearLevelerLogicBlockNumQuery == BlockNumQuery - LOGIC_BLOCK_RESERVE_NUM

blockSwapLogLogicAddr == (BlockNumQuery - LOGIC_BLOCK_RESERVE_NUM) * SIZE_2M
pageSwapLogLogicAddr == blockSwapLogLogicAddr + SIZE_2M
pageSwapAreaLogicAddr == pageSwapLogLogicAddr + SIZE_2M

\* Whoever formats gives the tables, and the reserve, less than the NVM has
\* (LayouterInit itself does not look).
ASSUME LayoutAssumption ==
  /\ NvmBlocks \in Nat /\ reserveDataSize \in Nat
  /\ dataStart + LOGIC_BLOCK_RESERVE_NUM * SIZE_2M <= NVMSizeQuery

nvm_addr_to_block(addr) == (addr - dataStart) \div SIZE_2M
block_to_nvm_addr(b) == b * SIZE_2M + dataStart
nvm_addr_to_page(addr) == (addr - dataStart) \div SIZE_4K
page_to_nvm_addr(p) == p * SIZE_4K + dataStart
page_to_block(p) == p \div PagesPerBlock
block_to_page(b) == b * PagesPerBlock
logical_addr_to_block(addr) == addr \div SIZE_2M

\* The bytes the tables read and write for a block or a page.
BlockWearAddr(b) == blockWearTable + SIZE_UINT32 * b
BlockUnmapAddr(b) == blockUnmapTable + SIZE_UINT32 * b
PageWearAddr(p) == pageWearTable + SIZE_UINT32 * p
\* The entry of a page of a block: seven pages share one.
PageUnmapAddr(b, i) == pageUnmapTable + b * SIZE_GROUP + (i \div 7) * SIZE_ENTRY
----------------------------------------------------------------------------
DataBlocks == 0 .. BlockNumQuery - 1
Within(addr, size, from, to) == from <= addr /\ addr + size <= to

\* Whatever block or page a table is asked about, the bytes it uses are in its
\* own area: no table runs into the next, into the file system's reserve or
\* into the data (BlockWearTableSet, BlockUnmapTableSet, PageWearTableSet and
\* PageUnmapTableSet check nothing).
TablesApart ==
  /\ \A b \in DataBlocks :
       /\ Within(BlockWearAddr(b), SIZE_UINT32, blockWearTable, blockUnmapTable)
       /\ Within(BlockUnmapAddr(b), SIZE_UINT32, blockUnmapTable, pageWearTable)
       /\ \A i \in 0 .. PagesPerBlock - 1 :
            Within(PageUnmapAddr(b, i), SIZE_ENTRY, pageUnmapTable, reserveData)
  /\ \A p \in 0 .. PageNumQuery - 1 :
       Within(PageWearAddr(p), SIZE_UINT32, pageWearTable, pageUnmapTable)
  /\ reserveData + reserveDataSize <= dataStart

\* Every physical block and page of the map lies between dataStart and the end
\* of the NVM, and its address leads back to it.
DataInside ==
  /\ \A b \in DataBlocks :
       /\ Within(block_to_nvm_addr(b), SIZE_2M, dataStart, NVMSizeQuery)
       /\ nvm_addr_to_block(block_to_nvm_addr(b)) = b
       /\ page_to_block(block_to_page(b)) = b
  /\ \A p \in 0 .. PageNumQuery - 1 :
       /\ Within(page_to_nvm_addr(p), SIZE_4K, dataStart, NVMSizeQuery)
       /\ nvm_addr_to_page(page_to_nvm_addr(p)) = p
       /\ page_to_block(p) = nvm_addr_to_block(page_to_nvm_addr(p))

\* The blocks of the two swap logs and of the swap area are three, and none of
\* them is one the file system gets (FsInfoFormat puts the blocks below
\* WearLevelerLogicBlockNumQuery in the block pool).
ReservedApart ==
  LET log == logical_addr_to_block(blockSwapLogLogicAddr)
      pageLog == logical_addr_to_block(pageSwapLogLogicAddr)
      area == logical_addr_to_block(pageSwapAreaLogicAddr)
  IN /\ log < pageLog /\ pageLog < area
     /\ {log, pageLog, area} \subseteq WearLevelerLogicBlockNumQuery .. BlockNumQuery - 1
=============================================================================
